-------------------------- MODULE CollateralPromise -------------------------
(***************************************************************************)
(* What a vault promises about the setter's collateral, whichever contract *)
(* or committee acts on it: it is taken into custody at most once, and     *)
(* leaves custody at most once, whole, in the step that fixes the outcome. *)
(* True and Invalid give it back, False gives it to those it compensates;  *)
(* a fee is taken on the way, but not from a vault found Invalid.          *)
(***************************************************************************)
EXTENDS Naturals

CONSTANT Gross      \* what the setter brings

VARIABLES held, returned, compensated, feesTaken, verdict

promised == <<held, returned, compensated, feesTaken, verdict>>

Init ==
    /\ held = 0 /\ returned = 0 /\ compensated = 0 /\ feesTaken = 0
    /\ verdict = "None"

Fund ==
    /\ held = 0 /\ verdict = "None"
    /\ held' \in 1 .. Gross
    /\ feesTaken' = Gross - held'
    /\ UNCHANGED <<returned, compensated, verdict>>

Settle(outcome, fee) ==
    /\ held > 0
    /\ fee <= held
    /\ outcome = "Invalid" => fee = 0
    /\ verdict' = outcome
    /\ held' = 0
    /\ feesTaken' = feesTaken + fee
    /\ IF outcome = "False"
       THEN compensated' = held - fee /\ UNCHANGED returned
       ELSE returned' = held - fee /\ UNCHANGED compensated

Next ==
    \/ Fund
    \/ \E outcome \in {"True", "False", "Invalid"}, fee \in 0 .. Gross : Settle(outcome, fee)

Spec == Init /\ [][Next]_promised
=============================================================================
