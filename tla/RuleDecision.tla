------------------------------ MODULE RuleDecision ------------------------------
(***************************************************************************)
(* The page where a setter accepts a vault's rule set and funds it, or     *)
(* rejects it.  Accepting takes up to three transactions: an approval of   *)
(* the reward deposit, an approval of the collateral, each left out when   *)
(* what the page read was enough, and the acceptance, which uses both up.  *)
(* An allowance is one number for all the setter's vaults and tabs.        *)
(*                                                                         *)
(* The wallet's account is VaultCreation's concern; a vault is a round of  *)
(* rules under review, decided once.                                       *)
(***************************************************************************)
EXTENDS Integers, Sequences, FiniteSets

CONSTANTS
    Tabs, Vaults,
    Gross,          \* of [Vaults -> Nat \ {0}], the collateral of each
    Deposits,       \* what the reward deposit may be
    MaxDecisions, MaxReprices, MaxFaults     \* bounds

RuleDecisionAssumption ==
    /\ IsFiniteSet(Tabs) /\ {MaxDecisions, MaxReprices, MaxFaults} \subseteq Nat
    /\ Gross \in [Vaults -> Nat \ {0}] /\ Deposits \subseteq Nat \ {0} /\ Deposits # {}

VARIABLES
    status, deposit, allowance,     \* the chain's
    blocked,        \* the setter is the treasury and there is a creation fee
    txs, mined,     \* the setter's transactions, which are mined in the order of their nonces
    record,         \* the status the API has
    page,           \* the tabs
    decisions, reprices, faults

chain == <<status, deposit, allowance, blocked, txs, mined, reprices>>
vars == <<chain, record, page, decisions, faults>>

Uses == {"pov", "collateral"}
NoVault == "none"
None == [u \in Uses |-> 0]
Idle == [pc |-> "loading", vault |-> NoVault, seen |-> "review", decision |-> "none", flow |-> 0, need |-> 0,
         had |-> None, approve |-> {}, tx |-> 0, touched |-> FALSE]

Init ==
    /\ status = [v \in Vaults |-> "review"] /\ deposit \in Deposits
    /\ allowance = None /\ blocked \in BOOLEAN /\ txs = <<>> /\ mined = 0
    /\ record = [v \in Vaults |-> "review"] /\ page = [t \in Tabs |-> Idle]
    /\ decisions = 0 /\ reprices = 0 /\ faults = 0

-----------------------------------------------------------------------------
goes(t, r) == page' = [page EXCEPT ![t] = r]
at(t, pc) == page[t].pc = pc
fault == faults < MaxFaults /\ faults' = faults + 1
fails_Deciding(t) == goes(t, [page[t] EXCEPT !.pc = "failed"])
fails(t) == goes(t, [Idle EXCEPT !.pc = "ready", !.vault = page[t].vault, !.seen = page[t].seen])

(* What another decision, or the owner, does after a tab has read the      *)
(* contracts, for the properties. *)
touchPages(flow) == [t \in Tabs |-> [page[t] EXCEPT !.touched = @ \/ page[t].flow # flow]]
touchTxs(flow) ==
    [i \in DOMAIN txs |-> [txs[i] EXCEPT !.touched = @ \/ (i > mined /\ txs[i].flow # flow)]]

loadReviewState(t) ==
    /\ at(t, "loading")
    /\ \E v \in Vaults :
        /\ page[t].vault \in {v, NoVault}
        /\ goes(t, [Idle EXCEPT !.pc = "ready", !.vault = v, !.seen = record[v]])
    /\ UNCHANGED <<chain, record, decisions, faults>>

handleSetterDecision(t) ==
    /\ at(t, "ready") /\ page[t].seen = "review" /\ decisions < MaxDecisions /\ decisions' = decisions + 1
    /\ \/ goes(t, [page[t] EXCEPT !.pc = "read", !.decision = "accept", !.flow = decisions'])
       \/ goes(t, [page[t] EXCEPT !.pc = "reason", !.decision = "reject", !.flow = decisions'])
    /\ UNCHANGED <<chain, record, faults>>

storeReason(t) ==
    /\ at(t, "reason")
    /\ \/ goes(t, [page[t] EXCEPT !.pc = "decide"]) /\ UNCHANGED faults
       \/ fault /\ fails(t)
    /\ UNCHANGED <<chain, record, decisions>>

needs_Swapped(t, u) == IF u = "pov" THEN Gross[page[t].vault] ELSE deposit
needs(t, u) == IF u = "pov" THEN deposit ELSE Gross[page[t].vault]

blockedByTreasury == blocked

(* The vault, its fees and the allowances are read; that it is still under *)
(* review is not. *)
readContracts(t) ==
    LET r == page[t] IN
    /\ at(t, "read")
    /\ IF blockedByTreasury THEN fails(t)
       ELSE goes(t, [r EXCEPT !.pc = "decide", !.need = deposit, !.had = allowance,
                     !.touched = (status[r.vault] # "review"),
                     !.approve = {u \in Uses : allowance[u] < needs(t, u)}])
    /\ UNCHANGED <<chain, record, decisions, faults>>

amount(r, u) == IF u = "pov" THEN r.need ELSE Gross[r.vault]

transaction(t, kind, n) ==
    [vault |-> page[t].vault, kind |-> kind, amount |-> n, 
     had |-> page[t].had, flow |-> page[t].flow, ok |-> FALSE, touched |-> page[t].touched]

send(t, tx, pc) ==
    /\ \/ fails(t) /\ UNCHANGED <<txs, faults>>
       \/ txs' = Append(txs, tx) /\ goes(t, [page[t] EXCEPT !.pc = pc, !.tx = Len(txs')]) /\ UNCHANGED faults
       \/ txs' = Append(txs, tx) /\ fault /\ fails(t)
    /\ UNCHANGED <<status, deposit, allowance, blocked, mined, reprices, record, decisions>>

(* The reward deposit is approved first. *)
approve(t) ==
    LET r == page[t]  u == IF "pov" \in r.approve THEN "pov" ELSE "collateral" IN
    /\ at(t, "decide") /\ r.approve # {}
    /\ send(t, transaction(t, u, amount(r, u)), "approving")

decideRuleSetOnchain(t) ==
    LET r == page[t] IN
    /\ at(t, "decide") /\ r.approve = {}
    /\ send(t, transaction(t, r.decision, r.need), "deciding")

(* A vault under review is funded from both allowances, or rejected. *)
succeeds(tx) ==
    CASE tx.kind \in Uses -> TRUE
      [] tx.kind = "reject" -> status[tx.vault] = "review"
      [] tx.kind = "accept" -> /\ status[tx.vault] = "review" /\ ~blocked
                               /\ allowance["pov"] >= deposit /\ allowance["collateral"] >= Gross[tx.vault]

mine ==
    LET tx == txs[mined + 1]  ok == succeeds(tx) IN
    /\ mined < Len(txs) /\ mined' = mined + 1
    /\ txs' = [touchTxs(tx.flow) EXCEPT ![mined + 1].ok = ok]
    /\ allowance' =
        CASE ~ok -> allowance
          [] ok /\ tx.kind = "accept" -> [pov |-> allowance["pov"] - deposit, collateral |-> allowance["collateral"] - Gross[tx.vault]]
          [] ok /\ tx.kind = "reject" -> allowance
          [] OTHER -> [allowance EXCEPT ![tx.kind] = tx.amount]
    /\ status' = IF ok /\ tx.kind \notin Uses
                 THEN [status EXCEPT ![tx.vault] = IF tx.kind = "accept" THEN "active" ELSE "rejected"] ELSE status
    /\ page' = touchPages(tx.flow)
    /\ UNCHANGED <<deposit, blocked, reprices, record, decisions, faults>>

reprice ==
    /\ reprices < MaxReprices /\ reprices' = reprices + 1
    /\ deposit' \in Deposits \ {deposit} /\ page' = touchPages(0) /\ txs' = touchTxs(0)
    /\ UNCHANGED <<status, allowance, blocked, mined, record, decisions, faults>>

(* After an approval the next transaction is asked for, after the decision *)
(* it is registered. *)
waitForTransactionReceipt(t) ==
    LET r == page[t]  tx == txs[r.tx] IN
    /\ r.pc \in {"approving", "deciding"} /\ r.tx <= mined
    /\ \/ fault /\ fails(t)
       \/ /\ UNCHANGED faults
          /\ CASE ~tx.ok -> fails(t)
               [] tx.ok /\ r.pc = "approving" -> goes(t, [r EXCEPT !.pc = "decide", !.approve = @ \ {tx.kind}])
               [] tx.ok /\ r.pc = "deciding" -> goes(t, [r EXCEPT !.pc = "register"])
    /\ UNCHANGED <<chain, record, decisions>>

registeredStatus(t) == IF page[t].decision = "accept" THEN "active" ELSE "rejected"

registerVaultTx(t) ==
    LET v == page[t].vault  new == [record EXCEPT ![v] = registeredStatus(t)] IN
    /\ at(t, "register")
    /\ \/ record' = new /\ goes(t, [Idle EXCEPT !.vault = v]) /\ UNCHANGED faults
       \/ fault /\ fails(t) /\ record' \in {record, new}
    /\ UNCHANGED <<chain, decisions>>

reload(t) ==
    /\ page[t].pc # "loading" /\ fault /\ goes(t, Idle)
    /\ UNCHANGED <<chain, record, decisions>>

step(t) ==
    \/ loadReviewState(t) \/ storeReason(t) \/ readContracts(t) \/ approve(t)
    \/ decideRuleSetOnchain(t) \/ waitForTransactionReceipt(t) \/ registerVaultTx(t)
Next == mine \/ reprice \/ \E t \in Tabs : handleSetterDecision(t) \/ step(t) \/ reload(t)

(* The wallet, the nodes and the API answer, and transactions get mined. *)
Fairness == WF_vars(mine) /\ \A t \in Tabs : WF_vars(step(t))
Spec == Init /\ [][Next]_vars /\ Fairness

-----------------------------------------------------------------------------
Statuses == {"review", "active", "rejected"}
TypeOK ==
    /\ status \in [Vaults -> Statuses] /\ record \in [Vaults -> Statuses]
    /\ allowance \in [Uses -> Nat] /\ deposit \in Deposits /\ blocked \in BOOLEAN /\ mined \in 0 .. Len(txs)
    /\ \A i \in DOMAIN txs : txs[i].vault \in Vaults /\ txs[i].kind \in Uses \cup {"accept", "reject"}
    /\ \A t \in Tabs : page[t].vault \in Vaults \cup {NoVault} /\ page[t].tx \in 0 .. Len(txs)
    /\ decisions \in 0 .. MaxDecisions /\ reprices \in 0 .. MaxReprices /\ faults \in 0 .. MaxFaults

(* An acceptance that nothing came between uses up what was approved for  *)
(* it: of each allowance it leaves what it found beyond its need, and      *)
(* nothing where it found too little, for no later call to take.           *)
(* [proofOfVault.ts, decideRuleSetOnchain] *)
SpendsItsApprovals ==
    mined' # mined => LET tx == txs'[mined'] IN
        tx.kind = "accept" /\ tx.ok /\ ~tx.touched =>
            \A u \in Uses : LET need == IF u = "pov" THEN tx.amount ELSE Gross[tx.vault] IN
                allowance'[u] = IF tx.had[u] < need THEN 0 ELSE tx.had[u] - need

(* An acceptance reverts only because something happened after the page    *)
(* read the contracts, or the vault had been decided before: what the page *)
(* approved was enough, and no treasury's setter gets that far.            *)
(* [proofOfVault.ts, decideRuleSetOnchain] *)
RevertsHaveACause ==
    \A i \in 1 .. mined : txs[i].kind = "accept" /\ ~txs[i].ok => txs[i].touched

(* A decision on-chain that the API does not know of is one whose receipt, *)
(* registration or tab was lost, or is being registered; and the API never *)
(* knows of another one.  [review/page.tsx, handleSetterDecision] *)
DecisionIsRegistered ==
    /\ \A v \in Vaults : record[v] \in {"review", status[v]}
    /\ Cardinality({v \in Vaults : status[v] # record[v]})
           <= faults + Cardinality({t \in Tabs : page[t].pc \in {"deciding", "register"}})

(* A decision ends, decided, refused or failed: the buttons come back. *)
(* [review/page.tsx, handleSetterDecision] *)
DecisionEnds == \A t \in Tabs : page[t].pc # "ready" ~> page[t].pc = "ready"
=============================================================================
