-------------------------------- MODULE MCWeb --------------------------------
(***************************************************************************)
(* The pages of the web application on small instances, its parts.  As     *)
(* they share no state an execution picks one part at the start, and only  *)
(* that part's page moves, on the instance that the part stands for; the   *)
(* others stay as they are.                                                *)
(***************************************************************************)
EXTENDS Web, TLC

CONSTANTS t1, t2, alice, bob, okx, metamask, v1, v2, Parts

VARIABLE part

\* The committee members' page: one tab, two agents, of whom one stays for the second round.
OneTab == {t1}
TwoAgents == {alice, bob}
Rotating == [r \in 1 .. MaxRounds |-> IF r = 1 THEN Agents ELSE {alice}]
TwoContents == {"true", "false"}
\* The other pages: two of each.
TwoTabs == {t1, t2}
TwoProviders == {okx, metamask}
Scores == [p \in TwoProviders |-> IF p = okx THEN 300 ELSE 200]
TwoVaults == {v1, v2}
GrossOf == [v \in TwoVaults |-> IF v = v1 THEN 3 ELSE 4]

-----------------------------------------------------------------------------
AtHome == [account |-> alice, chain |-> 196]
OneAccount == \A p \in Providers : wallet[p].account \in {alice, NoAccount} /\ wallet[p].chain = 196

\* One wallet and its user; two wallets; two, one of which does not announce itself.
InWallet ==
    CASE part = "wallet_shown" -> silent = {} /\ present \subseteq {okx} /\ wallet[metamask] = AtHome
      [] part = "wallet_best" -> silent = {} /\ OneAccount
      [] part = "wallet_silent" -> silent = {metamask} /\ OneAccount /\ changes <= 1
      [] OTHER -> silent = {} /\ \A p \in Providers : wallet[p] = AtHome

\* One tab whose wallet changes accounts; two tabs of one account.
InCreation ==
    CASE part = "creation" -> forms[t2].pc = "form"
      [] part = "creation_tabs" ->
            /\ {payer, treasury} \cup {forms[t].wallet : t \in CreationTabs} \subseteq {alice, NoAccount}
            /\ minimum = 1 /\ moves <= 1
            /\ \A t \in CreationTabs : forms[t].form.amount <= 1 /\ forms[t].form.deposit <= 1
      [] OTHER -> payer = alice /\ treasury = bob /\ minimum = 1

\* Two tabs, of a setter who can fund the vaults and of one who cannot; one tab, again.
InDecision ==
    CASE part = "decision" -> ~blocked /\ decisions <= 2 /\ mishaps <= 1
      [] part = "decision_blocked" -> blocked /\ decisions <= 2 /\ mishaps <= 1
      [] part = "decision_again" -> ~blocked /\ deposit = 1 /\ page[t2].pc = "loading"
      [] OTHER -> ~blocked /\ deposit = 1

MCInit ==
    /\ part \in Parts
    /\ Init /\ (part # "validator" => account = alice)
    /\ CW!Init /\ InWallet
    /\ VC!Init /\ InCreation
    /\ RD!Init /\ InDecision

MCNext ==
    /\ UNCHANGED part
    /\ \/ part = "validator" /\ ValidatorMoves
       \/ part \in {"wallet_shown", "wallet_best", "wallet_silent"} /\ WalletMoves /\ InWallet'
       \/ part \in {"creation", "creation_tabs"} /\ CreationMoves /\ InCreation'
       \/ part \in {"decision", "decision_blocked", "decision_again"} /\ DecisionMoves /\ InDecision'

MCSpec == MCInit /\ [][MCNext]_<<part, webVars>>
=============================================================================
