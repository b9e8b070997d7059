---------------------------------- MODULE Web ----------------------------------
(***************************************************************************)
(* The pages of the web application together: the committee members' page, *)
(* the connected wallet, the page that creates a vault and the one on      *)
(* which its setter decides.                                               *)
(*                                                                         *)
(* Each is a page of its own with its own state, asks the wallet itself    *)
(* before it sends anything, and reads the chain and the API anew; what    *)
(* they have in common is in those, which each module has as far as its    *)
(* page sees it.  So they share no variable, and a step of the application *)
(* is a step of one of them.                                               *)
(***************************************************************************)
EXTENDS ValidatorPage

CONSTANTS
    Accounts, NoAccount,
    Providers, providerScore, Chains, NoProvider,       \* the connected wallet's
    MaxChanges, MaxConnects,
    CreationTabs, Unit, ListedUnit, Cap, Amounts, Deposits,     \* vault creation's
    MaxTime, MaxSubmits, MaxMoves, MaxLosses,
    DecisionTabs, Vaults, Gross,                        \* rule decisions'
    MaxDecisions, MaxReprices, MaxMishaps

VARIABLES
    silent, present, wallet, notices, attached, listening, asked, shown, applied, changes, connects,
    config, payer, rightChain, treasury, reign, minimum, now, sent, vaults, records, forms, submits,
    moves, losses,
    status, deposit, allowance, blocked, txs, mined, record, page, decisions, reprices, mishaps

walletVars == <<silent, present, wallet, notices, attached, listening, asked, shown, applied, changes, connects>>
creationVars == <<config, payer, rightChain, treasury, reign, minimum, now, sent, vaults, records, forms,
                  submits, moves, losses>>
decisionVars == <<status, deposit, allowance, blocked, txs, mined, record, page, decisions, reprices, mishaps>>
webVars == <<vars, walletVars, creationVars, decisionVars>>

CW == INSTANCE ConnectedWallet WITH events <- notices, calls <- asked
VC == INSTANCE VaultCreation WITH
        Tabs <- CreationTabs, MaxSwitches <- MaxMoves, MaxFaults <- MaxLosses,
        account <- payer, txs <- sent, tab <- forms, switches <- moves, faults <- losses
RD == INSTANCE RuleDecision WITH Tabs <- DecisionTabs, MaxFaults <- MaxMishaps, faults <- mishaps

ASSUME WebAssumption ==
    /\ CW!ConnectedWalletAssumption /\ VC!VaultCreationAssumption /\ RD!RuleDecisionAssumption

-----------------------------------------------------------------------------
WebInit == Init /\ CW!Init /\ VC!Init /\ RD!Init

ValidatorMoves == Next /\ UNCHANGED <<walletVars, creationVars, decisionVars>>
WalletMoves == CW!Next /\ UNCHANGED <<vars, creationVars, decisionVars>>
CreationMoves == VC!Next /\ UNCHANGED <<vars, walletVars, decisionVars>>
DecisionMoves == RD!Next /\ UNCHANGED <<vars, walletVars, creationVars>>

WebNext == ValidatorMoves \/ WalletMoves \/ CreationMoves \/ DecisionMoves
WebSpec == WebInit /\ [][WebNext]_webVars

\* What each page does when only its own steps are looked at.
ValidatorSpec == Init /\ [][Next]_vars
WalletSpec == CW!Init /\ [][CW!Next]_(CW!vars)
CreationSpec == VC!Init /\ [][VC!Next]_(VC!vars)
DecisionSpec == RD!Init /\ [][RD!Next]_(RD!vars)

-----------------------------------------------------------------------------
\* Once all is answered the page shows the account and chain of the best provider, to which
\* alone it listens (ConnectedWallet).
ShownIsCurrent == CW!TypeOK /\ CW!ShownIsCurrent /\ CW!ListensToTheBest

\* Metadata, chain and record name one setter; a deposit is paid for an unregistered vault
\* only when an answer or a tab was lost; and no vault is over the cap or of a setter whom
\* the page could know to be the treasury (VaultCreation).
CreationSound == VC!TypeOK /\ VC!SetterAgrees /\ VC!PaidIsRegistered /\ VC!FundableVault

\* An acceptance reverts only because something came in between, one that succeeds uses up
\* what was approved for it, and a decision that the API does not know of is one whose answer
\* was lost (RuleDecision).
DecisionSound ==
    /\ [](RD!TypeOK /\ RD!RevertsHaveACause /\ RD!DecisionIsRegistered)
    /\ [][RD!SpendsItsApprovals]_(RD!vars)
=============================================================================
