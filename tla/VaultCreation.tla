----------------------------- MODULE VaultCreation -----------------------------
(***************************************************************************)
(* The page that creates a vault: a form is checked, its metadata is       *)
(* uploaded, the setter's wallet pays for createVaultRequest, the receipt  *)
(* names the vault and the vault is registered with the API.  The wallet,  *)
(* the chain, the nodes and the API go on between any two of these, each   *)
(* of them may fail, a tab may be closed, and another be open.             *)
(*                                                                         *)
(* What the contract does with a request is VaultFactory's, what the API   *)
(* does with a registration VaultWorkflow's, and how an upload is signed   *)
(* PayloadUpload's.                                                        *)
(***************************************************************************)
EXTENDS Integers, Sequences, FiniteSets

CONSTANTS
    Tabs, Accounts,
    NoAccount,
    Unit, ListedUnit,   \* a token's base units, on-chain and as the settings have it
    Cap,                \* the settings' cap, in base units
    Amounts, Deposits, MaxTime,
    MaxSubmits, MaxSwitches, MaxFaults   \* bounds

VaultCreationAssumption ==
    /\ NoAccount \notin Accounts /\ {Unit, ListedUnit, Cap} \subseteq Nat \ {0}
    /\ IsFiniteSet(Tabs) /\ Amounts \cup Deposits \subseteq Nat
    /\ {MaxTime, MaxSubmits, MaxSwitches, MaxFaults} \subseteq Nat

VARIABLES
    config,     \* what the page has: "none", "env" or "runtime"
    account, rightChain,    \* the wallet's
    treasury, reign,        \* the protocol's, and how many were named after the first
    minimum, now,           \* the chain's
    txs, vaults,            \* sent transactions; vaults in the order of their ids
    records,                \* the API's vaults
    tab, submits, switches, faults

chain == <<txs, vaults>>
outside == <<account, rightChain, treasury, reign, minimum, now, switches>>
vars == <<config, outside, chain, records, tab, submits, faults>>

Form == [amount : Amounts, deposit : Deposits, settlement : 1 .. MaxTime, listed : BOOLEAN, given : BOOLEAN]
NoForm == [amount |-> 0, deposit |-> 0, settlement |-> 0, listed |-> FALSE, given |-> FALSE]
Idle == [pc |-> "form", form |-> NoForm, wallet |-> NoAccount, uri |-> NoAccount, reign |-> 0, tx |-> 0]

Init ==
    /\ config = "none" /\ account \in Accounts /\ rightChain = TRUE
    /\ treasury \in Accounts \cup {NoAccount} /\ reign = 0 /\ minimum \in Deposits /\ now = 0
    /\ txs = <<>> /\ vaults = <<>> /\ records = {}
    /\ tab = [t \in Tabs |-> Idle] /\ submits = 0 /\ switches = 0 /\ faults = 0

-----------------------------------------------------------------------------
(* Without the API's settings the build's are used, which list no token.   *)
resolveProofOfVaultRuntimeConfig ==
    /\ config = "none" /\ config' \in {"env", "runtime"}
    /\ UNCHANGED <<outside, chain, records, tab, submits, faults>>

(* The user switches accounts, locks the wallet or changes its chain, the  *)
(* protocol's owner changes the treasury or the deposit, and time passes.  *)
walletChanges ==
    /\ switches < MaxSwitches /\ switches' = switches + 1
    /\ \/ account' \in Accounts \cup {NoAccount} /\ UNCHANGED <<rightChain, treasury, reign, minimum, now>>
       \/ rightChain' = ~rightChain /\ UNCHANGED <<account, treasury, reign, minimum, now>>
       \/ /\ treasury' \in Accounts \cup {NoAccount} /\ reign' = reign + 1
          /\ UNCHANGED <<account, rightChain, minimum, now>>
       \/ minimum' \in Deposits /\ UNCHANGED <<account, rightChain, treasury, reign, now>>
       \/ now < MaxTime /\ now' = now + 1 /\ UNCHANGED <<account, rightChain, treasury, reign, minimum>>
    /\ UNCHANGED <<config, chain, records, tab, submits, faults>>

goes(t, r) == tab' = [tab EXCEPT ![t] = r]
fails(t) == goes(t, Idle)
calls(t, pc) == tab[t].pc = pc /\ UNCHANGED <<config, outside, submits>>

(* What cannot be reached, answers no or is not heard of again. *)
fault == faults < MaxFaults /\ faults' = faults + 1

collateralCapExceeded(f) == f.amount * ListedUnit > Cap

validate(f) ==
    /\ config = "runtime" /\ f.listed /\ ~collateralCapExceeded(f)
    /\ f.amount > 0 /\ f.deposit > 0 /\ f.settlement > now

(* The shown account may be an earlier one than the wallet's; and whether  *)
(* the page has read who is the treasury is left open. *)
handleSubmit(t) ==
    /\ tab[t].pc = "form" /\ submits < MaxSubmits /\ submits' = submits + 1
    /\ \E f \in Form, w \in Accounts :
        /\ validate(f)
        /\ goes(t, [Idle EXCEPT !.pc = IF f.given THEN "request" ELSE "upload", !.form = f, !.wallet = w])
    /\ UNCHANGED <<config, outside, chain, records, faults>>

storePayload(t) ==
    /\ calls(t, "upload")
    /\ \/ goes(t, [tab[t] EXCEPT !.pc = "request", !.uri = tab[t].wallet]) /\ UNCHANGED faults
       \/ fault /\ fails(t)
    /\ UNCHANGED <<chain, records>>

sameSetter(t) == account = tab[t].wallet

(* The account and the chain are asked for one after the other. *)
requestAccounts(t) ==
    /\ calls(t, "request")
    /\ IF account # NoAccount /\ sameSetter(t) THEN goes(t, [tab[t] EXCEPT !.pc = "chain", !.wallet = account])
       ELSE fails(t)
    /\ UNCHANGED <<chain, records, faults>>

requestChain(t) ==
    /\ calls(t, "chain")
    /\ IF rightChain THEN goes(t, [tab[t] EXCEPT !.pc = "treasury"]) ELSE fails(t)
    /\ UNCHANGED <<chain, records, faults>>

isTreasury(w) == w = treasury

readTreasury(t) ==
    /\ calls(t, "treasury")
    /\ IF isTreasury(tab[t].wallet) THEN fails(t) ELSE goes(t, [tab[t] EXCEPT !.pc = "minimum", !.reign = reign])
    /\ UNCHANGED <<chain, records, faults>>

readMinimum(t) ==
    /\ calls(t, "minimum")
    /\ IF tab[t].form.deposit < minimum THEN fails(t) ELSE goes(t, [tab[t] EXCEPT !.pc = "send"])
    /\ UNCHANGED <<chain, records, faults>>

(* The wallet signs for the account it was asked with, or the user says    *)
(* no; and its answer may be lost after it has sent the transaction. *)
writeContract(t) ==
    LET r == tab[t]
        tx == [from |-> r.wallet, form |-> r.form, gross |-> r.form.amount * Unit, uri |-> r.uri, reign |-> r.reign,
               status |-> "pending", vault |-> 0]
    IN  /\ calls(t, "send")
        /\ \/ fails(t) /\ UNCHANGED <<chain, faults>>
           \/ txs' = Append(txs, tx) /\ fault /\ fails(t) /\ UNCHANGED vaults
           \/ /\ txs' = Append(txs, tx) /\ UNCHANGED <<vaults, faults>>
              /\ goes(t, [r EXCEPT !.pc = "receipt", !.tx = Len(txs')])
        /\ UNCHANGED records

mine(i) ==
    LET tx == txs[i] IN
    /\ tx.status = "pending"
    /\ IF tx.form.deposit >= minimum /\ tx.form.settlement > now
       THEN /\ vaults' = Append(vaults, [setter |-> tx.from, gross |-> tx.gross, uri |-> tx.uri,
                                          given |-> tx.form.given, reign |-> tx.reign])
            /\ txs' = [txs EXCEPT ![i].status = "success", ![i].vault = Len(vaults')]
       ELSE txs' = [txs EXCEPT ![i].status = "reverted"] /\ UNCHANGED vaults
    /\ UNCHANGED <<config, outside, records, tab, submits, faults>>

(* The vault's id is the event's. *)
parseVaultIdFromReceipt_Latest(tx) == Len(vaults)
parseVaultIdFromReceipt(tx) == tx.vault

waitForTransactionReceipt(t) ==
    LET tx == txs[tab[t].tx] IN
    /\ calls(t, "receipt")
    /\ \/ fault /\ fails(t)
       \/ tx.status = "reverted" /\ fails(t) /\ UNCHANGED faults
       \/ tx.status = "success" /\ goes(t, [tab[t] EXCEPT !.pc = "register"]) /\ UNCHANGED faults
    /\ UNCHANGED <<chain, records>>

(* The registration is lost, or its answer is. *)
createVault(t) ==
    LET r == tab[t]  tx == txs[r.tx]
        record == [id |-> parseVaultIdFromReceipt(tx), setter |-> r.wallet, gross |-> tx.gross, uri |-> r.uri, tx |-> r.tx]
    IN  /\ calls(t, "register") /\ fails(t)
        /\ \/ records' = records \cup {record} /\ UNCHANGED faults
           \/ fault /\ records' \in {records, records \cup {record}}
        /\ UNCHANGED chain

(* A tab is closed or loaded anew; what was sent is on its way. *)
close(t) ==
    /\ tab[t].pc # "form" /\ fault /\ fails(t)
    /\ UNCHANGED <<config, outside, chain, records, submits>>

step(t) ==
    \/ storePayload(t) \/ requestAccounts(t) \/ requestChain(t) \/ readTreasury(t) \/ readMinimum(t)
    \/ writeContract(t) \/ waitForTransactionReceipt(t) \/ createVault(t)

Next ==
    \/ resolveProofOfVaultRuntimeConfig \/ walletChanges
    \/ \E t \in Tabs : handleSubmit(t) \/ step(t) \/ close(t)
    \/ \E i \in DOMAIN txs : mine(i)

(* The wallet, the nodes and the API answer, and transactions get mined. *)
Fairness ==
    /\ \A t \in Tabs : WF_vars(step(t))
    /\ WF_vars(\E i \in DOMAIN txs : mine(i))
Spec == Init /\ [][Next]_vars /\ Fairness

-----------------------------------------------------------------------------
TypeOK ==
    /\ config \in {"none", "env", "runtime"} /\ account \in Accounts \cup {NoAccount} /\ rightChain \in BOOLEAN
    /\ treasury \in Accounts \cup {NoAccount} /\ reign \in 0 .. switches /\ minimum \in Deposits /\ now \in 0 .. MaxTime
    /\ \A i \in DOMAIN txs : txs[i].from \in Accounts /\ txs[i].vault \in 0 .. Len(vaults)
    /\ \A r \in records : r.id \in DOMAIN vaults /\ r.tx \in DOMAIN txs
    /\ \A t \in Tabs : tab[t].form \in Form \cup {NoForm} /\ tab[t].tx \in 0 .. Len(txs)
    /\ submits \in 0 .. MaxSubmits /\ switches \in 0 .. MaxSwitches /\ faults \in 0 .. MaxFaults

(* Metadata, chain and record name one setter, though the wallet's account *)
(* changes between showing it, signing the upload and paying; and a record *)
(* is the vault of its own transaction, though other tabs make vaults too. *)
(* [create/page.tsx, handleSubmit; proofOfVault.ts,                        *)
(* createVaultRequestOnchain, parseVaultIdFromReceipt] *)
SetterAgrees ==
    /\ \A i \in DOMAIN vaults : vaults[i].given \/ vaults[i].uri = vaults[i].setter
    /\ \A r \in records : LET v == vaults[r.id] IN
          r.setter = v.setter /\ r.gross = v.gross /\ r.uri = v.uri /\ txs[r.tx].vault = r.id

(* A deposit is paid for a vault nobody registers only when a receipt, a   *)
(* registration or a tab was lost, once for each loss.                     *)
(* [create/page.tsx, handleSubmit] *)
PaidIsRegistered ==
    Cardinality(DOMAIN vaults \ {r.id : r \in records})
        <= faults + Cardinality({t \in Tabs : tab[t].pc \in {"receipt", "register"}})

(* No vault exceeds the settings' cap, and none is of the protocol's       *)
(* treasury, whose setter could not fund it, but of one who was named it   *)
(* after the page had read who it is: while the user was asked to sign,    *)
(* before the payment was mined, or later; a page that reads it before the *)
(* account it pays with is known would break this.                         *)
(* [create/page.tsx, validate; proofOfVault.ts, createVaultRequestOnchain] *)
FundableVault ==
    \A i \in DOMAIN vaults :
        vaults[i].gross <= Cap /\ (vaults[i].setter = treasury => vaults[i].reign < reign)

(* Every submission ends: the form can be used again. *)
(* [create/page.tsx, handleSubmit] *)
SubmitEnds == \A t \in Tabs : tab[t].pc # "form" ~> tab[t].pc = "form"
=============================================================================
