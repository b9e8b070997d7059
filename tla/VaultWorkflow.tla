---------------------------- MODULE VaultWorkflow ----------------------------
(***************************************************************************)
(* The API's record of a vault, next to the vault on the chain: the vault  *)
(* and workflow services, the gateway through which they write to and read *)
(* from the factory, and the timer that reconciles the two.                *)
(*                                                                         *)
(* Every operation reads the record whole, awaits the gateway and saves    *)
(* the record whole; each await is the end of a step.  A write returns as  *)
(* soon as the transaction is broadcast, and whether it is mined, in time  *)
(* or at all, shows only in a later snapshot.  A snapshot is two reads,    *)
(* the factory's record and then the committees.                           *)
(*                                                                         *)
(* A committee is named by the transaction that registers it, 0 is none.   *)
(***************************************************************************)
EXTENDS Integers, Sequences, FiniteSets

CONSTANTS
    Requests,    \* concurrent HTTP requests
    Timers,      \* overlapping runs of the reconciliation timer
    Ops,         \* operations that are called
    Vaults,      \* bound: ids 1 .. n the factory gives out
    Postgres,    \* which store: Postgres or in memory
    Mock,        \* the mock gateway: no chain behind it
    Finalizer,   \* a signer of its own for challenges and finalization
    Faults,      \* steps at which requests fail or are cut off by a restart
    MaxTxs,      \* bound: transactions
    MaxCalls     \* bound: requests and faults

VaultWorkflowAssumption ==
    /\ {Postgres, Mock, Finalizer} \subseteq BOOLEAN
    /\ Vaults \subseteq Nat \ {0} /\ (Mock => 1 \in Vaults)
    /\ MaxTxs \in Nat /\ MaxCalls \in Nat

VARIABLES
    chain,    \* the factory's vaults
    txs,      \* transactions: fn, vault, signer, state
    record,   \* the API's vault record
    mirror,   \* the API's copy of the round's evidence and challenge
    request,  \* positions and locals of requests and timers
    booked,   \* history: transactions the API has the answer of, less those it lets go
    calls

vars == <<chain, txs, record, mirror, request, booked, calls>>

Actors == Requests \cup Timers
NoVault == [status |-> "None", ruleRound |-> 0, resRound |-> 0, rejections |-> 0,
            rule |-> 0, resolution |-> 0, evidence |-> "none", challenged |-> FALSE]
NoRecord == [status |-> "None", ext |-> 0, ruleRound |-> 0, resRound |-> 0, rejections |-> 0,
             rule |-> 0, resolution |-> 0, final |-> "none", traces |-> {}]
Snapshot(v) == [status |-> v.status, ruleRound |-> v.ruleRound, resRound |-> v.resRound,
                rejections |-> v.rejections, rule |-> v.rule, resolution |-> v.resolution]
Idle == [pc |-> "idle", op |-> "none", seen |-> NoRecord, tx |-> 0, reopen |-> FALSE,
         outcome |-> "none", snap |-> Snapshot(NoVault)]
Resolved == {"ResolvedTrue", "ResolvedFalse", "ResolvedInvalid"}
MaxResolutionRounds == 2

Init ==
    /\ chain = [v \in Vaults |-> NoVault]
    /\ txs = <<>>
    /\ record = NoRecord
    /\ mirror = [round |-> 0, evidence |-> "none", challenged |-> FALSE]
    /\ request = [r \in Actors |-> Idle]
    /\ booked = {} /\ calls = 0

Goto(r, locals) == request' = [request EXCEPT ![r] = locals]
Finish(r) == Goto(r, Idle)

-----------------------------------------------------------------------------
(* The chain: what the factory accepts and does, in outline.               *)
Needs ==
    [createVaultRequest |-> {"None"}, registerRuleCommittee |-> {"RuleAuction"},
     finalizeRuleSet |-> {"RuleDrafting"}, acceptRuleSetAndFund |-> {"UserRuleReview"},
     rejectRuleSet |-> {"UserRuleReview"},
     registerResolutionCommittee |-> {"Active", "ResolutionAuction"},
     resolveChallenge |-> {"CommitPhase"}, finalizeV2Vault |-> {"CommitPhase"}]

accepts(fn, v) ==
    /\ v \in Vaults /\ chain[v].status \in Needs[fn]
    /\ fn = "resolveChallenge" => chain[v].challenged
    /\ fn = "finalizeV2Vault" => ~chain[v].challenged

Outcome(e) ==
    IF e = "TRUE" THEN "ResolvedTrue" ELSE IF e = "FALSE" THEN "ResolvedFalse" ELSE "ResolvedInvalid"

reopens(c) == c.evidence = "none" /\ c.resRound < MaxResolutionRounds

effect(c, fn, k) ==
    CASE fn = "createVaultRequest" -> [c EXCEPT !.status = "RuleAuction"]
      [] fn = "registerRuleCommittee" ->
            [c EXCEPT !.status = "RuleDrafting", !.ruleRound = @ + 1, !.rule = k]
      [] fn = "finalizeRuleSet" -> [c EXCEPT !.status = "UserRuleReview"]
      [] fn = "acceptRuleSetAndFund" -> [c EXCEPT !.status = "Active"]
      [] fn = "rejectRuleSet" ->
            [c EXCEPT !.rejections = @ + 1, !.rule = 0,
                      !.status = IF c.rejections = 1 THEN "Cancelled" ELSE "RuleAuction"]
      [] fn = "registerResolutionCommittee" ->
            [c EXCEPT !.status = "CommitPhase", !.resRound = @ + 1, !.resolution = k,
                      !.evidence = "none"]
      [] fn = "resolveChallenge" -> [c EXCEPT !.challenged = FALSE]
      [] fn = "finalizeV2Vault" ->
            [c EXCEPT !.resolution = 0,
                      !.status = IF reopens(c) THEN "ResolutionAuction" ELSE Outcome(c.evidence)]

walletFor(fn) ==
    IF Finalizer /\ fn \in {"resolveChallenge", "finalizeV2Vault"} THEN "finalizer" ELSE "operator"

IdsLeft ==
    Cardinality({k \in DOMAIN txs : txs[k].fn = "createVaultRequest"}) < Cardinality(Vaults)

send(fn, v, signer) ==
    txs' = Append(txs, [fn |-> fn, vault |-> v, by |-> signer,
                        state |-> IF Mock THEN "success" ELSE "pending"])

(* A finalization that opens another round is no VaultFinalized event. *)
outcomeOf(fn, c) ==
    IF fn = "finalizeV2Vault" /\ reopens(c) THEN "reopened" ELSE "success"

(* Transactions of one signer are mined in order of their nonces. *)
mine(k) ==
    /\ txs[k].state = "pending"
    /\ \A j \in 1 .. k - 1 : txs[j].by = txs[k].by => txs[j].state # "pending"
    /\ LET fn == txs[k].fn
           v == IF txs[k].vault # 0 THEN txs[k].vault
                ELSE CHOOSE n \in Vaults : chain[n].status = "None"
                       /\ \A o \in Vaults : chain[o].status = "None" => n <= o
       IN IF accepts(fn, v)
          THEN /\ chain' = [chain EXCEPT ![v] = effect(@, fn, k)]
               /\ txs' = [txs EXCEPT ![k].state = outcomeOf(fn, chain[v]), ![k].vault = v]
          ELSE txs' = [txs EXCEPT ![k].state = "reverted"] /\ UNCHANGED chain
    /\ UNCHANGED <<record, mirror, request, booked, calls>>

(* Setters send their own transactions from browser wallets. *)
setterSends(fn, v) ==
    /\ ~Mock /\ Len(txs) < MaxTxs
    /\ IF fn = "createVaultRequest" THEN v = 0 /\ IdsLeft ELSE accepts(fn, v)
    /\ send(fn, v, "setter")
    /\ UNCHANGED <<chain, record, mirror, request, booked, calls>>

(* The committee's evidence, and a challenge to it. *)
agentsWork(v) ==
    /\ chain[v].status = "CommitPhase" /\ chain[v].evidence = "none"
    /\ \E e \in {"TRUE", "FALSE"}, b \in BOOLEAN :
        chain' = [chain EXCEPT ![v].evidence = e, ![v].challenged = b]
    /\ UNCHANGED <<txs, record, mirror, request, booked, calls>>

agentsPost(v) ==
    /\ v = record.ext /\ chain[v].evidence # "none"
    /\ mirror.round < chain[v].resRound
    /\ mirror' = [round |-> chain[v].resRound, evidence |-> chain[v].evidence,
                  challenged |-> chain[v].challenged]
    /\ UNCHANGED <<chain, txs, record, request, booked, calls>>

-----------------------------------------------------------------------------
(* The stores.  On Postgres the row is updated from the record's fields,   *)
(* and a field that is undefined is left as it was.                        *)
mapVaultToRow(old, new) ==
    [new EXCEPT !.rule = IF @ = 0 THEN old.rule ELSE @,
                !.resolution = IF @ = 0 THEN old.resolution ELSE @,
                !.final = IF @ = "none" THEN old.final ELSE @]

saveVault(new) == record' = IF Postgres THEN mapVaultToRow(record, new) ELSE new

(* The gateway. *)
canWrite(fn, v) == Len(txs) < MaxTxs /\ (Mock \/ accepts(fn, v))

readVaultSnapshot(r, v) == IF Mock THEN Snapshot(request[r].seen) ELSE Snapshot(chain[v])
verifyVaultSnapshot(v) ==
    IF Mock THEN [Snapshot(NoVault) EXCEPT !.status = "RuleAuction"] ELSE Snapshot(chain[v])

CommitteesRead(snap, v) ==
    IF Mock THEN snap ELSE [snap EXCEPT !.rule = chain[v].rule, !.resolution = chain[v].resolution]

-----------------------------------------------------------------------------
(* Requests begin by reading the record. *)
begin(r, op, next) ==
    /\ request[r].pc = "idle" /\ op \in Ops
    /\ IF r \in Requests THEN calls < MaxCalls /\ calls' = calls + 1 ELSE UNCHANGED calls
    /\ Goto(r, next)
    /\ UNCHANGED <<chain, txs, record, mirror, booked>>

Start(op, pc) == [Idle EXCEPT !.op = op, !.pc = pc, !.seen = record]

createDraft(r) ==
    record.status = "None" /\ begin(r, "createDraft", Start("createDraft", "insert"))

createVaultRequest(r) ==
    /\ record.status = "None"
    /\ begin(r, "createVaultRequest", Start("createVaultRequest", "ensure"))

(* A setter's own request is registered by its receipt, and may be again.  *)
registerOnchain(r) ==
    \E k \in DOMAIN txs :
        /\ txs[k].by = "setter" /\ txs[k].fn = "createVaultRequest"
        /\ record.status = "None" \/ (record.ext # 0 /\ record.ext = txs[k].vault)
        /\ begin(r, "registerOnchain", [Start("registerOnchain", "verify") EXCEPT !.tx = k])

registerRuleCommittee(r) ==
    record.status # "None" /\ begin(r, "registerRuleCommittee", Start("registerRuleCommittee", "ensure"))

registerResolutionCommittee(r) ==
    /\ record.status # "None"
    /\ begin(r, "registerResolutionCommittee", Start("registerResolutionCommittee", "ensure"))

(* Bootstrapping finds the committee there, or the status wrong, or        *)
(* registers one.                                                          *)
bootstrapCommittee(r) ==
    \/ /\ record.rule = 0 /\ record.status \in {"DraftRequest", "RuleAuction"}
       /\ begin(r, "bootstrapCommittee", Start("registerRuleCommittee", "ensure"))
    \/ /\ record.resolution = 0 /\ record.status \in {"Active", "ResolutionAuction"}
       /\ begin(r, "bootstrapCommittee", Start("registerResolutionCommittee", "ensure"))

finalizeRuleSet(r) ==
    /\ record.rule # 0 /\ record.ext # 0
    /\ begin(r, "finalizeRuleSet", Start("finalizeRuleSet", "write"))

decideRuleSet(r) ==
    \E op \in {"acceptRuleSetAndFund", "rejectRuleSet"} :
        record.ext # 0 /\ begin(r, "decideRuleSet", Start(op, "write"))

finalizeResolution(r) ==
    /\ record.ext # 0
    /\ \E b \in BOOLEAN :
        begin(r, "finalizeResolution", [Start("finalizeResolution", "challenge") EXCEPT !.reopen = b])

syncOnchainSnapshot(r) == record.ext # 0 /\ begin(r, "sync", Start("sync", "vault"))

(* Setters report their decisions, and anybody a finalization. *)
registerTx(r) ==
    \E k \in DOMAIN txs :
        /\ record.ext # 0 /\ txs[k].fn # "createVaultRequest"
        /\ txs[k].by = "setter" \/ txs[k].fn = "finalizeV2Vault"
        /\ begin(r, "registerTx", [Start("registerTx", "verify") EXCEPT !.tx = k])

(* What a request has in its hands and not in the record: a failure takes  *)
(* all of it along, a finalization that ends without saving the challenges *)
(* that it closed.                                                         *)
unsaved(q) == (q.seen.traces \cup {q.tx}) \ record.traces
closedInVain(q) == {k \in q.seen.traces \ record.traces : txs[k].fn = "resolveChallenge"}

(* Awaited calls fail and requests are cut off. *)
fails(r) ==
    /\ request[r].pc \in Faults /\ calls < MaxCalls /\ calls' = calls + 1
    /\ booked' = booked \ unsaved(request[r])
    /\ Finish(r)
    /\ UNCHANGED <<chain, txs, record, mirror>>

-----------------------------------------------------------------------------
(* ensureOnchainRegistration and createVaultRequest: broadcast, wait for   *)
(* the receipt, read the id from its event and save the record with it.    *)
registered(r) ==
    /\ request[r].pc = "ensure" /\ request[r].seen.ext # 0
    /\ Goto(r, [request[r] EXCEPT !.pc = "write"])
    /\ UNCHANGED <<chain, txs, record, mirror, booked, calls>>

requestVault(r) ==
    /\ request[r].pc = "ensure" /\ request[r].seen.ext = 0
    /\ Len(txs) < MaxTxs /\ IdsLeft
    /\ txs' = Append(txs, [fn |-> "createVaultRequest", by |-> "operator",
                           vault |-> IF Mock THEN 1 ELSE 0,
                           state |-> IF Mock THEN "success" ELSE "pending"])
    /\ Goto(r, [request[r] EXCEPT !.pc = "receipt", !.tx = Len(txs) + 1])
    /\ UNCHANGED <<chain, record, mirror, booked, calls>>

withId(seen, k) == [seen EXCEPT !.ext = txs[k].vault, !.traces = @ \cup {k}]

ensureOnchainRegistration(r) ==
    LET q == request[r]  new == withId(q.seen, q.tx) IN
    /\ q.pc = "receipt" /\ txs[q.tx].state = "success"
    /\ IF q.op = "createVaultRequest"
       THEN saveVault([new EXCEPT !.status = "RuleAuction"]) /\ Finish(r)
       ELSE saveVault(new) /\ Goto(r, [q EXCEPT !.pc = "write", !.seen = new])
    /\ booked' = booked \cup {q.tx}
    /\ UNCHANGED <<chain, txs, mirror, calls>>

insertDraft(r) ==
    /\ request[r].pc = "insert"
    /\ saveVault([NoRecord EXCEPT !.status = "DraftRequest"])
    /\ Finish(r)
    /\ UNCHANGED <<chain, txs, mirror, booked, calls>>

(* Broadcasting fails when the estimate of its gas does: when the factory  *)
(* would refuse the call as things stand.                                  *)
write(r) ==
    LET q == request[r] IN
    /\ q.pc = "write" /\ canWrite(q.op, q.seen.ext)
    /\ send(q.op, q.seen.ext, walletFor(q.op))
    /\ Goto(r, [q EXCEPT !.pc = "save", !.tx = Len(txs) + 1])
    /\ booked' = booked \cup {Len(txs) + 1}
    /\ UNCHANGED <<chain, record, mirror, calls>>

refused(r) ==
    /\ request[r].pc \in {"write", "resolve", "finalize"}
    /\ LET fn == CASE request[r].pc = "write" -> request[r].op
                   [] request[r].pc = "resolve" -> "resolveChallenge"
                   [] request[r].pc = "finalize" -> "finalizeV2Vault"
       IN ~canWrite(fn, request[r].seen.ext)
    /\ booked' = booked \ closedInVain(request[r])
    /\ Finish(r)
    /\ UNCHANGED <<chain, txs, record, mirror, calls>>

(* The records that are saved after a write. *)
decided(seen, op) ==
    IF op = "acceptRuleSetAndFund" THEN [seen EXCEPT !.status = "Active"]
    ELSE [seen EXCEPT !.rejections = @ + 1,
                      !.status = IF seen.rejections + 1 >= 2 THEN "Cancelled" ELSE "RuleAuction",
                      !.rule = IF seen.rejections + 1 >= 2 THEN @ ELSE 0]

nextVault(q) ==
    CASE q.op = "registerRuleCommittee" ->
            [q.seen EXCEPT !.status = "RuleDrafting", !.ruleRound = @ + 1, !.rule = q.tx]
      [] q.op = "registerResolutionCommittee" ->
            [q.seen EXCEPT !.status = "CommitPhase", !.resRound = @ + 1, !.resolution = q.tx]
      [] q.op = "finalizeRuleSet" -> [q.seen EXCEPT !.status = "UserRuleReview"]
      [] OTHER -> decided(q.seen, q.op)

traced_Replaced(seen, k) == {k}
traced(seen, k) == seen.traces \cup {k}

saveWritten(r) ==
    LET q == request[r] IN
    /\ q.pc = "save"
    /\ saveVault([nextVault(q) EXCEPT !.traces = traced(q.seen, q.tx)])
    /\ Finish(r)
    /\ UNCHANGED <<chain, txs, mirror, booked, calls>>

-----------------------------------------------------------------------------
(* finalizeResolution: the challenge is closed in the store before it is   *)
(* resolved on the chain; the consensus is that of the stored submissions. *)
updateChallengeStatus(r) ==
    /\ request[r].pc = "challenge" /\ mirror.challenged
    /\ mirror' = [mirror EXCEPT !.challenged = FALSE]
    /\ Goto(r, [request[r] EXCEPT !.pc = "resolve"])
    /\ UNCHANGED <<chain, txs, record, booked, calls>>

resolveChallenge(r) ==
    LET q == request[r] IN
    /\ q.pc = "resolve" /\ canWrite("resolveChallenge", q.seen.ext)
    /\ send("resolveChallenge", q.seen.ext, walletFor("resolveChallenge"))
    /\ Goto(r, [q EXCEPT !.pc = "evaluate", !.seen.traces = @ \cup {Len(txs) + 1}])
    /\ booked' = booked \cup {Len(txs) + 1}
    /\ UNCHANGED <<chain, record, mirror, calls>>

noChallengeNamed(r) ==
    /\ request[r].pc = "challenge"
    /\ Goto(r, [request[r] EXCEPT !.pc = "evaluate"])
    /\ UNCHANGED <<chain, txs, record, mirror, booked, calls>>

storedOutcome(seen) == IF mirror.round = seen.resRound THEN mirror.evidence ELSE "none"

(* Open challenges block, but not where evidence is missing: then the      *)
(* round is reopened, or settled as invalid, all the same.  A resolution   *)
(* that is not ready is answered without saving.                           *)
evaluateFinalityReadiness(r) ==
    LET q == request[r]  outcome == storedOutcome(q.seen) IN
    /\ q.pc = "evaluate"
    /\ IF q.seen.resolution = 0 \/ (outcome # "none" /\ mirror.challenged)
       THEN Finish(r) /\ booked' = booked \ closedInVain(q)
       ELSE /\ Goto(r, [q EXCEPT !.pc = "finalize", !.reopen = @ /\ outcome = "none",
                                 !.outcome = IF outcome = "none" THEN "INVALID" ELSE outcome])
            /\ UNCHANGED booked
    /\ UNCHANGED <<chain, txs, record, mirror, calls>>

finalizeV2Vault(r) ==
    LET q == request[r] IN
    /\ q.pc = "finalize" /\ canWrite("finalizeV2Vault", q.seen.ext)
    /\ send("finalizeV2Vault", q.seen.ext, walletFor("finalizeV2Vault"))
    /\ Goto(r, [q EXCEPT !.pc = "vault", !.tx = Len(txs) + 1])
    /\ booked' = booked \cup {Len(txs) + 1}
    /\ UNCHANGED <<chain, record, mirror, calls>>

finalized(r) ==
    LET q == request[r]  reopened == q.reopen /\ q.snap.status = "ResolutionAuction" IN
    /\ q.pc = "finalized"
    /\ saveVault([q.seen EXCEPT
          !.status = q.snap.status, !.resolution = q.snap.resolution,
          !.resRound = IF q.reopen THEN q.snap.resRound ELSE @,
          !.final = IF reopened THEN @ ELSE q.outcome,
          !.traces = traced(q.seen, q.tx)])
    /\ Finish(r)
    /\ UNCHANGED <<chain, txs, mirror, booked, calls>>

-----------------------------------------------------------------------------
(* Snapshots, and the two operations that save them. *)
verifyVaultAction(q) ==
    /\ txs[q.tx].state = "success"
    /\ q.op = "registerOnchain" \/ txs[q.tx].vault = q.seen.ext

verified(r) ==
    LET q == request[r] IN
    /\ q.pc = "verify" /\ verifyVaultAction(q)
    /\ Goto(r, [q EXCEPT !.pc = IF q.op = "registerOnchain" THEN q.op ELSE "vault"])
    /\ booked' = IF q.op = "registerOnchain" THEN booked \cup {q.tx} ELSE booked
    /\ UNCHANGED <<chain, txs, record, mirror, calls>>

notVerified(r) ==
    /\ request[r].pc = "verify" /\ ~verifyVaultAction(request[r])
    /\ Finish(r)
    /\ UNCHANGED <<chain, txs, record, mirror, booked, calls>>

StatusAfter(fn) ==
    CASE fn = "acceptRuleSetAndFund" -> {"Active"}
      [] fn = "rejectRuleSet" -> {"RuleAuction", "Cancelled"}
      [] fn = "finalizeV2Vault" -> Resolved
(* The mock verifies nothing. *)
actionVerified(q, snap) == Mock \/ snap.status \in StatusAfter(txs[q.tx].fn)

readVault(r) ==
    LET q == request[r]
        snap == IF q.op = "registerTx" THEN verifyVaultSnapshot(q.seen.ext)
                ELSE readVaultSnapshot(r, q.seen.ext) IN
    /\ q.pc = "vault"
    /\ Goto(r, [q EXCEPT !.pc = "committees", !.snap = snap])
    /\ UNCHANGED <<chain, txs, record, mirror, booked, calls>>

readCommittees(r) ==
    LET q == request[r]  snap == CommitteesRead(q.snap, q.seen.ext) IN
    /\ q.pc = "committees"
    /\ IF q.op = "registerTx" /\ ~actionVerified(q, snap) THEN Finish(r) /\ UNCHANGED booked
       ELSE /\ Goto(r, [q EXCEPT !.snap = snap,
                          !.pc = IF q.op = "finalizeResolution" THEN "finalized" ELSE q.op])
            /\ booked' = IF q.op = "registerTx" THEN booked \cup {q.tx} ELSE booked
    /\ UNCHANGED <<chain, txs, record, mirror, calls>>

withSnapshot(seen, snap) ==
    [seen EXCEPT !.status = snap.status, !.ruleRound = snap.ruleRound,
                 !.resRound = snap.resRound, !.rejections = snap.rejections]

saveVerified(r) ==
    LET q == request[r] IN
    /\ q.pc = "registerTx"
    /\ saveVault([withSnapshot(q.seen, q.snap) EXCEPT !.traces = traced(q.seen, q.tx)])
    /\ Finish(r)
    /\ UNCHANGED <<chain, txs, mirror, booked, calls>>

(* Registering saves a new record, whatever was there. *)
saveRegistered(r) ==
    LET q == request[r] IN
    /\ q.pc = "registerOnchain"
    /\ saveVault([withId(NoRecord, q.tx) EXCEPT !.status = "RuleAuction"])
    /\ Finish(r)
    /\ UNCHANGED <<chain, txs, mirror, booked, calls>>

synced(q) == [withSnapshot(q.seen, q.snap) EXCEPT !.rule = q.snap.rule, !.resolution = q.snap.resolution]

saveSnapshot(r) ==
    /\ request[r].pc = "sync"
    /\ saveVault(synced(request[r]))
    /\ Finish(r)
    /\ UNCHANGED <<chain, txs, mirror, booked, calls>>

-----------------------------------------------------------------------------
Step(r) ==
    \/ registered(r) \/ requestVault(r) \/ ensureOnchainRegistration(r) \/ insertDraft(r)
    \/ write(r) \/ refused(r) \/ saveWritten(r)
    \/ updateChallengeStatus(r) \/ resolveChallenge(r) \/ noChallengeNamed(r)
    \/ evaluateFinalityReadiness(r) \/ finalizeV2Vault(r) \/ finalized(r)
    \/ verified(r) \/ notVerified(r) \/ readVault(r) \/ readCommittees(r)
    \/ saveVerified(r) \/ saveRegistered(r) \/ saveSnapshot(r)

Call(r) ==
    \/ createDraft(r) \/ createVaultRequest(r) \/ registerOnchain(r)
    \/ registerRuleCommittee(r)
    \/ registerResolutionCommittee(r) \/ bootstrapCommittee(r) \/ finalizeRuleSet(r)
    \/ decideRuleSet(r) \/ finalizeResolution(r) \/ syncOnchainSnapshot(r) \/ registerTx(r)

SetterFns == {"acceptRuleSetAndFund", "rejectRuleSet"}

Next ==
    \/ \E k \in DOMAIN txs : mine(k)
    \/ \E v \in Vaults : agentsWork(v) \/ agentsPost(v) \/ \E fn \in SetterFns : setterSends(fn, v)
    \/ setterSends("createVaultRequest", 0)
    \/ \E r \in Requests : Call(r)
    \/ \E r \in Timers : syncOnchainSnapshot(r)
    \/ \E r \in Actors : Step(r) \/ fails(r)

Spec == Init /\ [][Next]_vars

(* The network mines what was broadcast, requests run on, and the interval *)
(* timer keeps reconciling.                                                *)
FairSpec ==
    /\ Spec
    /\ WF_vars(\E k \in DOMAIN txs : mine(k))
    /\ \A r \in Actors : WF_vars(Step(r))
    /\ \A r \in Timers : WF_vars(syncOnchainSnapshot(r))

-----------------------------------------------------------------------------
TypeOK ==
    /\ \A v \in Vaults : chain[v].rule \in 0 .. MaxTxs /\ chain[v].resolution \in 0 .. MaxTxs
    /\ record.ext \in Vaults \cup {0} /\ record.traces \subseteq DOMAIN txs
    /\ record.final \in {"none", "TRUE", "FALSE", "INVALID"}
    /\ booked \subseteq DOMAIN txs /\ Len(txs) <= MaxTxs /\ calls <= MaxCalls

(* The traces of a record never show a setter's decision that the factory  *)
(* refused or that is about another vault (registerTx).                    *)
VerifiedTraces ==
    \A k \in record.traces :
        txs[k].by = "setter" => txs[k].state = "success" /\ txs[k].vault = record.ext

(* A record is registered with the factory, and its deposit paid, once,    *)
(* whatever fails after the registration is saved                          *)
(* (ensureOnchainRegistration).                                            *)
RegisteredOnce ==
    \A j, k \in {n \in DOMAIN txs : txs[n].by = "operator" /\ txs[n].fn = "createVaultRequest"} : j = k

(* A transaction the API has the answer of (write, resolveChallenge,       *)
(* finalizeV2Vault, registerTx) is in the record's traces or in the hands  *)
(* of a running request, unless that request failed, or had closed         *)
(* challenges for a finalization that was then not ready or was refused.   *)
TracesKept ==
    \A k \in booked \ record.traces :
        \E r \in Actors : k = request[r].tx \/ k \in request[r].seen.traces

(* Once the calls end, reconciliation brings the record's status, rounds   *)
(* and rejections to those of the chain and keeps them there.              *)
SameStatus ==
    record.ext # 0 =>
        \A f \in {"status", "ruleRound", "resRound", "rejections"} : record[f] = chain[record.ext][f]
Reconciled == <>[]SameStatus

=============================================================================
