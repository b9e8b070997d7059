----------------------------- MODULE Submissions -----------------------------
(***************************************************************************)
(* Agents' work on a vault: uploading a payload, sending the transaction   *)
(* that carries its hash, and submitting it to the API, which checks the   *)
(* submission twice, verifies the transaction, and stores submission,      *)
(* proof and vault in one database transaction.                            *)
(*                                                                         *)
(* A payload is the record its hash is taken of; drafts and issues do not  *)
(* name their author, so two agents' payloads may be one.  The factory,    *)
(* the operator's writes and reconciliation are VaultWorkflow's and appear *)
(* here as the moves that change what submissions meet.                    *)
(***************************************************************************)
EXTENDS Integers, Sequences, FiniteSets

CONSTANTS
    Agents, Makers, Verifiers, Validators, Auditors,
    Kinds,          \* kinds of submission that are made
    Requests,       \* concurrent requests
    Outcomes,       \* results validators may find
    Start,          \* "RuleAuction" or "Active"
    Ids,            \* ids an agent may name the vault by
    Postgres,       \* rows are locked, and a failed transaction leaves nothing
    Production,     \* real wallets and stored payloads, or mock ones
    Faults,         \* requests fail or are cut off
    Overlap,        \* others save the record while a submission is under way
    MaxTxs, MaxRounds, MaxCalls   \* bounds

RuleKinds == {"rule_draft", "rule_issue"}
ResolutionKinds == {"resolution_commit", "resolution_reveal", "audit_verdict"}

SubmissionsAssumption ==
    /\ Makers \cup Verifiers \cup Validators \cup Auditors \subseteq Agents
    /\ "external" \in Ids /\ Ids \subseteq {"local", "external"}
    /\ Kinds \subseteq RuleKinds \cup ResolutionKinds \cup {"public_challenge"}
    /\ Start \in {"RuleAuction", "Active"}
    /\ {Postgres, Production, Faults, Overlap} \subseteq BOOLEAN
    /\ MaxTxs \in Nat /\ MaxRounds \in Nat \ {0} /\ MaxCalls \in Nat

VARIABLES
    chain,     \* the factory's view of the vault
    txs,       \* transactions the factory accepted
    vault,     \* the API's record of it
    subs,      \* stored submissions, in order
    proofs,    \* proof records, one for each payload
    request,
    calls

vars == <<chain, txs, vault, subs, proofs, request, calls>>

NoInput == [kind |-> "none"]
NoVault == [status |-> "None", ruleRound |-> 0, resRound |-> 0, rule |-> FALSE, resolution |-> FALSE]
Idle == [pc |-> "idle", input |-> NoInput, seen |-> NoVault, tx |-> 0]

Init ==
    /\ chain = [status |-> Start, ruleRound |-> IF Start = "Active" THEN 1 ELSE 0, resRound |-> 0,
                rule |-> Start = "Active", resolution |-> FALSE]
    /\ vault = chain
    /\ txs = <<>> /\ subs = <<>> /\ proofs = {}
    /\ request = [r \in Requests |-> Idle] /\ calls = 0

phaseForKind(k) ==
    IF k \in RuleKinds THEN "rule" ELSE IF k \in ResolutionKinds THEN "resolution" ELSE "none"
committeeExistsForPhase(v, phase) == IF phase = "rule" THEN v.rule ELSE v.resolution
currentRoundForKind(v, k) == IF phaseForKind(k) = "rule" THEN v.ruleRound ELSE v.resRound

-----------------------------------------------------------------------------
(* What an agent submits.  Validators' payloads carry their outcome.       *)
payload(k, a, target, what, id, round) ==
    [kind |-> k, round |-> round, id |-> id, what |-> what, target |-> target,
     who |-> IF k \in RuleKinds THEN "any" ELSE a]

Whats(k) == IF k \in {"resolution_commit", "resolution_reveal"} THEN Outcomes ELSE {"findings"}
Targets(k) ==
    CASE k = "audit_verdict" -> Validators
      [] k = "public_challenge" -> Validators \cup Auditors
      [] OTHER -> {"none"}

(* What a transaction shows of its payload: a commit's hash leaves out its  *)
(* round, a reveal carries its outcome. *)
carried(p) ==
    CASE p.kind = "resolution_commit" -> [kind |-> p.kind, id |-> p.id, who |-> p.who, what |-> p.what]
      [] p.kind = "resolution_reveal" -> [kind |-> p.kind, who |-> p.who, what |-> p.what]
      [] OTHER -> p

computeResolutionCommitHash(p, id) == [kind |-> "resolution_commit", id |-> id, who |-> p.who, what |-> p.what]

Members(v, k) ==
    CASE k = "rule_draft" -> IF v.rule THEN Makers ELSE {}
      [] k = "rule_issue" -> IF v.rule THEN Verifiers ELSE {}
      [] k \in {"resolution_commit", "resolution_reveal"} -> IF v.resolution THEN Validators ELSE {}
      [] k = "audit_verdict" -> IF v.resolution THEN Auditors ELSE {}
      [] k = "public_challenge" -> IF v.resolution THEN Agents \ (Validators \cup Auditors) ELSE {}

(* The factory takes each kind from its members, once a round and target,  *)
(* and a reveal only with the commit that was made for it.                 *)
accepts(k, a, p) ==
    /\ chain.status = IF k \in RuleKinds THEN "RuleDrafting" ELSE "CommitPhase"
    /\ a \in Members(chain, k)
    /\ ~\E i \in DOMAIN txs :
            txs[i].payload.kind = k /\ txs[i].agent = a /\ txs[i].payload.target = p.target
            /\ txs[i].at = currentRoundForKind(chain, k)
    /\ k = "resolution_reveal" =>
          \E i \in DOMAIN txs :
            /\ txs[i].agent = a /\ txs[i].at = chain.resRound
            /\ carried(txs[i].payload) = computeResolutionCommitHash(p, "external")

(* An agent prepares its payload with the API's round and broadcasts.      *)
broadcast(a, k) ==
    /\ Production /\ Len(txs) < MaxTxs
    /\ \E t \in Targets(k), w \in Whats(k), id \in Ids :
        LET p == payload(k, a, t, w, id, currentRoundForKind(vault, k)) IN
        /\ accepts(k, a, p)
        /\ txs' = Append(txs, [agent |-> a, payload |-> p, at |-> currentRoundForKind(chain, k)])
    /\ UNCHANGED <<chain, vault, subs, proofs, request, calls>>

chainMoves ==
    /\ \/ chain.status = "RuleDrafting" /\ chain' = [chain EXCEPT !.status = "Active"]
       \/ /\ chain.status = "CommitPhase"
          /\ \E s \in {"ResolutionAuction", "ResolvedTrue"} :
                chain' = [chain EXCEPT !.status = s, !.resolution = FALSE]
    /\ UNCHANGED <<txs, vault, subs, proofs, request, calls>>

quiet == Overlap \/ \A r \in Requests : request[r].pc \in {"idle", "normalize"}

(* The timer reads the chain and saves what it read. *)
syncOnchainSnapshot_Status ==
    /\ vault.status # chain.status /\ vault' = [vault EXCEPT !.status = chain.status] /\ quiet
    /\ UNCHANGED <<chain, txs, subs, proofs, request, calls>>
syncOnchainSnapshot ==
    /\ vault # chain /\ vault' = chain /\ quiet
    /\ UNCHANGED <<chain, txs, subs, proofs, request, calls>>

-----------------------------------------------------------------------------
(* Uploading stores the payload under its hash, over what is there.        *)
put_Added(kept, p, key, k) == kept \cup {[payload |-> p, key |-> key, tx |-> k]}
put(kept, p, key, k) == {q \in kept : q.payload # p} \cup {[payload |-> p, key |-> key, tx |-> k]}

LocalId == IF "local" \in Ids THEN "local" ELSE "external"

storePayload(a) ==
    /\ calls < MaxCalls /\ calls' = calls + 1
    /\ \E i \in DOMAIN txs, key \in Ids \cup {"__payloads__"} :
        txs[i].agent = a /\ proofs' = put(proofs, txs[i].payload, key, 0)
    /\ UNCHANGED <<chain, txs, vault, subs, request>>

-----------------------------------------------------------------------------
Goto(r, locals) == request' = [request EXCEPT ![r] = locals]
Finish(r) == Goto(r, Idle)

(* A submission may quote another transaction than its own. *)
Inputs ==
    IF Production
    THEN {[kind |-> txs[i].payload.kind, agent |-> txs[i].agent, payload |-> txs[i].payload, tx |-> j] :
              i \in {i \in DOMAIN txs : txs[i].payload.kind \in Kinds}, j \in DOMAIN txs}
    ELSE UNION {{[kind |-> k, agent |-> a, payload |-> payload(k, a, t, w, "external", round), tx |-> 0] :
                    t \in Targets(k), w \in Whats(k), round \in 0 .. MaxRounds} : k \in Kinds, a \in Agents}

submit(r) ==
    /\ request[r].pc = "idle" /\ calls < MaxCalls /\ calls' = calls + 1
    /\ \E input \in Inputs : Goto(r, [Idle EXCEPT !.pc = "normalize", !.input = input])
    /\ UNCHANGED <<chain, txs, vault, subs, proofs>>

(* A missing committee is bootstrapped on the agent's behalf. *)
bootstrapCommittee(phase) ==
    /\ quiet /\ ~committeeExistsForPhase(vault, phase) /\ chain.status = vault.status
    /\ vault.status \in IF phase = "rule" THEN {"RuleAuction"} ELSE {"Active", "ResolutionAuction"}
    /\ IF phase = "rule" THEN chain.ruleRound < MaxRounds ELSE chain.resRound < MaxRounds
    /\ chain' = IF phase = "rule"
                THEN [chain EXCEPT !.status = "RuleDrafting", !.ruleRound = @ + 1, !.rule = TRUE]
                ELSE [chain EXCEPT !.status = "CommitPhase", !.resRound = @ + 1, !.resolution = TRUE]
    /\ vault' = chain'
    /\ UNCHANGED <<txs, subs, proofs, request, calls>>

needsCommittee(k) ==
    LET phase == phaseForKind(k) IN phase # "none" /\ ~committeeExistsForPhase(vault, phase)

maybeBootstrapCommittee(r) ==
    LET k == request[r].input.kind IN
    /\ request[r].pc = "normalize" /\ needsCommittee(k)
    /\ bootstrapCommittee(phaseForKind(k))

notBootstrapped(r) ==
    /\ request[r].pc = "normalize" /\ needsCommittee(request[r].input.kind)
    /\ Finish(r)
    /\ UNCHANGED <<chain, txs, vault, subs, proofs, calls>>

(* Round 0 stands for the current round; any other must be it. *)
normalizeNumericField(value, current) == IF current = 0 THEN {value} ELSE {0, current} \cap {value}

normalized(input, v) ==
    LET current == currentRoundForKind(v, input.kind) IN
    IF phaseForKind(input.kind) = "none" THEN input
    ELSE [input EXCEPT !.payload.round = IF current = 0 THEN @ ELSE current]

(* The key by which the store keeps submissions apart; challenges have none. *)
submissionUniquenessKey_OwnPayload(s) == s
submissionUniquenessKey(s) == <<s.kind, s.payload.round, s.agent, s.payload.target>>

ensureSubmissionEligibility(input, v) ==
    /\ input.agent \in Members(v, input.kind)
    /\ input.kind # "public_challenge" =>
          ~\E i \in DOMAIN subs : submissionUniquenessKey(subs[i]) = submissionUniquenessKey(input)

preview(r) ==
    LET q == request[r]  current == currentRoundForKind(vault, q.input.kind)
        input == normalized(q.input, vault) IN
    /\ q.pc = "normalize" /\ ~needsCommittee(q.input.kind)
    /\ IF /\ phaseForKind(q.input.kind) = "none"
             \/ normalizeNumericField(q.input.payload.round, current) # {}
          /\ ensureSubmissionEligibility(input, vault)
       THEN Goto(r, [q EXCEPT !.pc = "prepare", !.input = input]) ELSE Finish(r)
    /\ UNCHANGED <<chain, txs, vault, subs, proofs, calls>>

(* In production the payload must have been uploaded, for this vault or    *)
(* for none.                                                               *)
validateStoredPayloadReference(input) ==
    Production => \E p \in proofs : p.payload = input.payload /\ p.key \in {input.payload.id, "__payloads__"}

prepareSubmissionArtifacts(r) ==
    LET q == request[r] IN
    /\ q.pc = "prepare"
    /\ IF validateStoredPayloadReference(q.input) THEN Goto(r, [q EXCEPT !.pc = "begin"]) ELSE Finish(r)
    /\ UNCHANGED <<chain, txs, vault, subs, proofs, calls>>

resolveVault(r) ==
    /\ request[r].pc = "begin"
    /\ Goto(r, [request[r] EXCEPT !.pc = "lock", !.seen = vault])
    /\ UNCHANGED <<chain, txs, vault, subs, proofs, calls>>

(* Saving the agent's row locks it until the transaction ends (what it     *)
(* does to the profile is AgentWallet's). *)
locked(r) ==
    /\ Postgres
    /\ \E o \in Requests \ {r} : /\ request[o].pc \in {"verify", "store"}
                                 /\ request[o].input.agent = request[r].input.agent

saveAgent(r) ==
    LET q == request[r] IN
    /\ q.pc = "lock" /\ ~locked(r)
    /\ IF ensureSubmissionEligibility(q.input, q.seen) THEN Goto(r, [q EXCEPT !.pc = "verify"]) ELSE Finish(r)
    /\ UNCHANGED <<chain, txs, vault, subs, proofs, calls>>

(* The mock wallet executes what the agent asks; a real one shows that the *)
(* transaction carries the payload's hash.                                 *)
verifyExecution(input) == txs[input.tx].agent = input.agent /\ carried(txs[input.tx].payload) = carried(input.payload)

executed(r) ==
    LET q == request[r] IN
    /\ q.pc = "verify"
    /\ IF q.input.tx # 0
       THEN /\ IF verifyExecution(q.input) THEN Goto(r, [q EXCEPT !.pc = "store", !.tx = q.input.tx]) ELSE Finish(r)
            /\ UNCHANGED txs
       ELSE /\ Len(txs) < MaxTxs
            /\ txs' = Append(txs, [agent |-> q.input.agent, payload |-> q.input.payload,
                                   at |-> currentRoundForKind(chain, q.input.kind)])
            /\ Goto(r, [q EXCEPT !.pc = "store", !.tx = Len(txs) + 1])
    /\ UNCHANGED <<chain, vault, subs, proofs, calls>>

(* A reveal is compared with the first of the agent's commits of its round. *)
commitsOf(input) ==
    {i \in DOMAIN subs : /\ subs[i].kind = "resolution_commit" /\ subs[i].agent = input.agent
                         /\ subs[i].payload.round = input.payload.round}

attachValidation(input) ==
    LET commits == commitsOf(input)
        commit == subs[CHOOSE i \in commits : \A j \in commits : i <= j] IN
    IF input.kind # "resolution_reveal" \/ commits = {} THEN "none"
    ELSE IF carried(commit.payload) = computeResolutionCommitHash(input.payload, input.payload.id)
         THEN "match"
    ELSE "mismatch"

progressVaultState(seen, k) ==
    [seen EXCEPT !.status =
        CASE k \in RuleKinds -> "RuleDrafting"
          [] k = "resolution_commit" -> "CommitPhase"
          [] k = "resolution_reveal" -> "RevealPhase"
          [] k = "audit_verdict" -> "AuditPhase"
          [] k = "public_challenge" -> "PublicChallenge"]

store(r) ==
    LET q == request[r]
        s == [kind |-> q.input.kind, agent |-> q.input.agent, payload |-> q.input.payload,
              tx |-> q.tx, validation |-> attachValidation(q.input)] IN
    /\ q.pc = "store"
    /\ proofs' = put(proofs, s.payload, LocalId, s.tx)
    /\ subs' = Append(subs, s)
    /\ vault' = progressVaultState(q.seen, s.kind)
    /\ Finish(r)
    /\ UNCHANGED <<chain, txs, calls>>

fails(r) ==
    /\ Faults /\ request[r].pc # "idle" /\ calls < MaxCalls
    /\ Finish(r)
    /\ UNCHANGED <<chain, txs, vault, subs, proofs, calls>>

-----------------------------------------------------------------------------
Step(r) ==
    \/ maybeBootstrapCommittee(r) \/ notBootstrapped(r) \/ preview(r) \/ prepareSubmissionArtifacts(r)
    \/ resolveVault(r) \/ saveAgent(r) \/ executed(r) \/ store(r)

Next ==
    \/ \E a \in Agents : storePayload(a) \/ \E k \in Kinds : broadcast(a, k)
    \/ \E phase \in {"rule", "resolution"} : bootstrapCommittee(phase)
    \/ chainMoves \/ syncOnchainSnapshot
    \/ \E r \in Requests : submit(r) \/ Step(r) \/ fails(r)

Spec == Init /\ [][Next]_vars
FairSpec == Spec /\ WF_vars(syncOnchainSnapshot) /\ \A r \in Requests : WF_vars(Step(r))

-----------------------------------------------------------------------------
TypeOK ==
    /\ \A v \in {vault, chain} : v.ruleRound \in 0 .. MaxRounds /\ v.resRound \in 0 .. MaxRounds
    /\ Len(txs) <= MaxTxs /\ calls <= MaxCalls
    /\ \A i \in DOMAIN subs : subs[i].tx \in DOMAIN txs /\ subs[i].validation \in {"none", "match", "mismatch"}
    /\ \A p, q \in proofs : p.payload = q.payload => p = q

(* However requests interleave, a round keeps one draft, issue, commit and *)
(* reveal of an agent, and one verdict of it on each validator.            *)
NoDuplicates ==
    \A i, j \in DOMAIN subs :
        /\ i < j /\ subs[i].kind = subs[j].kind /\ subs[i].kind # "public_challenge"
        /\ subs[i].agent = subs[j].agent /\ subs[i].payload.round = subs[j].payload.round
        => subs[i].payload.target # subs[j].payload.target

(* Every stored submission agrees with what its agent's transaction shows. *)
StoredIsOnChain ==
    \A i \in DOMAIN subs :
        LET t == txs[subs[i].tx] IN t.agent = subs[i].agent /\ carried(t.payload) = carried(subs[i].payload)

(* A failed submission leaves no proof behind: a proof with a transaction  *)
(* is that of a stored submission.                                         *)
NoOrphanProofs ==
    \A p \in proofs : p.tx # 0 => \E i \in DOMAIN subs : subs[i].payload = p.payload /\ subs[i].tx = p.tx

(* What is stored of submissions is sound, whatever the agents upload,     *)
(* broadcast and submit, and however requests overlap and fail.            *)
(* [submission-service.ts; postgres-workflow-store.ts] *)
SubmissionsAreSound == TypeOK /\ NoDuplicates /\ StoredIsOnChain /\ NoOrphanProofs

(* A reveal the chain accepted matches the commit stored for its round,    *)
(* unless a late submission put the round back (attachValidation).         *)
RevealsMatch == \A i \in DOMAIN subs : subs[i].validation # "mismatch"

(* Late submissions move the status back and undo rounds; in the end the   *)
(* record is the chain's.                                                  *)
StatusSettles == <>[](vault = chain)

=============================================================================
