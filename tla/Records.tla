------------------------------- MODULE Records -------------------------------
(***************************************************************************)
(* What the API stores of vaults, submissions and their evidence, in the   *)
(* deployments it is looked at in, its areas: with the requests, the       *)
(* stores and the failures that each area's settings allow.  The           *)
(* components share no state here, so an execution picks one area at the   *)
(* start and only that area's component moves, the others stay as they     *)
(* are.                                                                    *)
(***************************************************************************)
EXTENDS Naturals, Sequences, FiniteSets

CONSTANTS
    Areas,
    VaultRace, VaultAlone, VaultMock,           \* an area's settings, a record:
    SubsRace, SubsReal, SubsReveal,             \* which requests there are, what
    EvRace, EvSearch, EvDirect, EvMock          \* they do, what fails, and the bounds

VARIABLES
    area,
    vaultChain, vaultTxs, record, mirror, opRequest, answered, opCalls,
    factory, accepted, vaultRow, subs, proofs, subRequest, subCalls,
    time, drafts, evRequest, prepared, evProofs, quoted, evCalls

workflowVars == <<vaultChain, vaultTxs, record, mirror, opRequest, answered, opCalls>>
submissionVars == <<factory, accepted, vaultRow, subs, proofs, subRequest, subCalls>>
evidenceVars == <<time, drafts, evRequest, prepared, evProofs, quoted, evCalls>>

-----------------------------------------------------------------------------
\* Vaults, submissions and evidence under the settings s.
Vault(s) ==
    INSTANCE VaultWorkflow WITH
        Requests <- s.requests, Timers <- s.timers, Ops <- s.ops, Vaults <- s.vaults,
        Postgres <- s.postgres, Mock <- s.mock, Finalizer <- s.finalizer, Faults <- s.faults,
        MaxTxs <- s.txs, MaxCalls <- s.calls,
        chain <- vaultChain, txs <- vaultTxs, request <- opRequest, booked <- answered,
        calls <- opCalls
Subs(s) ==
    INSTANCE Submissions WITH
        Agents <- s.agents, Makers <- s.makers, Verifiers <- s.verifiers,
        Validators <- s.validators, Auditors <- s.auditors, Kinds <- s.kinds,
        Requests <- s.requests, Outcomes <- s.outcomes, Start <- s.start, Ids <- s.ids,
        Postgres <- TRUE, Production <- s.production, Faults <- s.overlap, Overlap <- s.overlap,
        MaxTxs <- s.txs, MaxRounds <- s.rounds, MaxCalls <- s.calls,
        chain <- factory, txs <- accepted, vault <- vaultRow, request <- subRequest, calls <- subCalls
Ev(s) ==
    INSTANCE Evidence WITH
        Requests <- s.requests, Kinds <- s.kinds, Tokens <- s.tokens, Collateral <- s.collateral,
        Named <- s.named, Provider <- s.provider, Real <- s.real, Ways <- s.ways, Sources <- s.sources,
        Faults <- s.faults, MaxTime <- s.time, MaxCalls <- s.calls,
        request <- evRequest, proofs <- evProofs, calls <- evCalls

\* The settings are of the kind that each component expects.  Where a vault's writes are compared
\* with its traces one request runs after another, without a restart between a transaction and its
\* receipt; where a reveal is compared with its commit the wallets and payloads are production's
\* and submissions do not overlap.
ASSUME RecordsAssumption ==
    /\ \A s \in {VaultRace, VaultAlone, VaultMock} : Vault(s)!VaultWorkflowAssumption
    /\ \A s \in {VaultAlone, VaultMock} :
           /\ \A r, o \in Vault(s)!Actors : r = o
           /\ "receipt" \notin s.faults /\ "registerOnchain" \notin s.ops
    /\ \A s \in {SubsRace, SubsReal, SubsReveal} : Subs(s)!SubmissionsAssumption
    /\ SubsReveal.production /\ ~SubsReveal.overlap /\ SubsReveal.ids = {"external"}
    /\ \A s \in {EvRace, EvSearch, EvDirect, EvMock} : Ev(s)!EvidenceAssumption

-----------------------------------------------------------------------------
recordVars == <<area, workflowVars, submissionVars, evidenceVars>>

RecordsInit ==
    /\ area \in Areas
    /\ CASE area = "workflow" -> Vault(VaultRace)!Init
         [] area = "workflow_mock" -> Vault(VaultMock)!Init
         [] OTHER -> Vault(VaultAlone)!Init
    /\ CASE area = "submissions" -> Subs(SubsRace)!Init
         [] area = "submissions_real" -> Subs(SubsReal)!Init
         [] OTHER -> Subs(SubsReveal)!Init
    /\ CASE area = "evidence" -> Ev(EvRace)!Init
         [] area = "evidence_direct" -> Ev(EvDirect)!Init
         [] area = "evidence_mock" -> Ev(EvMock)!Init
         [] OTHER -> Ev(EvSearch)!Init

WorkflowNext ==
    /\ \/ area = "workflow" /\ Vault(VaultRace)!Next
       \/ area = "workflow_alone" /\ Vault(VaultAlone)!Next
       \/ area = "workflow_mock" /\ Vault(VaultMock)!Next
    /\ UNCHANGED <<area, submissionVars, evidenceVars>>
SubmissionsNext ==
    /\ \/ area = "submissions" /\ Subs(SubsRace)!Next
       \/ area = "submissions_real" /\ Subs(SubsReal)!Next
       \/ area = "submissions_reveal" /\ Subs(SubsReveal)!Next
    /\ UNCHANGED <<area, workflowVars, evidenceVars>>
EvidenceNext ==
    /\ \/ area = "evidence" /\ Ev(EvRace)!Next
       \/ area = "evidence_search" /\ Ev(EvSearch)!Next
       \/ area = "evidence_direct" /\ Ev(EvDirect)!Next
       \/ area = "evidence_mock" /\ Ev(EvMock)!Next
    /\ UNCHANGED <<area, workflowVars, submissionVars>>
RecordsNext == WorkflowNext \/ SubmissionsNext \/ EvidenceNext
RecordsSpec == RecordsInit /\ [][RecordsNext]_recordVars

-----------------------------------------------------------------------------
\* A record is registered and its deposit paid once, an answered transaction is in its traces or
\* with a request that is still to save it, unless that failed or closed a challenge in vain, and
\* the traces show no decision the factory refused (VaultWorkflow).
RecordsAreTraced ==
    /\ area = "workflow" => Vault(VaultRace)!TypeOK /\ Vault(VaultRace)!VerifiedTraces
    /\ area = "workflow_alone" =>
           Vault(VaultAlone)!RegisteredOnce /\ Vault(VaultAlone)!TracesKept
    /\ area = "workflow_mock" => Vault(VaultMock)!TracesKept

\* Overlapping and failing submissions leave no duplicate and no orphan, what is stored is
\* what the chain has, and an accepted reveal matches its commit (Submissions).
SubmissionsAreSound ==
    /\ area = "submissions" => Subs(SubsRace)!SubmissionsAreSound
    /\ area = "submissions_real" => Subs(SubsReal)!SubmissionsAreSound
    /\ area = "submissions_reveal" =>
           Subs(SubsReveal)!SubmissionsAreSound /\ Subs(SubsReveal)!RevealsMatch

\* Under the real policy a stored reveal, and the hash it is committed by if this is of any
\* evidence, rests on a price that OKX quoted to the API; and a proof is hashed over what is
\* stored with it unless a reveal brought a hash (Evidence).
RevealsAreGrounded ==
    /\ area = "evidence" =>
           Ev(EvRace)!TypeOK /\ Ev(EvRace)!RevealGrounded /\ Ev(EvRace)!ProofAligned
    /\ area = "evidence_search" => Ev(EvSearch)!TrustedIsQuoted /\ Ev(EvSearch)!RevealGrounded
    /\ area = "evidence_direct" => Ev(EvDirect)!ProofAligned
    /\ area = "evidence_mock" => Ev(EvMock)!RevealGrounded /\ Ev(EvMock)!ProofAligned
=============================================================================
