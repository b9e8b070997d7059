----------------------------- MODULE ServerProofs -----------------------------
(***************************************************************************)
(* What holds of the API server: of every environment an operator may      *)
(* write, from which the schema lets nothing through that a service could  *)
(* not be built from (Startup); and of seeds, registrations, stakes and    *)
(* uploads in every part of the server, whatever the parts' settings       *)
(* (Server), from what ServiceProofs proves of each component.             *)
(***************************************************************************)
EXTENDS Server, Records, FiniteSetTheorems, SequenceTheorems, TLAPS

(* How the server comes up. *)

Booted == {"loaded", "built", "populated", "serving"}

(* The process runs on an environment the schema accepted. *)
ReadIsAccepted == pc \in Booted => loadEnv(running)

LEMMA AcceptedAtFirst == Init => ReadIsAccepted
  BY DEF Init, ReadIsAccepted, Booted

LEMMA AcceptedIsKept == ReadIsAccepted /\ [Next]_vars => ReadIsAccepted'
<1> SUFFICES ASSUME ReadIsAccepted, [Next]_vars PROVE ReadIsAccepted'
  OBVIOUS
<1> USE DEF ReadIsAccepted, Booted, loadEnv, chainGiven, okxGiven,
            seedingGiven, capsGiven, productionGiven, usesOkx, tokens, cap
<1>1. CASE start
  BY <1>1 DEF start
<1>2. CASE build
  BY <1>2 DEF build, goes, fails
<1>3. CASE ensureBaseAgents
  BY <1>3 DEF ensureBaseAgents, goes, fails
<1>4. CASE listen
  BY <1>4 DEF listen, goes, fails
<1>5. CASE checkHealth \/ getHealth
  BY <1>5 DEF checkHealth, getHealth
<1>6. CASE crash
  BY <1>6 DEF crash
<1>7. CASE edit \/ applySqlMigrations \/ outage \/ UNCHANGED vars
  BY <1>7 DEF edit, applySqlMigrations, outage, vars, process
<1> QED BY <1>1, <1>2, <1>3, <1>4, <1>5, <1>6, <1>7 DEF Next, boot

LEMMA AlwaysAccepted == Spec => []ReadIsAccepted
  BY AcceptedAtFirst, AcceptedIsKept, PTL DEF Spec

(* Whatever the environment, once the schema accepts it no constructor     *)
(* finds a setting missing.                                                *)
(* [env.ts, superRefine; runtime.ts; AgentStakeSeedService] *)
THEOREM EnvAlwaysSuffices == Spec => []EnvSuffices
<1>1. ReadIsAccepted => EnvSuffices
  BY DEF ReadIsAccepted, Booted, EnvSuffices, loadEnv, chainGiven, okxGiven,
         OkxKeys, seedingGiven,
         createRuntimeAdapters, seedServiceBuilt, usesOkx
<1> QED BY <1>1, AlwaysAccepted, PTL

(* A production server never runs on mocks, in memory or with demo data.   *)
(* [env.ts, production; app.ts] *)
THEOREM ProductionAlwaysReal == Spec => []ProductionIsReal
<1>1. ReadIsAccepted => ProductionIsReal
  BY DEF ReadIsAccepted, Booted, ProductionIsReal, loadEnv, productionGiven,
         store, requireLiveAgentSession,
         advertisedTokens
<1> QED BY <1>1, AlwaysAccepted, PTL

(* In production the launch check depends on the database alone.           *)
(* [env.ts, production; runtime-readiness.ts] *)
THEOREM ProductionAlwaysReady == Spec => []ProductionIsReady
<1>1. ReadIsAccepted => ProductionIsReady
  BY DEF ReadIsAccepted, Booted, ProductionIsReady, loadEnv, chainGiven,
         okxGiven, OkxKeys, usesOkx,
         productionGiven, realDemoReady
<1> QED BY <1>1, AlwaysAccepted, PTL

(* Every variable has its type. *)
LEMMA TypesAtFirst == ASSUME StartupAssumption, Init PROVE TypeOK
<1>1. 0 \in 0 .. MaxEdits /\ 0 \in 0 .. MaxOutages
  BY DEF StartupAssumption
<1> QED BY <1>1 DEF StartupAssumption, Options, Init, TypeOK, NoProbe

(* Counters stay within their bounds, and files are only ever applied.     *)
LEMMA OneMore == ASSUME NEW m \in Nat, NEW n \in 0 .. m, n < m PROVE n + 1 \in 0 .. m
  OBVIOUS

LEMMA FilesAreApplied ==
  ASSUME NEW m \in 0 .. Migrations, NEW n \in m + 1 .. Migrations
  PROVE  n \in 0 .. Migrations /\ 1 .. m \subseteq 1 .. n
  BY DEF Migrations

LEMMA TypesAreKept ==
  ASSUME StartupAssumption, TypeOK, [Next]_vars
  PROVE  TypeOK'
<1> USE DEF TypeOK, NoProbe, outside
<1>1. CASE start
  BY <1>1 DEF start
<1>2. CASE build
  BY <1>2 DEF build, goes, fails
<1>3. CASE ensureBaseAgents
  BY <1>3 DEF ensureBaseAgents, goes, fails
<1>4. CASE listen
  BY <1>4 DEF listen, goes, fails
<1>5. CASE checkHealth
  BY <1>5 DEF checkHealth
<1>6. CASE getHealth
  BY <1>6 DEF getHealth, answers
<1>7. CASE crash
  <2>1. outages + 1 \in 0 .. MaxOutages
    BY <1>7, OneMore DEF StartupAssumption, crash
  <2> QED BY <1>7, <2>1 DEF crash
<1>8. CASE edit
  <2>1. edits + 1 \in 0 .. MaxEdits
    BY <1>8, OneMore DEF StartupAssumption, edit
  <2> QED BY <1>8, <2>1 DEF edit, process
<1>9. CASE applySqlMigrations
  <2>1. \A m \in migrations + 1 .. Migrations : m \in 0 .. Migrations
    BY FilesAreApplied
  <2> QED BY <1>9, <2>1 DEF applySqlMigrations, process
<1>10. CASE outage
  <2>1. outages + 1 \in 0 .. MaxOutages
    BY <1>10, OneMore DEF StartupAssumption, outage
  <2> QED BY <1>10, <2>1 DEF outage, process
<1>11. CASE UNCHANGED vars
  BY <1>11 DEF vars, process
<1> QED BY <1>1, <1>2, <1>3, <1>4, <1>5, <1>6, <1>7, <1>8, <1>9, <1>10, <1>11 DEF Next,
     boot

LEMMA AlwaysTyped == ASSUME StartupAssumption PROVE Spec => []TypeOK
  BY TypesAtFirst, TypesAreKept, PTL DEF Spec

(* Tables are never dropped: files are only ever applied. *)
LEMMA TablesStay ==
  TypeOK /\ [Next]_vars =>
     (schema \subseteq existing => schema \subseteq existing')
<1> SUFFICES ASSUME TypeOK, [Next]_vars PROVE existing \subseteq existing'
  OBVIOUS
<1>1. migrations' = migrations \/ migrations' \in migrations + 1 .. Migrations
  BY DEF Next, boot, start, build, ensureBaseAgents, listen,
         goes, fails, checkHealth, getHealth,
         crash, edit, applySqlMigrations, outage, vars, process,
         outside
<1>2. 1 .. migrations \subseteq 1 .. migrations'
  BY <1>1, FilesAreApplied DEF TypeOK
<1> QED BY <1>2 DEF existing

(* What a request of /health has found and answered, of the server that    *)
(* still serves: a server that went down forgets both.                     *)
ProbeIsTrue ==
  /\ pc # "serving" => probe = NoProbe /\ health = "none"
  /\ probe = "ok" => store(running) = "memory" \/ schema \subseteq existing
  /\ HealthyHasTables

LEMMA ProbeAtFirst == Init => ProbeIsTrue
  BY DEF Init, ProbeIsTrue, HealthyHasTables, NoProbe

LEMMA ProbeIsKept == TypeOK /\ ProbeIsTrue /\ [Next]_vars => ProbeIsTrue'
<1> SUFFICES ASSUME TypeOK, ProbeIsTrue, [Next]_vars PROVE ProbeIsTrue'
  OBVIOUS
<1>1. schema \subseteq existing => schema \subseteq existing'
  BY TablesStay
<1> HIDE DEF existing
<1> USE DEF ProbeIsTrue, HealthyHasTables, NoProbe, outside
<1>2. CASE start \/ build \/ ensureBaseAgents \/ listen
  BY <1>1, <1>2 DEF start, build, ensureBaseAgents, listen, goes,
         fails, existing, store
<1>3. CASE checkHealth
  <2>1. databaseOk => store(running) = "memory" \/ schema \subseteq existing
    BY DEF databaseOk, REQUIRED_POSTGRES_TABLES, schema
  <2> QED BY <1>1, <1>3, <2>1 DEF checkHealth, existing, store
<1>4. CASE getHealth
  <2>1. UNCHANGED <<pc, running>> /\ pc = "serving" /\ probe' = NoProbe
        /\ health' = answers(probe = "ok")
    BY <1>4 DEF getHealth
  <2>2. health' = "ok" =>
            /\ probe = "ok"
            /\ "enforce" \in running =>
                   {"postgres", "viem", "okxWallet", "okxMarket", "ipfs"} \subseteq running
    BY <2>1 DEF answers, realDemoReady
  <2> QED BY <1>1, <2>1, <2>2 DEF store
<1>5. CASE crash
  BY <1>5 DEF crash
<1>6. CASE edit \/ applySqlMigrations \/ outage \/ UNCHANGED vars
  <2>1. UNCHANGED process
    BY <1>6 DEF edit, applySqlMigrations, outage, vars
  <2> QED BY <1>1, <2>1 DEF process, store
<1> QED BY <1>2, <1>3, <1>4, <1>5, <1>6 DEF Next, boot

(* What /health says is true (HealthIsTrue), whatever happens to the       *)
(* database, the chain and the environment file in between.                *)
(* [db/client.ts, checkHealth; app.ts, /health; runtime-readiness.ts] *)
THEOREM HealthAlwaysTrue == ASSUME StartupAssumption PROVE Spec => []HealthIsTrue
<1>1. Spec => []ProbeIsTrue
  BY ProbeAtFirst, ProbeIsKept, AlwaysTyped, PTL DEF Spec
<1>2. TypeOK /\ ProbeIsTrue /\ ProductionIsReady => HealthIsTrue
  BY DEF ProbeIsTrue, HealthIsTrue
<1> QED BY <1>1, <1>2, AlwaysTyped, ProductionAlwaysReady, PTL

-----------------------------------------------------------------------------
(* Records of vaults. *)
ChainStates == {"None", "RuleAuction", "RuleDrafting", "UserRuleReview", "Active", "CommitPhase",
                "ResolutionAuction", "Cancelled", "ResolvedTrue", "ResolvedFalse", "ResolvedInvalid"}
WriteFns == {"createVaultRequest", "registerRuleCommittee", "finalizeRuleSet", "acceptRuleSetAndFund",
             "rejectRuleSet", "registerResolutionCommittee"}
FactoryFns == WriteFns \cup {"resolveChallenge", "finalizeV2Vault"}
Evidences == {"none", "TRUE", "FALSE"}
Finals == Evidences \cup {"INVALID"}
ChainRow(w) == [status : ChainStates, ruleRound : Nat, resRound : Nat, rejections : Nat, rule : 0 .. w.txs,
             resolution : 0 .. w.txs, evidence : Evidences, challenged : BOOLEAN]
RecordStates == ChainStates \cup {"DraftRequest"}
SnapRow(w) == [status : RecordStates, ruleRound : Nat, resRound : Nat, rejections : Nat, rule : 0 .. w.txs,
            resolution : 0 .. w.txs]
RecordRow(w) == [status : RecordStates, ext : w.vaults \cup {0}, ruleRound : Nat, resRound : Nat,
              rejections : Nat, rule : 0 .. w.txs, resolution : 0 .. w.txs, final : Finals,
              traces : SUBSET (1 .. w.txs)]
WriteTx(w) == [fn : FactoryFns, vault : w.vaults \cup {0}, by : {"setter", "operator", "finalizer"},
            state : {"pending", "success", "reopened", "reverted"}]
Places == {"idle", "insert", "ensure", "receipt", "write", "save", "challenge", "resolve", "evaluate", "finalize",
           "verify", "vault", "committees", "finalized", "registerTx", "registerOnchain", "sync"}
CallOps == WriteFns \cup {"none", "createDraft", "finalizeResolution", "registerTx", "registerOnchain", "sync"}
Handling(w) == [pc : Places, op : CallOps, seen : RecordRow(w), tx : 0 .. w.txs, reopen : BOOLEAN,
             outcome : Finals, snap : SnapRow(w)]
MirrorRow == [round : Nat, evidence : Evidences, challenged : BOOLEAN]

RecordTyped(w) ==
    /\ vaultChain \in [w.vaults -> ChainRow(w)] /\ vaultTxs \in Seq(WriteTx(w)) /\ Len(vaultTxs) <= w.txs
    /\ record \in RecordRow(w) /\ mirror \in MirrorRow /\ opRequest \in [Vault(w)!Actors -> Handling(w)]
    /\ opCalls \in Nat /\ opCalls <= w.calls

(* The traces of a record are of transactions, a setter's only of one that  *)
(* succeeded on this vault. *)
Traced(rec) ==
    \A k \in rec.traces :
        /\ k \in 1 .. Len(vaultTxs)
        /\ vaultTxs[k].by = "setter" => vaultTxs[k].state = "success" /\ vaultTxs[k].vault = rec.ext

(* Where a request is, and the transaction it is about. *)
Writing(q) ==
    /\ q.pc \in {"ensure", "receipt", "write", "save"} => q.op \in WriteFns
    /\ q.pc \in {"challenge", "resolve", "evaluate", "finalize", "finalized"} => q.op = "finalizeResolution"
    /\ q.pc = "verify" => q.op \in {"registerOnchain", "registerTx"}
    /\ q.pc \in {"vault", "committees"} => q.op \in {"finalizeResolution", "registerTx", "sync"}
    /\ q.pc \in {"registerTx", "registerOnchain", "sync"} => q.op = q.pc
    /\ \/ q.pc \in {"challenge", "resolve", "evaluate", "finalize", "vault", "committees"}
       \/ q.pc = "verify" /\ q.op = "registerTx"
       => q.seen.ext # 0
    /\ q.pc = "receipt" => q.seen.ext = 0
OwnTx(q) ==
    /\ q.tx <= Len(vaultTxs)
    /\ q.pc \in {"receipt", "save", "finalized"} \/ (q.pc \in {"vault", "committees"} /\ q.op = "finalizeResolution")
       => q.tx # 0 /\ vaultTxs[q.tx].by # "setter"
    /\ q.pc = "verify" => q.tx # 0
    /\ q.pc = "registerTx" \/ (q.pc \in {"vault", "committees"} /\ q.op = "registerTx")
       => q.tx # 0 /\ vaultTxs[q.tx].state = "success" /\ vaultTxs[q.tx].vault = q.seen.ext
    /\ q.pc = "registerOnchain" => q.tx # 0 /\ vaultTxs[q.tx].state = "success"
Handled(q) == Writing(q) /\ OwnTx(q) /\ Traced(q.seen)

SetterSucceeds ==
    \A k \in 1 .. Len(vaultTxs) :
        vaultTxs[k].by = "setter" /\ vaultTxs[k].state = "success" => vaultTxs[k].vault # 0

RecordInv(w) ==
    RecordTyped(w) /\ Traced(record) /\ (\A r \in Vault(w)!Actors : Handled(opRequest[r])) /\ SetterSucceeds

(* No transaction is forgotten, and what succeeded stays as it is. *)
TxsLast ==
    /\ Len(vaultTxs') \in Nat /\ Len(vaultTxs) <= Len(vaultTxs')
    /\ \A k \in 1 .. Len(vaultTxs) :
          vaultTxs'[k].by = vaultTxs[k].by /\ (vaultTxs[k].state = "success" => vaultTxs'[k] = vaultTxs[k])

-----------------------------------------------------------------------------
LEMMA TxsKnown ==
    ASSUME NEW w, RecordInv(w)
    PROVE  /\ Len(vaultTxs) \in Nat /\ DOMAIN vaultTxs = 1 .. Len(vaultTxs) /\ Len(vaultTxs) <= w.txs
              /\ vaultTxs \in Seq(WriteTx(w))
           /\ \A k \in 1 .. Len(vaultTxs) : vaultTxs[k] \in WriteTx(w)
<1>1. vaultTxs \in Seq(WriteTx(w)) /\ Len(vaultTxs) <= w.txs
    BY DEF RecordInv, RecordTyped
<1>2. \A k \in 1 .. Len(vaultTxs) : vaultTxs[k] \in WriteTx(w)
    BY <1>1, ElementOfSeq
<1> QED BY <1>1, <1>2

LEMMA TxsSame == ASSUME NEW w, RecordInv(w), UNCHANGED vaultTxs PROVE TxsLast
    BY TxsKnown DEF TxsLast

LEMMA StillTraced ==
    ASSUME NEW w, RecordInv(w), TxsLast, NEW rec, Traced(rec)
    PROVE  Traced(rec)'
    BY TxsKnown DEF Traced, TxsLast

LEMMA StillHandled ==
    ASSUME NEW w, RecordInv(w), TxsLast, NEW q \in Handling(w), Handled(q)
    PROVE  Handled(q)'
<1>1. Traced(q.seen)'
    <2>1. PICK rec : rec = q.seen
        OBVIOUS
    <2>2. Traced(rec)'
        BY <2>1, StillTraced DEF Handled
    <2> QED BY <2>1, <2>2 DEF Traced
<1>2. OwnTx(q)'
    <2>1. q.tx \in Nat /\ q.tx <= Len(vaultTxs)
        BY DEF Handled, OwnTx, Handling
    <2>2. q.tx # 0 => q.tx \in 1 .. Len(vaultTxs)
        BY <2>1, TxsKnown
    <2>3. q.tx <= Len(vaultTxs')
        BY <2>1, TxsKnown DEF TxsLast
    <2> QED BY <2>2, <2>3 DEF Handled, OwnTx, TxsLast
<1> QED BY <1>1, <1>2 DEF Handled, Writing

LEMMA NobodyIdles ==
    ASSUME NEW w, Vault(w)!VaultWorkflowAssumption
    PROVE  /\ Vault(w)!NoVault \in ChainRow(w) /\ Vault(w)!NoRecord \in RecordRow(w)
              /\ Vault(w)!Snapshot(Vault(w)!NoVault) \in SnapRow(w)
           /\ Vault(w)!Idle \in Handling(w) /\ (RecordTyped(w) => Handled(Vault(w)!Idle))
              /\ Traced(Vault(w)!NoRecord)
<1>1. 0 \in 0 .. w.txs /\ 0 \in Nat
    BY DEF Vault!VaultWorkflowAssumption
<1>2. Vault(w)!NoVault \in ChainRow(w) /\ Vault(w)!Snapshot(Vault(w)!NoVault) \in SnapRow(w)
    BY <1>1 DEF Vault!NoVault, ChainRow, ChainStates, Evidences, Vault!Snapshot, SnapRow, RecordStates
<1>3. Vault(w)!NoRecord \in RecordRow(w)
    BY <1>1 DEF Vault!NoRecord, RecordRow, ChainStates, Finals, Evidences, RecordStates
<1>4. Vault(w)!Idle \in Handling(w)
    BY <1>1, <1>2, <1>3 DEF Vault!Idle, Handling, Places, CallOps, Finals, Evidences
<1>5. RecordTyped(w) => Len(vaultTxs) \in Nat
    BY DEF RecordTyped
<1>6. Traced(Vault(w)!NoRecord)
    BY DEF Traced, Vault!NoRecord
<1>7. Vault(w)!Idle.pc = "idle" /\ Vault(w)!Idle.seen = Vault(w)!NoRecord /\ Vault(w)!Idle.tx = 0
    BY DEF Vault!Idle
<1> HIDE DEF Vault!Idle
<1>8. RecordTyped(w) => Handled(Vault(w)!Idle)
    BY <1>5, <1>6, <1>7 DEF Handled, Writing, OwnTx
<1> QED BY <1>2, <1>3, <1>4, <1>6, <1>8

(* One request goes on; what else changes keeps its type. *)
LEMMA HandlingMoves ==
    ASSUME NEW w, RecordInv(w), RecordTyped(w)', TxsLast, SetterSucceeds', Traced(record)',
                  NEW r \in Vault(w)!Actors, NEW q \in Handling(w), Vault(w)!Goto(r, q), Handled(q)'
    PROVE  RecordInv(w)'
<1>1. \A o \in Vault(w)!Actors : opRequest'[o] = IF o = r THEN q ELSE opRequest[o]
    BY DEF Vault!Goto, RecordInv, RecordTyped
<1>2. ASSUME NEW o \in Vault(w)!Actors PROVE Handled(opRequest[o])'
    <2>1. CASE o = r
        BY <1>1, <2>1 DEF Handled, Writing, OwnTx, Traced
    <2>2. CASE o # r
        <3>1. PICK c \in Handling(w) : c = opRequest[o] /\ Handled(c)
            BY DEF RecordInv, RecordTyped
        <3>2. Handled(c)'
            BY <3>1, StillHandled
        <3> QED BY <1>1, <2>2, <3>1, <3>2 DEF Handled, Writing, OwnTx, Traced
    <2> QED BY <2>1, <2>2
<1> QED BY <1>2 DEF RecordInv

(* Nobody goes on, the chain or the mirror moves. *)
LEMMA ChainMoves ==
    ASSUME NEW w, RecordInv(w), RecordTyped(w)', TxsLast, SetterSucceeds', UNCHANGED <<record, opRequest>>
    PROVE  RecordInv(w)'
<1>1. Traced(record)'
    <2>1. PICK rec : rec = record /\ Traced(rec)
        BY DEF RecordInv
    <2>2. Traced(rec)'
        BY <2>1, StillTraced
    <2> QED BY <2>1, <2>2 DEF Traced
<1>2. ASSUME NEW o \in Vault(w)!Actors PROVE Handled(opRequest[o])'
    <2>1. PICK c \in Handling(w) : c = opRequest[o] /\ Handled(c)
        BY DEF RecordInv, RecordTyped
    <2>2. Handled(c)'
        BY <2>1, StillHandled
    <2> QED BY <2>1, <2>2 DEF Handled, Writing, OwnTx, Traced
<1> QED BY <1>1, <1>2 DEF RecordInv
(* A request that leaves everything else as it is. *)
LEMMA HandlingGoesOn ==
    ASSUME NEW w, RecordInv(w), UNCHANGED <<vaultChain, vaultTxs, record, mirror>>,
           opCalls' \in Nat, opCalls' <= w.calls, NEW r \in Vault(w)!Actors, NEW q \in Handling(w),
           Vault(w)!Goto(r, q), Handled(q)
    PROVE  RecordInv(w)'
<1>1. RecordTyped(w)'
    BY DEF RecordInv, RecordTyped, Vault!Goto
<1>2. Traced(record)' /\ SetterSucceeds' /\ Handled(q)'
    BY DEF RecordInv, Traced, SetterSucceeds, Handled, Writing, OwnTx
<1> QED BY <1>1, <1>2, TxsSame, HandlingMoves

LEMMA HandlingEnds ==
    ASSUME NEW w, Vault(w)!VaultWorkflowAssumption, RecordInv(w),
           UNCHANGED <<vaultChain, vaultTxs, record, mirror>>, opCalls' \in Nat,
           opCalls' <= w.calls, NEW r \in Vault(w)!Actors, Vault(w)!Finish(r)
    PROVE  RecordInv(w)'
    BY NobodyIdles, HandlingGoesOn DEF Vault!Finish, RecordInv

(* Saving a record, which may end the request. *)
LEMMA SavedRecord ==
    ASSUME NEW w, NEW old \in RecordRow(w), NEW rec \in RecordRow(w)
    PROVE  /\ Vault(w)!mapVaultToRow(old, rec) \in RecordRow(w)
           /\ Vault(w)!mapVaultToRow(old, rec).status = rec.status
              /\ Vault(w)!mapVaultToRow(old, rec).ext = rec.ext
           /\ Vault(w)!mapVaultToRow(old, rec).traces = rec.traces
<1>1. PICK a \in 0 .. w.txs : a = IF rec.rule = 0 THEN old.rule ELSE rec.rule
    BY DEF RecordRow
<1>2. PICK b \in 0 .. w.txs : b = IF rec.resolution = 0 THEN old.resolution ELSE rec.resolution
    BY DEF RecordRow
<1>3. PICK c \in Finals : c = IF rec.final = "none" THEN old.final ELSE rec.final
    BY DEF RecordRow
<1>4. Vault(w)!mapVaultToRow(old, rec) = [rec EXCEPT !.rule = a, !.resolution = b, !.final = c]
    BY <1>1, <1>2, <1>3 DEF Vault!mapVaultToRow
<1> QED BY <1>4 DEF RecordRow

LEMMA RecordSaved ==
    ASSUME NEW w, RecordInv(w), NEW rec \in RecordRow(w), Vault(w)!saveVault(rec)
    PROVE  /\ record' \in RecordRow(w) /\ record'.status = rec.status /\ record'.ext = rec.ext
           /\ record'.traces = rec.traces
<1>1. record \in RecordRow(w)
    BY DEF RecordInv, RecordTyped
<1>2. CASE w.postgres
    BY <1>1, <1>2, SavedRecord DEF Vault!saveVault
<1>3. CASE ~w.postgres
    BY <1>3 DEF Vault!saveVault
<1> QED BY <1>2, <1>3

LEMMA HandlingSaves ==
    ASSUME NEW w, RecordInv(w), UNCHANGED <<vaultChain, vaultTxs, mirror, opCalls>>,
           NEW rec \in RecordRow(w), Vault(w)!saveVault(rec), Traced(rec),
           NEW r \in Vault(w)!Actors, NEW q \in Handling(w),
           Vault(w)!Goto(r, q), Handled(q)
    PROVE  RecordInv(w)'
<1>1. record' \in RecordRow(w) /\ record'.ext = rec.ext /\ record'.traces = rec.traces
    BY RecordSaved
<1>2. RecordTyped(w)'
    BY <1>1 DEF RecordInv, RecordTyped, Vault!Goto
<1>3. Traced(record)'
    BY <1>1 DEF Traced
<1>4. SetterSucceeds' /\ Handled(q)'
    BY DEF RecordInv, Traced, SetterSucceeds, Handled, Writing, OwnTx
<1> QED BY <1>2, <1>3, <1>4, TxsSame, HandlingMoves

(* One more transaction. *)
LEMMA TxSent ==
    ASSUME NEW w, RecordInv(w), Len(vaultTxs) < w.txs, w.txs \in Nat, NEW t \in WriteTx(w),
           vaultTxs' = Append(vaultTxs, t), t.by = "setter" => t.state # "success"
    PROVE  /\ TxsLast /\ SetterSucceeds' /\ vaultTxs' \in Seq(WriteTx(w)) /\ Len(vaultTxs') = Len(vaultTxs) + 1
           /\ Len(vaultTxs') <= w.txs /\ vaultTxs'[Len(vaultTxs) + 1] = t /\ Len(vaultTxs) + 1 \in 1 .. w.txs
           /\ \A k \in 1 .. Len(vaultTxs) : vaultTxs'[k] = vaultTxs[k]
<1>1. /\ vaultTxs' \in Seq(WriteTx(w)) /\ Len(vaultTxs') = Len(vaultTxs) + 1
         /\ vaultTxs'[Len(vaultTxs) + 1] = t /\ Len(vaultTxs) \in Nat
      /\ \A k \in 1 .. Len(vaultTxs) : vaultTxs'[k] = vaultTxs[k]
    BY TxsKnown, AppendProperties
<1>2. \A k \in 1 .. Len(vaultTxs') : \/ k \in 1 .. Len(vaultTxs) /\ vaultTxs'[k] = vaultTxs[k]
                                     \/ vaultTxs'[k] = t
    BY <1>1
<1>3. SetterSucceeds'
    BY <1>2 DEF SetterSucceeds, RecordInv
<1> QED BY <1>1, <1>3 DEF TxsLast

LEMMA HandlingSends ==
    ASSUME NEW w, RecordInv(w), UNCHANGED <<vaultChain, record, mirror, opCalls>>,
           w.txs \in Nat, Len(vaultTxs) < w.txs, NEW t \in WriteTx(w), vaultTxs' = Append(vaultTxs, t),
           t.by # "setter", NEW r \in Vault(w)!Actors, NEW q \in Handling(w), Vault(w)!Goto(r, q),
           Writing(q), Traced(q.seen)', OwnTx(q)'
    PROVE  RecordInv(w)'
<1>1. TxsLast /\ SetterSucceeds' /\ vaultTxs' \in Seq(WriteTx(w)) /\ Len(vaultTxs') = Len(vaultTxs) + 1
      /\ Len(vaultTxs') <= w.txs
    BY TxSent
<1>3. RecordTyped(w)'
    BY <1>1 DEF RecordInv, RecordTyped, Vault!Goto
<1>4. Traced(record)'
    <2>1. PICK rec : rec = record /\ Traced(rec)
        BY DEF RecordInv
    <2>2. Traced(rec)'
        BY <1>1, <2>1, StillTraced
    <2> QED BY <2>1, <2>2 DEF Traced
<1>5. Handled(q)'
    BY DEF Handled, Writing
<1> QED BY <1>1, <1>3, <1>4, <1>5, HandlingMoves

-----------------------------------------------------------------------------
(* The chain. *)
LEMMA EffectTyped ==
    ASSUME NEW w, Vault(w)!VaultWorkflowAssumption, NEW c \in ChainRow(w), NEW fn \in FactoryFns,
           NEW k \in 0 .. w.txs
    PROVE  Vault(w)!effect(c, fn, k) \in ChainRow(w)
<1>1. c.ruleRound + 1 \in Nat /\ c.resRound + 1 \in Nat /\ c.rejections + 1 \in Nat /\ 0 \in 0 .. w.txs
    BY DEF ChainRow, Vault!VaultWorkflowAssumption
<1> USE DEF Vault!effect, ChainRow, ChainStates
<1>2. CASE fn \in {"createVaultRequest", "finalizeRuleSet", "acceptRuleSetAndFund"}
    BY <1>2
<1>3. CASE fn = "registerRuleCommittee"
    <2>1. Vault(w)!effect(c, fn, k) = [c EXCEPT !.status = "RuleDrafting", !.ruleRound = c.ruleRound + 1, !.rule = k]
        BY <1>3
    <2> HIDE DEF Vault!effect
    <2> QED BY <1>1, <2>1
<1>4. CASE fn = "rejectRuleSet"
    <2>1. PICK s \in ChainStates : s = IF c.rejections = 1 THEN "Cancelled" ELSE "RuleAuction"
        OBVIOUS
    <2>2. Vault(w)!effect(c, fn, k) = [c EXCEPT !.rejections = c.rejections + 1, !.rule = 0, !.status = s]
        BY <1>4, <2>1
    <2> HIDE DEF Vault!effect
    <2> QED BY <1>1, <2>2
<1>5. CASE fn = "registerResolutionCommittee"
    <2>1. Vault(w)!effect(c, fn, k) = [c EXCEPT !.status = "CommitPhase", !.resRound = c.resRound + 1, !.resolution = k,
                                                !.evidence = "none"]
        BY <1>5
    <2> HIDE DEF Vault!effect
    <2> QED BY <1>1, <2>1 DEF Evidences
<1>6. CASE fn = "resolveChallenge"
    BY <1>6
<1>7. CASE fn = "finalizeV2Vault"
    <2>1. PICK s \in ChainStates : s = IF Vault(w)!reopens(c)
                                       THEN "ResolutionAuction" ELSE Vault(w)!Outcome(c.evidence)
        BY DEF Vault!Outcome
    <2>2. Vault(w)!effect(c, fn, k) = [c EXCEPT !.resolution = 0, !.status = s]
        BY <1>7, <2>1
    <2> HIDE DEF Vault!effect
    <2> QED BY <1>1, <2>2
<1> QED BY <1>2, <1>3, <1>4, <1>5, <1>6, <1>7 DEF FactoryFns, WriteFns
LEMMA MiningKeeps ==
    ASSUME NEW w, Vault(w)!VaultWorkflowAssumption, RecordInv(w), NEW k \in DOMAIN vaultTxs,
           Vault(w)!mine(k)
    PROVE  RecordInv(w)'
<1>1. /\ k \in 1 .. Len(vaultTxs) /\ vaultTxs[k] \in WriteTx(w) /\ vaultTxs[k].state = "pending"
         /\ k \in 0 .. w.txs
      /\ UNCHANGED <<record, mirror, opRequest, opCalls>>
    BY TxsKnown DEF Vault!mine, Vault!VaultWorkflowAssumption
<1>2. ASSUME NEW t \in WriteTx(w), vaultTxs' = [vaultTxs EXCEPT ![k] = t], t.by = vaultTxs[k].by,
             t.state = "success" => t.vault # 0, vaultChain' \in [w.vaults -> ChainRow(w)]
      PROVE  RecordInv(w)'
    <2>1. /\ vaultTxs' \in Seq(WriteTx(w)) /\ Len(vaultTxs') = Len(vaultTxs) /\ Len(vaultTxs) \in Nat
          /\ \A j \in 1 .. Len(vaultTxs) : vaultTxs'[j] = IF j = k THEN t ELSE vaultTxs[j]
        BY <1>1, <1>2, TxsKnown
    <2>2. TxsLast
        BY <1>1, <1>2, <2>1 DEF TxsLast
    <2>3. SetterSucceeds'
        BY <1>1, <1>2, <2>1 DEF SetterSucceeds, RecordInv
    <2>4. RecordTyped(w)'
        BY <1>1, <1>2, <2>1 DEF RecordInv, RecordTyped
    <2> QED BY <1>1, <2>2, <2>3, <2>4, ChainMoves
<1>3. CASE vaultTxs' = [vaultTxs EXCEPT ![k].state = "reverted"] /\ UNCHANGED vaultChain
    <2>1. PICK t : t = [vaultTxs[k] EXCEPT !.state = "reverted"]
        OBVIOUS
    <2>2. t \in WriteTx(w) /\ t.by = vaultTxs[k].by /\ t.state = "reverted"
        BY <1>1, <2>1 DEF WriteTx
    <2>3. vaultTxs' = [vaultTxs EXCEPT ![k] = t]
        BY <1>3, <2>1
    <2>4. vaultChain' \in [w.vaults -> ChainRow(w)]
        BY <1>3 DEF RecordInv, RecordTyped
    <2> QED BY <1>2, <2>2, <2>3, <2>4
<1>4. ASSUME NEW v, Vault(w)!accepts(vaultTxs[k].fn, v),
             vaultChain' = [vaultChain EXCEPT ![v] = Vault(w)!effect(vaultChain[v], vaultTxs[k].fn, k)],
             vaultTxs' = [vaultTxs EXCEPT ![k].state = Vault(w)!outcomeOf(vaultTxs[k].fn, vaultChain[v]),
                                          ![k].vault = v]
      PROVE  RecordInv(w)'
    <2>1. v \in w.vaults /\ v # 0
        BY <1>4 DEF Vault!accepts, Vault!VaultWorkflowAssumption
    <2>0. PICK s \in {"success", "reopened"} : s = Vault(w)!outcomeOf(vaultTxs[k].fn, vaultChain[v])
        BY DEF Vault!outcomeOf
    <2>2. PICK t : t = [vaultTxs[k] EXCEPT !.state = s, !.vault = v]
        OBVIOUS
    <2>3. t \in WriteTx(w) /\ t.by = vaultTxs[k].by /\ t.vault # 0
        BY <1>1, <2>1, <2>2 DEF WriteTx
    <2>4. vaultTxs' = [vaultTxs EXCEPT ![k] = t]
        BY <1>1, <1>4, <2>0, <2>2, TxsKnown
    <2>5. vaultChain' \in [w.vaults -> ChainRow(w)]
        <3>1. vaultChain \in [w.vaults -> ChainRow(w)] /\ vaultTxs[k].fn \in FactoryFns
            BY <1>1 DEF RecordInv, RecordTyped, WriteTx
        <3>2. Vault(w)!effect(vaultChain[v], vaultTxs[k].fn, k) \in ChainRow(w)
            BY <1>1, <2>1, <3>1, EffectTyped
        <3> QED BY <1>4, <3>1, <3>2
    <2> QED BY <1>2, <2>3, <2>4, <2>5
<1> QED BY <1>3, <1>4 DEF Vault!mine

LEMMA SettersKeep ==
    ASSUME NEW w, Vault(w)!VaultWorkflowAssumption, RecordInv(w), NEW fn \in WriteFns,
           NEW v \in w.vaults \cup {0}, Vault(w)!setterSends(fn, v)
    PROVE  RecordInv(w)'
<1>1. PICK t : t = [fn |-> fn, vault |-> v, by |-> "setter", state |-> IF w.mock THEN "success" ELSE "pending"]
    OBVIOUS
<1>2. t \in WriteTx(w) /\ t.state # "success" /\ vaultTxs' = Append(vaultTxs, t) /\ Len(vaultTxs) < w.txs
      /\ w.txs \in Nat
      /\ UNCHANGED <<vaultChain, record, mirror, opRequest, opCalls>>
    BY <1>1 DEF Vault!setterSends, Vault!send, WriteTx, FactoryFns, Vault!VaultWorkflowAssumption
<1>3. TxsLast /\ SetterSucceeds' /\ vaultTxs' \in Seq(WriteTx(w)) /\ Len(vaultTxs') <= w.txs
      /\ Len(vaultTxs') = Len(vaultTxs) + 1
    BY <1>2, TxSent
<1>4. RecordTyped(w)'
    <2> QED BY <1>2, <1>3 DEF RecordInv, RecordTyped
<1> QED BY <1>2, <1>3, <1>4, ChainMoves

LEMMA AgentsKeep ==
    ASSUME NEW w, RecordInv(w), NEW v \in w.vaults, Vault(w)!agentsWork(v) \/ Vault(w)!agentsPost(v)
    PROVE  RecordInv(w)'
<1>1. UNCHANGED <<vaultTxs, record, opRequest, opCalls>>
    BY DEF Vault!agentsWork, Vault!agentsPost
<1>2. vaultChain \in [w.vaults -> ChainRow(w)] /\ vaultChain[v] \in ChainRow(w) /\ mirror \in MirrorRow
    BY DEF RecordInv, RecordTyped
<1>3. vaultChain' \in [w.vaults -> ChainRow(w)] /\ mirror' \in MirrorRow
    <2>1. CASE Vault(w)!agentsWork(v)
        <3>1. PICK e \in {"TRUE", "FALSE"}, b \in BOOLEAN :
                 vaultChain' = [vaultChain EXCEPT ![v] = [vaultChain[v] EXCEPT !.evidence = e, !.challenged = b]] /\ UNCHANGED mirror
            BY <1>2, <2>1 DEF Vault!agentsWork
        <3>2. [vaultChain[v] EXCEPT !.evidence = e, !.challenged = b] \in ChainRow(w)
            BY <1>2 DEF ChainRow, Evidences
        <3> QED BY <1>2, <3>1, <3>2
    <2>2. CASE Vault(w)!agentsPost(v)
        BY <1>2, <2>2 DEF Vault!agentsPost, ChainRow, MirrorRow
    <2> QED BY <2>1, <2>2
<1>4. RecordTyped(w)' /\ SetterSucceeds'
    BY <1>1, <1>3 DEF RecordInv, RecordTyped, SetterSucceeds
<1> QED BY <1>1, <1>4, TxsSame, ChainMoves

-----------------------------------------------------------------------------
(* Calls. *)
LEMMA HandlingBegins ==
    ASSUME NEW w, Vault(w)!VaultWorkflowAssumption, RecordInv(w), NEW r \in Vault(w)!Actors, NEW op,
           NEW q \in Handling(w), Handled(q), Vault(w)!begin(r, op, q)
    PROVE  RecordInv(w)'
<1>1. Vault(w)!Goto(r, q) /\ UNCHANGED <<vaultChain, vaultTxs, record, mirror>>
    BY DEF Vault!begin
<1>2. opCalls' \in Nat /\ opCalls' <= w.calls
    BY DEF Vault!begin, RecordInv, RecordTyped, Vault!VaultWorkflowAssumption
<1> QED BY <1>1, <1>2, HandlingGoesOn

LEMMA Started ==
    ASSUME NEW w, Vault(w)!VaultWorkflowAssumption, RecordInv(w), NEW op \in CallOps, NEW place \in Places
    PROVE  LET q == Vault(w)!Start(op, place) IN
           /\ q \in Handling(w) /\ q.op = op /\ q.pc = place /\ q.seen = record /\ q.tx = 0 /\ Traced(q.seen)
           /\ q.tx <= Len(vaultTxs) /\ q.snap \in SnapRow(w)
<1>1. Vault(w)!Idle \in Handling(w) /\ record \in RecordRow(w) /\ Traced(record) /\ Len(vaultTxs) \in Nat
    BY NobodyIdles, TxsKnown DEF RecordInv, RecordTyped
<1>2. PICK q : q = [Vault(w)!Idle EXCEPT !.op = op, !.pc = place, !.seen = record]
    OBVIOUS
<1>3. q \in Handling(w) /\ q.op = op /\ q.pc = place /\ q.seen = record /\ q.tx = 0 /\ q.snap \in SnapRow(w)
    <2>1. Vault(w)!Idle.tx = 0
        BY DEF Vault!Idle
    <2> HIDE DEF Vault!Idle
    <2> QED BY <1>1, <1>2, <2>1 DEF Handling
<1> QED BY <1>1, <1>2, <1>3 DEF Vault!Start

LEMMA HandlingStarts ==
    ASSUME NEW w, Vault(w)!VaultWorkflowAssumption, RecordInv(w), NEW r \in Vault(w)!Actors, NEW op \in CallOps, NEW place \in Places, NEW called,
                  Vault(w)!begin(r, called, Vault(w)!Start(op, place)),
                  \/ place = "insert"
                  \/ place \in {"ensure", "write"} /\ op \in WriteFns
                  \/ place = "vault" /\ op = "sync" /\ record.ext # 0
    PROVE  RecordInv(w)'
<1>1. PICK q : q = Vault(w)!Start(op, place)
    OBVIOUS
<1>2. /\ q \in Handling(w) /\ q.op = op /\ q.pc = place /\ Traced(q.seen) /\ q.tx = 0 /\ q.tx <= Len(vaultTxs)
      /\ q.seen = record
    BY <1>1, Started
<1>3. Handled(q)
    BY <1>2 DEF Handled, Writing, OwnTx
<1> QED BY <1>1, <1>2, <1>3, HandlingBegins

LEMMA VerifyingStarts ==
    ASSUME NEW w, Vault(w)!VaultWorkflowAssumption, RecordInv(w), NEW r \in Vault(w)!Actors,
           NEW op \in {"registerOnchain", "registerTx"}, NEW k \in DOMAIN vaultTxs,
           Vault(w)!begin(r, op, [Vault(w)!Start(op, "verify") EXCEPT !.tx = k]),
           op = "registerTx" => record.ext # 0
    PROVE  RecordInv(w)'
<1>1. PICK s : s = Vault(w)!Start(op, "verify")
    OBVIOUS
<1>2. PICK q : q = [s EXCEPT !.tx = k]
    OBVIOUS
<1>3. s \in Handling(w) /\ s.op = op /\ s.pc = "verify" /\ Traced(s.seen) /\ s.seen = record
    BY <1>1, Started DEF CallOps, Places
<1>4. k \in 0 .. w.txs /\ k # 0 /\ k <= Len(vaultTxs)
    BY TxsKnown DEF Vault!VaultWorkflowAssumption
<1>5. q \in Handling(w) /\ q.op = op /\ q.pc = "verify" /\ q.seen = s.seen /\ q.tx = k
    BY <1>2, <1>3, <1>4 DEF Handling
<1>6. Handled(q)
    BY <1>3, <1>4, <1>5 DEF Handled, Writing, OwnTx
<1> QED BY <1>1, <1>2, <1>5, <1>6, HandlingBegins

LEMMA FinalizingStarts ==
    ASSUME NEW w, Vault(w)!VaultWorkflowAssumption, RecordInv(w), NEW r \in Vault(w)!Actors,
           Vault(w)!finalizeResolution(r)
    PROVE  RecordInv(w)'
<1>1. PICK b \in BOOLEAN :
         Vault(w)!begin(r, "finalizeResolution", [Vault(w)!Start("finalizeResolution", "challenge") EXCEPT !.reopen = b])
    BY DEF Vault!finalizeResolution
<1>0. record.ext # 0
    BY DEF Vault!finalizeResolution
<1>2. PICK s : s = Vault(w)!Start("finalizeResolution", "challenge")
    OBVIOUS
<1>3. PICK q : q = [s EXCEPT !.reopen = b]
    OBVIOUS
<1>4. s \in Handling(w) /\ s.op = "finalizeResolution" /\ s.pc = "challenge" /\ Traced(s.seen) /\ s.tx = 0
      /\ s.tx <= Len(vaultTxs) /\ s.seen = record
    BY <1>2, Started DEF CallOps, Places
<1>5. q \in Handling(w) /\ q.op = s.op /\ q.pc = s.pc /\ q.seen = s.seen /\ q.tx = 0 /\ q.tx <= Len(vaultTxs)
    BY <1>3, <1>4 DEF Handling
<1>6. Handled(q)
    BY <1>0, <1>4, <1>5 DEF Handled, Writing, OwnTx
<1> QED BY <1>1, <1>2, <1>3, <1>5, <1>6, HandlingBegins

LEMMA CallsKeep ==
    ASSUME NEW w, Vault(w)!VaultWorkflowAssumption, RecordInv(w), NEW r \in Vault(w)!Actors,
           Vault(w)!Call(r) \/ Vault(w)!syncOnchainSnapshot(r)
    PROVE  RecordInv(w)'
<1> USE DEF CallOps, Places, WriteFns
<1>1. CASE Vault(w)!createDraft(r)
    BY <1>1, HandlingStarts DEF Vault!createDraft
<1>2. CASE Vault(w)!createVaultRequest(r)
    BY <1>2, HandlingStarts DEF Vault!createVaultRequest
<1>3. CASE Vault(w)!registerOnchain(r)
    BY <1>3, VerifyingStarts DEF Vault!registerOnchain
<1>4. CASE Vault(w)!registerRuleCommittee(r)
    BY <1>4, HandlingStarts DEF Vault!registerRuleCommittee
<1>5. CASE Vault(w)!registerResolutionCommittee(r)
    BY <1>5, HandlingStarts DEF Vault!registerResolutionCommittee
<1>6. CASE Vault(w)!bootstrapCommittee(r)
    BY <1>6, HandlingStarts DEF Vault!bootstrapCommittee
<1>7. CASE Vault(w)!finalizeRuleSet(r)
    BY <1>7, HandlingStarts DEF Vault!finalizeRuleSet
<1>8. CASE Vault(w)!decideRuleSet(r)
    BY <1>8, HandlingStarts DEF Vault!decideRuleSet
<1>9. CASE Vault(w)!finalizeResolution(r)
    BY <1>9, FinalizingStarts
<1>10. CASE Vault(w)!syncOnchainSnapshot(r)
    BY <1>10, HandlingStarts DEF Vault!syncOnchainSnapshot
<1>11. CASE Vault(w)!registerTx(r)
    BY <1>11, VerifyingStarts DEF Vault!registerTx
<1> QED BY <1>1, <1>2, <1>3, <1>4, <1>5, <1>6, <1>7, <1>8, <1>9, <1>10, <1>11 DEF Vault!Call
-----------------------------------------------------------------------------
(* Steps. *)
LEMMA HandlingOf ==
    ASSUME NEW w, RecordInv(w), NEW r \in Vault(w)!Actors
    PROVE  /\ opRequest[r] \in Handling(w) /\ Handled(opRequest[r]) /\ opRequest[r].seen \in RecordRow(w)
           /\ opRequest[r].tx \in Nat /\ (opRequest[r].tx # 0 => opRequest[r].tx \in 1 .. Len(vaultTxs))
<1>1. opRequest[r] \in Handling(w) /\ Handled(opRequest[r])
    BY DEF RecordInv, RecordTyped
<1>2. opRequest[r].tx \in Nat /\ opRequest[r].seen \in RecordRow(w)
    BY <1>1 DEF Handling
<1>3. opRequest[r].tx <= Len(vaultTxs)
    BY <1>1 DEF Handled, OwnTx
<1> QED BY <1>1, <1>2, <1>3, TxsKnown

LEMMA CallsCounted ==
    ASSUME NEW w, RecordInv(w), UNCHANGED opCalls
    PROVE  opCalls' \in Nat /\ opCalls' <= w.calls
    BY DEF RecordInv, RecordTyped

LEMMA RequestsEnd ==
    ASSUME NEW w, Vault(w)!VaultWorkflowAssumption, RecordInv(w), NEW r \in Vault(w)!Actors,
           Vault(w)!refused(r) \/ Vault(w)!notVerified(r) \/ Vault(w)!fails(r)
    PROVE  RecordInv(w)'
<1>1. UNCHANGED <<vaultChain, vaultTxs, record, mirror>> /\ Vault(w)!Finish(r)
    BY DEF Vault!refused, Vault!notVerified, Vault!fails
<1>2. opCalls' \in Nat /\ opCalls' <= w.calls
    BY DEF Vault!refused, Vault!notVerified, Vault!fails, RecordInv, RecordTyped,
       Vault!VaultWorkflowAssumption
<1> QED BY <1>1, <1>2, HandlingEnds

(* Another place, and everything else as it was. *)
LEMMA Elsewhere ==
    ASSUME NEW w, NEW q \in Handling(w), NEW place \in Places
    PROVE  LET c == [q EXCEPT !.pc = place] IN
           /\ c \in Handling(w) /\ c.pc = place /\ c.op = q.op /\ c.seen = q.seen /\ c.tx = q.tx
              /\ c.snap = q.snap
           /\ c.outcome = q.outcome
    BY DEF Handling

LEMMA PlacesMove ==
    ASSUME NEW w, RecordInv(w), NEW r \in Vault(w)!Actors,
           Vault(w)!registered(r) \/ Vault(w)!noChallengeNamed(r) \/ Vault(w)!verified(r)
    PROVE  RecordInv(w)'
<1> PICK q : q = opRequest[r]
    OBVIOUS
<1>1. q \in Handling(w) /\ Handled(q) /\ UNCHANGED <<vaultChain, vaultTxs, record, mirror, opCalls>>
    BY HandlingOf DEF Vault!registered, Vault!noChallengeNamed, Vault!verified
<1>2. ASSUME NEW place \in Places, Vault(w)!Goto(r, [q EXCEPT !.pc = place]),
             \/ q.pc = "ensure" /\ place = "write"
             \/ q.pc = "challenge" /\ place = "evaluate"
             \/ /\ q.pc = "verify" /\ Vault(w)!verifyVaultAction(q)
                /\ place = IF q.op = "registerOnchain" THEN q.op ELSE "vault"
      PROVE  RecordInv(w)'
    <2>1. PICK c : c = [q EXCEPT !.pc = place]
        OBVIOUS
    <2>2. c \in Handling(w) /\ c.pc = place /\ c.op = q.op /\ c.seen = q.seen /\ c.tx = q.tx
        BY <1>1, <2>1, Elsewhere
    <2>3. Handled(c)
        BY <1>1, <1>2, <2>2 DEF Handled, Writing, OwnTx, Vault!verifyVaultAction
    <2> QED BY <1>1, <1>2, <2>1, <2>2, <2>3, CallsCounted, HandlingGoesOn
<1>3. q.op = "registerOnchain" => q.op \in Places
    BY DEF Places
<1> QED BY <1>2, <1>3 DEF Vault!registered, Vault!noChallengeNamed, Vault!verified, Places

LEMMA ChallengesClose ==
    ASSUME NEW w, RecordInv(w), NEW r \in Vault(w)!Actors, Vault(w)!updateChallengeStatus(r)
    PROVE  RecordInv(w)'
<1> PICK q : q = opRequest[r]
    OBVIOUS
<1>1. /\ q \in Handling(w) /\ Handled(q) /\ q.pc = "challenge" /\ Vault(w)!Goto(r, [q EXCEPT !.pc = "resolve"])
      /\ mirror' = [mirror EXCEPT !.challenged = FALSE]
         /\ UNCHANGED <<vaultChain, vaultTxs, record, opCalls>>
    BY HandlingOf DEF Vault!updateChallengeStatus
<1>2. PICK c : c = [q EXCEPT !.pc = "resolve"]
    OBVIOUS
<1>3. c \in Handling(w) /\ c.pc = "resolve" /\ c.op = q.op /\ c.seen = q.seen /\ c.tx = q.tx
    <2>1. "resolve" \in Places
        BY DEF Places
    <2> QED BY <1>1, <1>2, <2>1, Elsewhere
<1>4. Handled(c)'
    BY <1>1, <1>3 DEF Handled, Writing, OwnTx, Traced
<1>5. RecordTyped(w)'
    BY <1>1, <1>2, <1>3 DEF RecordInv, RecordTyped, Vault!Goto, MirrorRow
<1>6. Traced(record)' /\ SetterSucceeds'
    BY <1>1 DEF RecordInv, Traced, SetterSucceeds
<1> QED BY <1>1, <1>2, <1>3, <1>4, <1>5, <1>6, TxsSame, HandlingMoves

LEMMA ReadinessEvaluated ==
    ASSUME NEW w, Vault(w)!VaultWorkflowAssumption, RecordInv(w), NEW r \in Vault(w)!Actors,
           Vault(w)!evaluateFinalityReadiness(r)
    PROVE  RecordInv(w)'
<1> PICK q : q = opRequest[r]
    OBVIOUS
<1>1. q \in Handling(w) /\ Handled(q) /\ q.pc = "evaluate"
      /\ UNCHANGED <<vaultChain, vaultTxs, record, mirror, opCalls>>
    BY HandlingOf DEF Vault!evaluateFinalityReadiness
<1>2. CASE Vault(w)!Finish(r)
    BY <1>1, <1>2, CallsCounted, HandlingEnds
<1>3. CASE ~Vault(w)!Finish(r)
    <2>1. Vault(w)!storedOutcome(q.seen) \in Evidences
        BY DEF Vault!storedOutcome, RecordInv, RecordTyped, MirrorRow, Evidences
    <2>2. PICK b, e : /\ b = (q.reopen /\ Vault(w)!storedOutcome(q.seen) = "none")
                      /\ e = IF Vault(w)!storedOutcome(q.seen) = "none" THEN "INVALID" ELSE Vault(w)!storedOutcome(q.seen)
        OBVIOUS
    <2>3. b \in BOOLEAN /\ e \in Finals
        BY <2>1, <2>2 DEF Finals
    <2>4. Vault(w)!Goto(r, [q EXCEPT !.pc = "finalize", !.reopen = b, !.outcome = e])
        BY <1>3, <2>2 DEF Vault!evaluateFinalityReadiness, Vault!Finish
    <2>5. PICK c : c = [q EXCEPT !.pc = "finalize", !.reopen = b, !.outcome = e]
        OBVIOUS
    <2>6. c \in Handling(w) /\ c.pc = "finalize" /\ c.op = q.op /\ c.seen = q.seen /\ c.tx = q.tx
        BY <1>1, <2>3, <2>5 DEF Handling, Places
    <2>7. Handled(c)
        BY <1>1, <2>6 DEF Handled, Writing, OwnTx
    <2> QED BY <1>1, <2>4, <2>5, <2>6, <2>7, CallsCounted, HandlingGoesOn
<1> QED BY <1>2, <1>3
(* Snapshots. *)
LEMMA SnapshotTyped ==
    ASSUME NEW w, NEW v \in ChainRow(w) \cup RecordRow(w)
    PROVE  Vault(w)!Snapshot(v) \in SnapRow(w) /\ Vault(w)!Snapshot(v).status = v.status
    BY DEF Vault!Snapshot, ChainRow, RecordRow, SnapRow, RecordStates

LEMMA SnapshotsRead ==
    ASSUME NEW w, Vault(w)!VaultWorkflowAssumption, RecordInv(w), NEW r \in Vault(w)!Actors,
           Vault(w)!readVault(r) \/ Vault(w)!readCommittees(r)
    PROVE  RecordInv(w)'
<1> PICK q : q = opRequest[r]
    OBVIOUS
<1>1. q \in Handling(w) /\ Handled(q) /\ UNCHANGED <<vaultChain, vaultTxs, record, mirror, opCalls>>
    BY HandlingOf DEF Vault!readVault, Vault!readCommittees
<1>2. q.pc \in {"vault", "committees"} /\ q.seen.ext \in w.vaults /\ vaultChain[q.seen.ext] \in ChainRow(w)
    <2>1. q.pc \in {"vault", "committees"}
        BY DEF Vault!readVault, Vault!readCommittees
    <2>2. q.seen.ext \in w.vaults \cup {0} /\ q.seen.ext # 0
        BY <1>1, <2>1 DEF Handling, RecordRow, Handled, Writing
    <2> QED BY <2>1, <2>2 DEF RecordInv, RecordTyped
<1>3. ASSUME NEW s \in SnapRow(w), NEW place \in Places, Vault(w)!Goto(r, [q EXCEPT !.pc = place, !.snap = s]),
             \/ place = "committees"
             \/ place = IF q.op = "finalizeResolution" THEN "finalized" ELSE q.op
      PROVE  RecordInv(w)'
    <2>1. PICK c : c = [q EXCEPT !.pc = place, !.snap = s]
        OBVIOUS
    <2>2. c \in Handling(w) /\ c.pc = place /\ c.op = q.op /\ c.seen = q.seen /\ c.tx = q.tx
        BY <1>1, <2>1 DEF Handling
    <2>3. Handled(c)
        <3>1. q.op \in {"finalizeResolution", "registerTx", "sync"}
            BY <1>1, <1>2 DEF Handled, Writing
        <3>2. Writing(c)
            BY <1>1, <1>2, <1>3, <2>2, <3>1 DEF Handled, Writing
        <3>3. OwnTx(c)
            BY <1>1, <1>2, <1>3, <2>2, <3>1 DEF Handled, OwnTx
        <3> QED BY <1>1, <2>2, <3>2, <3>3 DEF Handled
    <2> QED BY <1>1, <1>3, <2>1, <2>2, <2>3, CallsCounted, HandlingGoesOn
<1>4. CASE Vault(w)!readVault(r)
    <2>1. PICK s : s = IF q.op = "registerTx" THEN Vault(w)!verifyVaultSnapshot(q.seen.ext)
                       ELSE Vault(w)!readVaultSnapshot(r, q.seen.ext)
        OBVIOUS
    <2>2. Vault(w)!Goto(r, [q EXCEPT !.pc = "committees", !.snap = s])
        BY <1>4, <2>1 DEF Vault!readVault
    <2>3. Vault(w)!Snapshot(vaultChain[q.seen.ext]) \in SnapRow(w) /\ Vault(w)!Snapshot(q.seen) \in SnapRow(w)
        BY <1>1, <1>2, SnapshotTyped DEF Handling
    <2>4. [Vault(w)!Snapshot(Vault(w)!NoVault) EXCEPT !.status = "RuleAuction"] \in SnapRow(w)
        BY NobodyIdles DEF SnapRow, RecordStates, ChainStates
    <2>5. s \in SnapRow(w)
        BY <2>1, <2>3, <2>4 DEF Vault!readVaultSnapshot, Vault!verifyVaultSnapshot
    <2> QED BY <1>3, <2>2, <2>5 DEF Places
<1>5. CASE Vault(w)!readCommittees(r)
    <2>1. CASE Vault(w)!Finish(r)
        BY <1>1, <2>1, CallsCounted, HandlingEnds
    <2>2. CASE ~Vault(w)!Finish(r)
        <3>1. PICK s : s = Vault(w)!CommitteesRead(q.snap, q.seen.ext)
            OBVIOUS
        <3>2. s \in SnapRow(w)
            BY <1>1, <1>2, <3>1 DEF Vault!CommitteesRead, Handling, SnapRow, ChainRow
        <3>3. Vault(w)!Goto(r, [q EXCEPT !.snap = s, !.pc = IF q.op = "finalizeResolution" THEN "finalized" ELSE q.op])
            BY <1>5, <2>2, <3>1 DEF Vault!readCommittees
        <3>4. PICK place : place = IF q.op = "finalizeResolution" THEN "finalized" ELSE q.op
            OBVIOUS
        <3>5. q.op \in {"finalizeResolution", "registerTx", "sync"}
            BY <1>1, <1>2 DEF Handled, Writing
        <3>6. place \in Places
            BY <3>4, <3>5 DEF Places
        <3>7. [q EXCEPT !.snap = s, !.pc = place] = [q EXCEPT !.pc = place, !.snap = s]
            BY <1>1 DEF Handling
        <3> QED BY <1>3, <3>2, <3>3, <3>4, <3>6, <3>7
    <2> QED BY <2>1, <2>2
<1> QED BY <1>4, <1>5

-----------------------------------------------------------------------------
(* Writes. *)
LEMMA WriteFnsAreTyped ==
    ASSUME NEW w, NEW q \in Handling(w), Handled(q), q.pc = "write"
    PROVE  q.op \in WriteFns
    BY DEF Handled, Writing

LEMMA WalletsAreNotSetters ==
    ASSUME NEW w, NEW fn
    PROVE  Vault(w)!walletFor(fn) \in {"operator", "finalizer"}
    BY DEF Vault!walletFor

(* A request sends a transaction and goes on with it. *)
LEMMA WriteSent ==
    ASSUME NEW w, Vault(w)!VaultWorkflowAssumption, RecordInv(w), UNCHANGED <<vaultChain, record, mirror, opCalls>>,
                  Len(vaultTxs) < w.txs, NEW t \in WriteTx(w), vaultTxs' = Append(vaultTxs, t), t.by # "setter",
                  NEW r \in Vault(w)!Actors, NEW q \in Handling(w), Handled(q), NEW place,
                  \/ q.pc = "ensure" /\ place = "receipt" /\ q.seen.ext = 0
                  \/ q.pc = "write" /\ place = "save"
                  \/ q.pc = "finalize" /\ place = "vault",
                  Vault(w)!Goto(r, [q EXCEPT !.pc = place, !.tx = Len(vaultTxs) + 1])
    PROVE  RecordInv(w)'
<1>1. /\ TxsLast /\ Len(vaultTxs') = Len(vaultTxs) + 1 /\ vaultTxs'[Len(vaultTxs) + 1] = t
         /\ Len(vaultTxs) + 1 \in 1 .. w.txs
      /\ w.txs \in Nat
    BY TxSent DEF Vault!VaultWorkflowAssumption
<1>2. PICK k : k = Len(vaultTxs) + 1
    OBVIOUS
<1>3. k \in 0 .. w.txs /\ k # 0 /\ k <= Len(vaultTxs')
    BY <1>1, <1>2, TxsKnown
<1>4. PICK c : c = [q EXCEPT !.pc = place, !.tx = k]
    OBVIOUS
<1>5. c \in Handling(w) /\ c.pc = place /\ c.op = q.op /\ c.seen = q.seen /\ c.tx = k
    BY <1>3, <1>4 DEF Handling, Places
<1>6. Traced(c.seen)'
    <2>1. PICK rec : rec = q.seen /\ Traced(rec)
        BY DEF Handled
    <2>2. Traced(rec)'
        BY <1>1, <2>1, StillTraced
    <2> QED BY <1>5, <2>1, <2>2 DEF Traced
<1>7. Writing(c)
    BY <1>5 DEF Handled, Writing
<1>8. OwnTx(c)'
    <2>1. place = "vault" => q.op = "finalizeResolution"
        BY DEF Handled, Writing
    <2>2. vaultTxs'[c.tx].by # "setter"
        BY <1>1, <1>2, <1>5
    <2> QED BY <1>3, <1>5, <2>1, <2>2 DEF OwnTx
<1> QED BY <1>1, <1>2, <1>4, <1>5, <1>6, <1>7, <1>8, HandlingSends

LEMMA WritesKeep ==
    ASSUME NEW w, Vault(w)!VaultWorkflowAssumption, RecordInv(w), NEW r \in Vault(w)!Actors,
           Vault(w)!requestVault(r) \/ Vault(w)!write(r) \/ Vault(w)!finalizeV2Vault(r)
    PROVE  RecordInv(w)'
<1> PICK q : q = opRequest[r]
    OBVIOUS
<1>1. q \in Handling(w) /\ Handled(q) /\ q.seen.ext \in w.vaults \cup {0}
      /\ UNCHANGED <<vaultChain, record, mirror, opCalls>>
    BY HandlingOf DEF Vault!requestVault, Vault!write, Vault!finalizeV2Vault, RecordRow
<1>2. CASE Vault(w)!requestVault(r)
    <2>1. PICK t : t = [fn |-> "createVaultRequest", by |-> "operator", vault |-> IF w.mock THEN 1 ELSE 0,
                        state |-> IF w.mock THEN "success" ELSE "pending"]
        OBVIOUS
    <2>2. t \in WriteTx(w) /\ t.by # "setter"
        BY <2>1 DEF WriteTx, FactoryFns, WriteFns, Vault!VaultWorkflowAssumption
    <2> QED BY <1>1, <1>2, <2>1, <2>2, WriteSent DEF Vault!requestVault
<1>3. ASSUME NEW fn \in FactoryFns, Vault(w)!send(fn, q.seen.ext, Vault(w)!walletFor(fn)),
             Vault(w)!canWrite(fn, q.seen.ext)
      PROVE  \E t \in WriteTx(w) : t.by # "setter" /\ vaultTxs' = Append(vaultTxs, t) /\ Len(vaultTxs) < w.txs
    <2>1. PICK t : t = [fn |-> fn, vault |-> q.seen.ext, by |-> Vault(w)!walletFor(fn),
                        state |-> IF w.mock THEN "success" ELSE "pending"]
        OBVIOUS
    <2>2. t \in WriteTx(w) /\ t.by # "setter"
        BY <1>1, <2>1, WalletsAreNotSetters DEF WriteTx
    <2> QED BY <1>3, <2>1, <2>2 DEF Vault!send, Vault!canWrite
<1>4. CASE Vault(w)!write(r)
    <2>1. q.pc = "write" /\ Vault(w)!Goto(r, [q EXCEPT !.pc = "save", !.tx = Len(vaultTxs) + 1])
          /\ q.op \in FactoryFns
        BY <1>1, <1>4, WriteFnsAreTyped DEF Vault!write, FactoryFns
    <2>2. PICK t \in WriteTx(w) : t.by # "setter" /\ vaultTxs' = Append(vaultTxs, t) /\ Len(vaultTxs) < w.txs
        BY <1>3, <1>4, <2>1 DEF Vault!write
    <2> QED BY <1>1, <2>1, <2>2, WriteSent
<1>5. CASE Vault(w)!finalizeV2Vault(r)
    <2>1. q.pc = "finalize" /\ Vault(w)!Goto(r, [q EXCEPT !.pc = "vault", !.tx = Len(vaultTxs) + 1])
        BY <1>5 DEF Vault!finalizeV2Vault
    <2>2. PICK t \in WriteTx(w) : t.by # "setter" /\ vaultTxs' = Append(vaultTxs, t) /\ Len(vaultTxs) < w.txs
        BY <1>3, <1>5 DEF Vault!finalizeV2Vault, FactoryFns
    <2> QED BY <1>1, <2>1, <2>2, WriteSent
<1> QED BY <1>2, <1>4, <1>5

LEMMA ChallengesResolve ==
    ASSUME NEW w, Vault(w)!VaultWorkflowAssumption, RecordInv(w), NEW r \in Vault(w)!Actors,
           Vault(w)!resolveChallenge(r)
    PROVE  RecordInv(w)'
<1> PICK q : q = opRequest[r]
    OBVIOUS
<1>1. q \in Handling(w) /\ Handled(q) /\ q.seen \in RecordRow(w) /\ q.pc = "resolve"
      /\ UNCHANGED <<vaultChain, record, mirror, opCalls>> /\ Len(vaultTxs) < w.txs /\ w.txs \in Nat
    BY HandlingOf DEF Vault!resolveChallenge, Vault!canWrite, Vault!VaultWorkflowAssumption
<1>2. PICK t : t = [fn |-> "resolveChallenge", vault |-> q.seen.ext, by |-> Vault(w)!walletFor("resolveChallenge"),
                    state |-> IF w.mock THEN "success" ELSE "pending"]
    OBVIOUS
<1>3. t \in WriteTx(w) /\ t.by # "setter" /\ vaultTxs' = Append(vaultTxs, t)
    BY <1>1, <1>2, WalletsAreNotSetters DEF WriteTx, RecordRow, FactoryFns, Vault!resolveChallenge,
       Vault!send
<1>4. /\ TxsLast /\ Len(vaultTxs') = Len(vaultTxs) + 1 /\ vaultTxs'[Len(vaultTxs) + 1] = t
         /\ Len(vaultTxs) + 1 \in 1 .. w.txs
    BY <1>1, <1>3, TxSent
<1>5. PICK k : k = Len(vaultTxs) + 1
    OBVIOUS
<1>6. k \in 1 .. w.txs /\ k \in 1 .. Len(vaultTxs') /\ vaultTxs'[k] = t
    BY <1>4, <1>5, TxsKnown
<1>7. PICK seen : seen = [q.seen EXCEPT !.traces = q.seen.traces \cup {k}]
    OBVIOUS
<1>8. seen \in RecordRow(w) /\ seen.ext = q.seen.ext /\ seen.traces = q.seen.traces \cup {k}
    BY <1>1, <1>6, <1>7 DEF RecordRow
<1>9. PICK c : c = [q EXCEPT !.pc = "evaluate", !.seen = seen]
    OBVIOUS
<1>10. c \in Handling(w) /\ c.pc = "evaluate" /\ c.op = q.op /\ c.seen = seen /\ c.tx = q.tx
    BY <1>1, <1>8, <1>9 DEF Handling, Places
<1>11. Vault(w)!Goto(r, c)
    <2>1. c = [q EXCEPT !.pc = "evaluate", !.seen.traces = @ \cup {k}]
        BY <1>1, <1>7, <1>9 DEF Handling
    <2> QED BY <1>5, <2>1 DEF Vault!resolveChallenge
<1>12. Traced(c.seen)'
    <2>1. PICK rec : rec = q.seen /\ Traced(rec)
        BY <1>1 DEF Handled
    <2>2. Traced(rec)'
        BY <1>4, <2>1, StillTraced
    <2> QED BY <1>3, <1>6, <1>8, <1>10, <2>1, <2>2 DEF Traced
<1>13. Writing(c) /\ OwnTx(c)'
    <2>1. q.tx \in Nat /\ q.tx <= Len(vaultTxs')
        BY <1>1, <1>4, TxsKnown DEF Handled, OwnTx, Handling
    <2> QED BY <1>1, <1>8, <1>10, <2>1 DEF Handled, Writing, OwnTx
<1> QED BY <1>1, <1>3, <1>10, <1>11, <1>12, <1>13, HandlingSends
-----------------------------------------------------------------------------
(* Saves. *)
LEMMA TracedMore ==
    ASSUME NEW w, NEW seen, NEW rec, NEW k, Traced(seen), rec.ext = seen.ext, k \in 1 .. Len(vaultTxs),
           rec.traces = seen.traces \cup {k},
           vaultTxs[k].by = "setter" => vaultTxs[k].state = "success" /\ vaultTxs[k].vault = rec.ext
    PROVE  Traced(rec)
    BY DEF Traced

(* A request that saves and ends. *)
LEMMA SavedAndAnswered ==
    ASSUME NEW w, Vault(w)!VaultWorkflowAssumption, RecordInv(w),
           UNCHANGED <<vaultChain, vaultTxs, mirror, opCalls>>, NEW rec \in RecordRow(w),
           Vault(w)!saveVault(rec), Traced(rec), NEW r \in Vault(w)!Actors, Vault(w)!Finish(r)
    PROVE  RecordInv(w)'
    BY NobodyIdles, HandlingSaves DEF Vault!Finish, RecordInv

(* Registered: the record gets its id. *)
LEMMA IdGiven ==
    ASSUME NEW w, Vault(w)!VaultWorkflowAssumption, RecordInv(w), NEW seen \in RecordRow(w), Traced(seen),
           NEW k \in 1 .. Len(vaultTxs),
           vaultTxs[k].by = "setter" => vaultTxs[k].state = "success" /\ seen.traces = {},
           vaultTxs[k].by # "setter" => seen.ext = 0
    PROVE  /\ Vault(w)!withId(seen, k) \in RecordRow(w) /\ Traced(Vault(w)!withId(seen, k))
              /\ Vault(w)!withId(seen, k).ext = vaultTxs[k].vault
           /\ Vault(w)!withId(seen, k).traces = seen.traces \cup {k}
              /\ Vault(w)!withId(seen, k).status = seen.status
<1>1. PICK v \in w.vaults \cup {0} : v = vaultTxs[k].vault
    BY TxsKnown DEF WriteTx
<1>2. k \in 1 .. w.txs
    BY TxsKnown DEF Vault!VaultWorkflowAssumption
<1>3. PICK rec : rec = [seen EXCEPT !.ext = v, !.traces = seen.traces \cup {k}]
    OBVIOUS
<1>4. rec \in RecordRow(w) /\ rec.ext = v /\ rec.traces = seen.traces \cup {k} /\ rec.status = seen.status
    BY <1>2, <1>3 DEF RecordRow
<1>5. Traced(rec)
    <2>1. CASE vaultTxs[k].by = "setter"
        BY <1>1, <1>4, <2>1 DEF Traced
    <2>2. CASE vaultTxs[k].by # "setter"
        <3>1. \A j \in seen.traces : j \in 1 .. Len(vaultTxs) /\ vaultTxs[j].by # "setter"
            BY <2>2 DEF Traced, RecordInv, SetterSucceeds
        <3> QED BY <1>4, <2>2, <3>1 DEF Traced
    <2> QED BY <2>1, <2>2
<1>6. Vault(w)!withId(seen, k) = rec
    BY <1>1, <1>3 DEF Vault!withId
<1> QED BY <1>1, <1>4, <1>5, <1>6
LEMMA Registers ==
    ASSUME NEW w, Vault(w)!VaultWorkflowAssumption, RecordInv(w), NEW r \in Vault(w)!Actors,
           Vault(w)!ensureOnchainRegistration(r) \/ Vault(w)!saveRegistered(r)
    PROVE  RecordInv(w)'
<1> PICK q : q = opRequest[r]
    OBVIOUS
<1>1. /\ q \in Handling(w) /\ Handled(q) /\ q.seen \in RecordRow(w) /\ (q.tx # 0 => q.tx \in 1 .. Len(vaultTxs))
      /\ UNCHANGED <<vaultChain, vaultTxs, mirror, opCalls>>
    BY HandlingOf DEF Vault!ensureOnchainRegistration, Vault!saveRegistered
<1>2. CASE Vault(w)!saveRegistered(r)
    <2>1. q.pc = "registerOnchain" /\ q.tx \in 1 .. Len(vaultTxs) /\ vaultTxs[q.tx].state = "success"
        BY <1>1, <1>2 DEF Vault!saveRegistered, Handled, OwnTx
    <2>2. Vault(w)!NoRecord \in RecordRow(w) /\ Traced(Vault(w)!NoRecord) /\ Vault(w)!NoRecord.traces = {}
          /\ Vault(w)!NoRecord.ext = 0
        BY NobodyIdles DEF Vault!NoRecord
    <2>3. PICK new : new = Vault(w)!withId(Vault(w)!NoRecord, q.tx) /\ new \in RecordRow(w) /\ Traced(new)
        BY <2>1, <2>2, IdGiven
    <2>4. PICK rec : rec = [new EXCEPT !.status = "RuleAuction"]
        OBVIOUS
    <2>5. rec \in RecordRow(w) /\ rec.ext = new.ext /\ rec.traces = new.traces
        BY <2>3, <2>4 DEF RecordRow, RecordStates, ChainStates
    <2>6. Traced(rec)
        BY <2>3, <2>5 DEF Traced
    <2>7. Vault(w)!saveVault(rec) /\ Vault(w)!Finish(r)
        BY <1>2, <2>3, <2>4 DEF Vault!saveRegistered
    <2> QED BY <1>1, <2>1, <2>5, <2>6, <2>7, SavedAndAnswered
<1>3. CASE Vault(w)!ensureOnchainRegistration(r)
    <2>1. q.pc = "receipt" /\ q.tx \in 1 .. Len(vaultTxs) /\ vaultTxs[q.tx].by # "setter" /\ q.seen.ext = 0
        BY <1>1, <1>3 DEF Vault!ensureOnchainRegistration, Handled, OwnTx, Writing
    <2>2. Traced(q.seen)
        BY <1>1 DEF Handled
    <2>3. PICK new : new = Vault(w)!withId(q.seen, q.tx) /\ new \in RecordRow(w) /\ Traced(new)
        BY <1>1, <2>1, <2>2, IdGiven
    <2>4. CASE q.op = "createVaultRequest"
        <3>1. PICK rec : rec = [new EXCEPT !.status = "RuleAuction"]
            OBVIOUS
        <3>2. rec \in RecordRow(w) /\ rec.ext = new.ext /\ rec.traces = new.traces
            BY <2>3, <3>1 DEF RecordRow, RecordStates, ChainStates
        <3>3. Traced(rec)
            BY <2>3, <3>2 DEF Traced
        <3>4. Vault(w)!saveVault(rec) /\ Vault(w)!Finish(r)
            BY <1>3, <2>3, <2>4, <3>1 DEF Vault!ensureOnchainRegistration
        <3> QED BY <1>1, <2>1, <3>2, <3>3, <3>4, SavedAndAnswered
    <2>5. CASE q.op # "createVaultRequest"
        <3>1. Vault(w)!saveVault(new) /\ Vault(w)!Goto(r, [q EXCEPT !.pc = "write", !.seen = new])
            BY <1>3, <2>3, <2>5 DEF Vault!ensureOnchainRegistration
        <3>2. PICK c : c = [q EXCEPT !.pc = "write", !.seen = new]
            OBVIOUS
        <3>3. c \in Handling(w) /\ c.pc = "write" /\ c.op = q.op /\ c.seen = new /\ c.tx = q.tx
            BY <1>1, <2>3, <3>2 DEF Handling, Places
        <3>4. Handled(c)
            BY <1>1, <2>1, <2>3, <3>3 DEF Handled, Writing, OwnTx
        <3> QED BY <1>1, <2>3, <3>1, <3>2, <3>3, <3>4, HandlingSaves
    <2> QED BY <2>4, <2>5
<1> QED BY <1>2, <1>3

LEMMA DraftsInserted ==
    ASSUME NEW w, Vault(w)!VaultWorkflowAssumption, RecordInv(w), NEW r \in Vault(w)!Actors,
           Vault(w)!insertDraft(r)
    PROVE  RecordInv(w)'
<1>1. PICK rec : rec = [Vault(w)!NoRecord EXCEPT !.status = "DraftRequest"]
    OBVIOUS
<1>2. rec \in RecordRow(w)
    BY <1>1, NobodyIdles DEF RecordRow, RecordStates
<1>3. rec.traces = {}
    BY <1>1 DEF Vault!NoRecord
<1>4. Traced(rec)
    BY <1>3 DEF Traced
<1> QED BY <1>1, <1>2, <1>4, SavedAndAnswered DEF Vault!insertDraft

(* What is saved after a write. *)
LEMMA NextVaultTyped ==
    ASSUME NEW w, Vault(w)!VaultWorkflowAssumption, NEW q \in Handling(w)
    PROVE  /\ Vault(w)!nextVault(q) \in RecordRow(w) /\ Vault(w)!nextVault(q).ext = q.seen.ext
              /\ Vault(w)!nextVault(q).status # "None"
<1>1. q.seen \in RecordRow(w) /\ q.tx \in 0 .. w.txs
    BY DEF Handling
<1>2. /\ q.seen.ruleRound + 1 \in Nat /\ q.seen.resRound + 1 \in Nat /\ q.seen.rejections + 1 \in Nat
      /\ 0 \in 0 .. w.txs /\ q.seen.rule \in 0 .. w.txs
    BY <1>1 DEF RecordRow, Vault!VaultWorkflowAssumption
<1>3. CASE q.op = "registerRuleCommittee"
    <2>1. PICK n : n = q.seen.ruleRound + 1
        OBVIOUS
    <2>2. Vault(w)!nextVault(q) = [q.seen EXCEPT !.status = "RuleDrafting", !.ruleRound = n, !.rule = q.tx]
        BY <1>3, <2>1 DEF Vault!nextVault
    <2> QED BY <1>1, <1>2, <2>1, <2>2 DEF RecordRow, RecordStates, ChainStates
<1>4. CASE q.op = "registerResolutionCommittee"
    <2>1. PICK n : n = q.seen.resRound + 1
        OBVIOUS
    <2>2. Vault(w)!nextVault(q) = [q.seen EXCEPT !.status = "CommitPhase", !.resRound = n, !.resolution = q.tx]
        BY <1>4, <2>1 DEF Vault!nextVault
    <2> QED BY <1>1, <1>2, <2>1, <2>2 DEF RecordRow, RecordStates, ChainStates
<1>5. CASE q.op \notin {"registerRuleCommittee", "registerResolutionCommittee"}
    <2>1. PICK n : n = q.seen.rejections + 1
        OBVIOUS
    <2>2. PICK s, a : /\ s = IF n >= 2 THEN "Cancelled" ELSE "RuleAuction"
                      /\ a = IF n >= 2 THEN q.seen.rule ELSE 0
        OBVIOUS
    <2>3. s \in RecordStates /\ s # "None" /\ a \in 0 .. w.txs
        BY <1>2, <2>2 DEF RecordStates, ChainStates
    <2>4. \/ Vault(w)!nextVault(q) = [q.seen EXCEPT !.status = "UserRuleReview"]
          \/ Vault(w)!nextVault(q) = [q.seen EXCEPT !.status = "Active"]
          \/ Vault(w)!nextVault(q) = [q.seen EXCEPT !.rejections = n, !.status = s, !.rule = a]
        BY <1>5, <2>1, <2>2 DEF Vault!nextVault, Vault!decided
    <2> QED BY <1>1, <1>2, <2>1, <2>3, <2>4 DEF RecordRow, RecordStates, ChainStates
<1> QED BY <1>3, <1>4, <1>5

LEMMA SnapshotPutIn ==
    ASSUME NEW w, NEW seen \in RecordRow(w), NEW snap \in SnapRow(w)
    PROVE  /\ Vault(w)!withSnapshot(seen, snap) \in RecordRow(w)
              /\ Vault(w)!withSnapshot(seen, snap).ext = seen.ext
           /\ Vault(w)!withSnapshot(seen, snap).traces = seen.traces
              /\ Vault(w)!withSnapshot(seen, snap).status = snap.status
    BY DEF Vault!withSnapshot, RecordRow, SnapRow

(* The saves of a request that ends with its own transaction. *)
LEMMA AnswersSaved ==
    ASSUME NEW w, Vault(w)!VaultWorkflowAssumption, RecordInv(w),
           UNCHANGED <<vaultChain, vaultTxs, mirror, opCalls>>, NEW r \in Vault(w)!Actors,
           NEW rec \in RecordRow(w), rec.ext = opRequest[r].seen.ext,
           Vault(w)!saveVault([rec EXCEPT !.traces = Vault(w)!traced(opRequest[r].seen, opRequest[r].tx)]),
           Vault(w)!Finish(r), opRequest[r].tx # 0,
           LET t == vaultTxs[opRequest[r].tx] IN t.by = "setter" => t.state = "success"
           /\ t.vault = opRequest[r].seen.ext
    PROVE  RecordInv(w)'
<1> PICK q : q = opRequest[r]
    OBVIOUS
<1>1. Handled(q) /\ q.tx \in 1 .. Len(vaultTxs) /\ q.seen \in RecordRow(w) /\ q.tx \in 1 .. w.txs
    BY HandlingOf, TxsKnown DEF Vault!VaultWorkflowAssumption
<1>2. PICK new : new = [rec EXCEPT !.traces = q.seen.traces \cup {q.tx}]
    OBVIOUS
<1>3. new \in RecordRow(w) /\ new.ext = q.seen.ext /\ new.traces = q.seen.traces \cup {q.tx}
    BY <1>1, <1>2 DEF RecordRow
<1>4. Traced(new)
    BY <1>1, <1>3, TracedMore DEF Handled
<1>5. Vault(w)!saveVault(new)
    BY <1>2 DEF Vault!traced
<1> QED BY <1>3, <1>4, <1>5, SavedAndAnswered

LEMMA SavesKeep ==
    ASSUME NEW w, Vault(w)!VaultWorkflowAssumption, RecordInv(w), NEW r \in Vault(w)!Actors,
           Vault(w)!saveWritten(r) \/ Vault(w)!saveVerified(r) \/ Vault(w)!finalized(r) \/ Vault(w)!saveSnapshot(r)
    PROVE  RecordInv(w)'
<1> PICK q : q = opRequest[r]
    OBVIOUS
<1>1. /\ q \in Handling(w) /\ Handled(q) /\ q.seen \in RecordRow(w) /\ q.snap \in SnapRow(w)
         /\ q.outcome \in Finals
      /\ UNCHANGED <<vaultChain, vaultTxs, mirror, opCalls>>
    BY HandlingOf DEF Handling, Vault!saveWritten, Vault!saveVerified, Vault!finalized,
       Vault!saveSnapshot
<1>2. CASE Vault(w)!saveWritten(r)
    <2>1. Vault(w)!nextVault(q) \in RecordRow(w) /\ Vault(w)!nextVault(q).ext = q.seen.ext
        BY <1>1, NextVaultTyped
    <2>2. q.tx # 0 /\ vaultTxs[q.tx].by # "setter"
        BY <1>1, <1>2 DEF Vault!saveWritten, Handled, OwnTx
    <2> QED BY <1>1, <1>2, <2>1, <2>2, AnswersSaved DEF Vault!saveWritten
<1>3. CASE Vault(w)!saveVerified(r)
    <2>1. q.tx # 0 /\ vaultTxs[q.tx].state = "success" /\ vaultTxs[q.tx].vault = q.seen.ext
        BY <1>1, <1>3 DEF Vault!saveVerified, Handled, OwnTx
    <2> QED BY <1>1, <1>3, <2>1, SnapshotPutIn, AnswersSaved DEF Vault!saveVerified
<1>4. CASE Vault(w)!finalized(r)
    <2>1. q.tx # 0 /\ vaultTxs[q.tx].by # "setter"
        BY <1>1, <1>4 DEF Vault!finalized, Handled, OwnTx
    <2>2. PICK n, e : /\ n = IF q.reopen THEN q.snap.resRound ELSE q.seen.resRound
                      /\ e = IF q.reopen /\ q.snap.status = "ResolutionAuction" THEN q.seen.final ELSE q.outcome
        OBVIOUS
    <2>3. n \in Nat /\ e \in Finals
        BY <1>1, <2>2 DEF SnapRow, RecordRow
    <2>4. PICK rec : rec = [q.seen EXCEPT !.status = q.snap.status, !.resolution = q.snap.resolution,
                                          !.resRound = n, !.final = e]
        OBVIOUS
    <2>5. rec \in RecordRow(w) /\ rec.ext = q.seen.ext
        BY <1>1, <2>3, <2>4 DEF RecordRow, SnapRow
    <2>6. Vault(w)!saveVault([rec EXCEPT !.traces = Vault(w)!traced(q.seen, q.tx)])
        <3>1. [rec EXCEPT !.traces = Vault(w)!traced(q.seen, q.tx)] =
                 [q.seen EXCEPT !.status = q.snap.status, !.resolution = q.snap.resolution,
                                !.resRound = n, !.final = e, !.traces = Vault(w)!traced(q.seen, q.tx)]
            BY <2>4
        <3> QED BY <1>4, <2>2, <3>1 DEF Vault!finalized
    <2> QED BY <1>1, <1>4, <2>1, <2>5, <2>6, AnswersSaved DEF Vault!finalized
<1>5. CASE Vault(w)!saveSnapshot(r)
    <2>1. PICK new : new = Vault(w)!withSnapshot(q.seen, q.snap) /\ new \in RecordRow(w) /\ new.ext = q.seen.ext
                     /\ new.traces = q.seen.traces
        BY <1>1, SnapshotPutIn
    <2>2. PICK rec : rec = [new EXCEPT !.rule = q.snap.rule, !.resolution = q.snap.resolution]
        OBVIOUS
    <2>3. rec \in RecordRow(w) /\ rec.ext = q.seen.ext /\ rec.traces = q.seen.traces
        BY <1>1, <2>1, <2>2 DEF RecordRow, SnapRow
    <2>4. Traced(rec)
        BY <1>1, <2>3 DEF Handled, Traced
    <2> QED BY <1>1, <1>5, <2>1, <2>2, <2>3, <2>4, SavedAndAnswered DEF Vault!saveSnapshot, Vault!synced
<1> QED BY <1>2, <1>3, <1>4, <1>5

-----------------------------------------------------------------------------
LEMMA RecordStarts == ASSUME NEW w, Vault(w)!VaultWorkflowAssumption, Vault(w)!Init PROVE RecordInv(w)
<1>1. vaultTxs \in Seq(WriteTx(w)) /\ Len(vaultTxs) = 0 /\ 0 <= w.txs /\ 0 <= w.calls
    BY DEF Vault!Init, Vault!VaultWorkflowAssumption
<1>2. mirror \in MirrorRow
    BY DEF Vault!Init, MirrorRow, Evidences
<1>3. RecordTyped(w)
    BY <1>1, <1>2, NobodyIdles DEF Vault!Init, RecordTyped
<1> QED BY <1>1, <1>3, NobodyIdles DEF RecordInv, Vault!Init, SetterSucceeds

LEMMA RecordStays ==
    ASSUME NEW w, Vault(w)!VaultWorkflowAssumption, RecordInv(w), [Vault(w)!Next]_(Vault(w)!vars)
    PROVE  RecordInv(w)'
<1>1. CASE UNCHANGED Vault(w)!vars
    <2>1. RecordTyped(w)' /\ SetterSucceeds'
        BY <1>1 DEF Vault!vars, RecordInv, RecordTyped, SetterSucceeds
    <2> QED BY <1>1, <2>1, TxsSame, ChainMoves DEF Vault!vars
<1>2. ASSUME NEW k \in DOMAIN vaultTxs, Vault(w)!mine(k) PROVE RecordInv(w)'
    BY <1>2, MiningKeeps
<1>3. ASSUME NEW v \in w.vaults,
             Vault(w)!agentsWork(v) \/ Vault(w)!agentsPost(v) \/ \E fn \in Vault(w)!SetterFns : Vault(w)!setterSends(fn, v)
      PROVE  RecordInv(w)'
    BY <1>3, AgentsKeep, SettersKeep DEF Vault!SetterFns, WriteFns
<1>4. CASE Vault(w)!setterSends("createVaultRequest", 0)
    BY <1>4, SettersKeep DEF WriteFns
<1>5. ASSUME NEW r \in Vault(w)!Actors, Vault(w)!Call(r) \/ Vault(w)!syncOnchainSnapshot(r)
      PROVE  RecordInv(w)'
    BY <1>5, CallsKeep
<1>6. ASSUME NEW r \in Vault(w)!Actors, Vault(w)!Step(r) \/ Vault(w)!fails(r) PROVE RecordInv(w)'
    BY <1>6, PlacesMove, WritesKeep, Registers, DraftsInserted, RequestsEnd, SavesKeep, ChallengesClose,
       ChallengesResolve, ReadinessEvaluated, SnapshotsRead DEF Vault!Step
<1> QED BY <1>1, <1>2, <1>3, <1>4, <1>5, <1>6 DEF Vault!Next, Vault!Actors

(* What is answered was sent. *)
Booked == answered \subseteq 1 .. Len(vaultTxs)

LEMMA BookedMore ==
    ASSUME NEW w, RecordInv(w), Booked, Len(vaultTxs') \in Nat, Len(vaultTxs) <= Len(vaultTxs'),
           \A k \in answered' : k \in answered \/ k \in 1 .. Len(vaultTxs')
    PROVE  Booked'
<1>1. \A k \in 1 .. Len(vaultTxs) : k \in 1 .. Len(vaultTxs')
    BY TxsKnown
<1> QED BY <1>1 DEF Booked

LEMMA BookedSends ==
    ASSUME NEW w, RecordInv(w), Booked, NEW t, vaultTxs' = Append(vaultTxs, t), t \in WriteTx(w),
           answered' \subseteq answered \cup {Len(vaultTxs) + 1}
    PROVE  Booked'
<1>1. Len(vaultTxs') = Len(vaultTxs) + 1 /\ Len(vaultTxs) \in Nat
    BY TxsKnown, AppendProperties
<1> QED BY <1>1, BookedMore

LEMMA BookedSteps ==
    ASSUME NEW w, Vault(w)!VaultWorkflowAssumption, RecordInv(w), Booked, NEW r \in Vault(w)!Actors,
           Vault(w)!Step(r) \/ Vault(w)!fails(r)
    PROVE  Booked'
<1> PICK q : q = opRequest[r]
    OBVIOUS
<1>1. q \in Handling(w) /\ Handled(q) /\ (q.tx # 0 => q.tx \in 1 .. Len(vaultTxs)) /\ q.seen.ext \in w.vaults \cup {0}
    BY HandlingOf DEF RecordRow
<1>2. ASSUME NEW fn \in FactoryFns, Vault(w)!send(fn, q.seen.ext, Vault(w)!walletFor(fn)),
             answered' \subseteq answered \cup {Len(vaultTxs) + 1}
      PROVE  Booked'
    <2>1. PICK t : t = [fn |-> fn, vault |-> q.seen.ext, by |-> Vault(w)!walletFor(fn),
                        state |-> IF w.mock THEN "success" ELSE "pending"]
        OBVIOUS
    <2>2. t \in WriteTx(w) /\ vaultTxs' = Append(vaultTxs, t)
        BY <1>1, <1>2, <2>1, WalletsAreNotSetters DEF WriteTx, Vault!send
    <2> QED BY <1>2, <2>2, BookedSends
<1>3. CASE Vault(w)!write(r)
    <2>1. q.op \in FactoryFns
        BY <1>1, <1>3, WriteFnsAreTyped DEF Vault!write, FactoryFns
    <2> QED BY <1>2, <1>3, <2>1 DEF Vault!write
<1>4. CASE Vault(w)!resolveChallenge(r) \/ Vault(w)!finalizeV2Vault(r)
    BY <1>2, <1>4 DEF Vault!resolveChallenge, Vault!finalizeV2Vault, FactoryFns
<1>5. CASE Vault(w)!requestVault(r)
    <2>1. PICK t : t = [fn |-> "createVaultRequest", by |-> "operator", vault |-> IF w.mock THEN 1 ELSE 0,
                        state |-> IF w.mock THEN "success" ELSE "pending"]
        OBVIOUS
    <2>2. t \in WriteTx(w) /\ vaultTxs' = Append(vaultTxs, t) /\ UNCHANGED answered
        BY <1>5, <2>1 DEF WriteTx, FactoryFns, WriteFns, Vault!VaultWorkflowAssumption, Vault!requestVault
    <2> QED BY <2>2, BookedSends
<1>6. ASSUME UNCHANGED vaultTxs, answered' \subseteq answered \cup {q.tx}, answered' # answered => answered' \subseteq answered \/ q.tx # 0
      PROVE  Booked'
    <2>1. \A k \in answered' : k \in answered \/ k \in 1 .. Len(vaultTxs)
        BY <1>1, <1>6
    <2> QED BY <1>6, <2>1, TxsKnown, BookedMore
<1>7. CASE Vault(w)!ensureOnchainRegistration(r)
    <2>1. q.tx # 0
        BY <1>1, <1>7 DEF Handled, OwnTx, Vault!ensureOnchainRegistration
    <2>2. UNCHANGED vaultTxs /\ answered' = answered \cup {q.tx}
        BY <1>7 DEF Vault!ensureOnchainRegistration
    <2> QED BY <1>6, <2>1, <2>2
<1>8. CASE Vault(w)!verified(r)
    <2>1. q.tx # 0
        BY <1>1, <1>8 DEF Handled, OwnTx, Vault!verified
    <2> QED BY <1>6, <1>8, <2>1 DEF Vault!verified
<1>9. CASE Vault(w)!readCommittees(r)
    <2>1. q.op = "registerTx" => q.tx # 0
        BY <1>1, <1>9 DEF Handled, OwnTx, Vault!readCommittees
    <2>2. UNCHANGED vaultTxs /\ (answered' = answered \/ (q.op = "registerTx" /\ answered' = answered \cup {q.tx}))
        BY <1>9 DEF Vault!readCommittees
    <2> QED BY <1>6, <2>1, <2>2
<1>10. CASE Vault(w)!fails(r) \/ Vault(w)!refused(r) \/ Vault(w)!evaluateFinalityReadiness(r)
    <2>1. UNCHANGED vaultTxs /\ answered' \subseteq answered
        BY <1>10 DEF Vault!fails, Vault!refused, Vault!evaluateFinalityReadiness
    <2> QED BY <1>6, <2>1
<1>11. CASE \/ Vault(w)!registered(r) \/ Vault(w)!insertDraft(r) \/ Vault(w)!saveWritten(r)
            \/ Vault(w)!updateChallengeStatus(r) \/ Vault(w)!noChallengeNamed(r) \/ Vault(w)!finalized(r)
            \/ Vault(w)!notVerified(r) \/ Vault(w)!readVault(r)
            \/ Vault(w)!saveVerified(r) \/ Vault(w)!saveRegistered(r) \/ Vault(w)!saveSnapshot(r)
    <2>1. UNCHANGED <<vaultTxs, answered>>
        BY <1>11 DEF Vault!registered, Vault!insertDraft, Vault!saveWritten, Vault!updateChallengeStatus,
           Vault!noChallengeNamed, Vault!finalized, Vault!notVerified, Vault!readVault, Vault!saveVerified,
           Vault!saveRegistered, Vault!saveSnapshot
    <2> QED BY <1>6, <2>1
<1> QED BY <1>3, <1>4, <1>5, <1>7, <1>8, <1>9, <1>10, <1>11 DEF Vault!Step

(* A call only reads the record. *)
LEMMA CallsOnlyRead ==
    ASSUME NEW w, NEW r, Vault(w)!Call(r) \/ Vault(w)!syncOnchainSnapshot(r)
    PROVE  opRequest[r].pc = "idle" /\ UNCHANGED <<vaultTxs, record, answered>>
    BY DEF Vault!Call, Vault!createDraft, Vault!createVaultRequest, Vault!registerOnchain,
       Vault!registerRuleCommittee, Vault!registerResolutionCommittee, Vault!bootstrapCommittee,
       Vault!finalizeRuleSet, Vault!decideRuleSet, Vault!finalizeResolution, Vault!syncOnchainSnapshot,
       Vault!registerTx, Vault!begin

(* What is not an operation of the API's sends a setter's transaction, or changes the state of one. *)
LEMMA OthersSend ==
    ASSUME NEW w, Vault(w)!VaultWorkflowAssumption, RecordInv(w),
           \/ \E k \in DOMAIN vaultTxs : Vault(w)!mine(k)
           \/ \E v \in w.vaults : \/ Vault(w)!agentsWork(v) \/ Vault(w)!agentsPost(v)
                                 \/ \E fn \in Vault(w)!SetterFns : Vault(w)!setterSends(fn, v)
           \/ Vault(w)!setterSends("createVaultRequest", 0)
    PROVE  /\ UNCHANGED <<record, opRequest, answered>> /\ Len(vaultTxs') \in Nat
           /\ Len(vaultTxs) <= Len(vaultTxs') /\ \A k \in 1 .. Len(vaultTxs) : vaultTxs'[k].fn = vaultTxs[k].fn
<1>1. ASSUME NEW k \in DOMAIN vaultTxs, Vault(w)!mine(k)
      PROVE  /\ UNCHANGED <<record, opRequest, answered>> /\ Len(vaultTxs') \in Nat
             /\ Len(vaultTxs) <= Len(vaultTxs') /\ \A j \in 1 .. Len(vaultTxs) : vaultTxs'[j].fn = vaultTxs[j].fn
    <2>1. PICK t : /\ vaultTxs' = [vaultTxs EXCEPT ![k] = t] /\ t.fn = vaultTxs[k].fn
        <3>1. vaultTxs[k] \in WriteTx(w)
            BY TxsKnown
        <3>2. CASE vaultTxs' = [vaultTxs EXCEPT ![k].state = "reverted"]
            <4>1. PICK t : t = [vaultTxs[k] EXCEPT !.state = "reverted"]
                OBVIOUS
            <4>2. t.fn = vaultTxs[k].fn /\ vaultTxs' = [vaultTxs EXCEPT ![k] = t]
                BY <3>1, <3>2, <4>1 DEF WriteTx
            <4> QED BY <4>2
        <3>3. ASSUME NEW v, vaultTxs' = [vaultTxs EXCEPT ![k].state = Vault(w)!outcomeOf(vaultTxs[k].fn, vaultChain[v]),
                                                       ![k].vault = v]
              PROVE  \E t : vaultTxs' = [vaultTxs EXCEPT ![k] = t] /\ t.fn = vaultTxs[k].fn
            <4>1. PICK s : s = Vault(w)!outcomeOf(vaultTxs[k].fn, vaultChain[v])
                OBVIOUS
            <4>2. PICK t : t = [vaultTxs[k] EXCEPT !.state = s, !.vault = v]
                OBVIOUS
            <4>3. t.fn = vaultTxs[k].fn
                BY <3>1, <4>2 DEF WriteTx
            <4>4. vaultTxs' = [vaultTxs EXCEPT ![k] = t]
                BY <3>1, <3>3, <4>1, <4>2, TxsKnown
            <4> QED BY <4>3, <4>4
        <3> QED BY <1>1, <3>2, <3>3 DEF Vault!mine
    <2>2. Len(vaultTxs') = Len(vaultTxs) /\ \A j \in 1 .. Len(vaultTxs) : vaultTxs'[j].fn = vaultTxs[j].fn
        BY <2>1, TxsKnown
    <2>3. UNCHANGED <<record, opRequest, answered>> /\ Len(vaultTxs) \in Nat
        BY <1>1, TxsKnown DEF Vault!mine
    <2> QED BY <2>2, <2>3
<1>2. ASSUME NEW fn \in WriteFns, NEW v \in w.vaults \cup {0}, Vault(w)!setterSends(fn, v)
      PROVE  /\ UNCHANGED <<record, opRequest, answered>> /\ Len(vaultTxs') \in Nat
             /\ Len(vaultTxs) <= Len(vaultTxs') /\ \A j \in 1 .. Len(vaultTxs) : vaultTxs'[j].fn = vaultTxs[j].fn
    <2>1. PICK t : t = [fn |-> fn, vault |-> v, by |-> "setter", state |-> IF w.mock THEN "success" ELSE "pending"]
        OBVIOUS
    <2>2. t \in WriteTx(w) /\ vaultTxs' = Append(vaultTxs, t) /\ UNCHANGED <<record, opRequest, answered>>
        BY <1>2, <2>1 DEF Vault!setterSends, Vault!send, WriteTx, FactoryFns
    <2>3. /\ Len(vaultTxs') = Len(vaultTxs) + 1 /\ Len(vaultTxs) \in Nat
          /\ \A j \in 1 .. Len(vaultTxs) : vaultTxs'[j] = vaultTxs[j]
        BY <2>2, TxsKnown, AppendProperties
    <2> QED BY <2>2, <2>3
<1>3. ASSUME NEW v, Vault(w)!agentsWork(v) \/ Vault(w)!agentsPost(v)
      PROVE  UNCHANGED <<vaultTxs, record, opRequest, answered>>
    BY <1>3 DEF Vault!agentsWork, Vault!agentsPost
<1>4. ASSUME UNCHANGED <<vaultTxs, record, opRequest, answered>>
      PROVE  /\ UNCHANGED <<record, opRequest, answered>> /\ Len(vaultTxs') \in Nat
             /\ Len(vaultTxs) <= Len(vaultTxs') /\ \A j \in 1 .. Len(vaultTxs) : vaultTxs'[j].fn = vaultTxs[j].fn
    BY <1>4, TxsKnown
<1>5. CASE \E k \in DOMAIN vaultTxs : Vault(w)!mine(k)
    BY <1>1, <1>5
<1>6. CASE \E v \in w.vaults : \E fn \in Vault(w)!SetterFns : Vault(w)!setterSends(fn, v)
    BY <1>2, <1>6 DEF Vault!SetterFns, WriteFns
<1>7. CASE Vault(w)!setterSends("createVaultRequest", 0)
    BY <1>2, <1>7 DEF WriteFns
<1>8. CASE \E v \in w.vaults : Vault(w)!agentsWork(v) \/ Vault(w)!agentsPost(v)
    BY <1>3, <1>4, <1>8
<1> QED BY <1>5, <1>6, <1>7, <1>8

LEMMA BookedStays ==
    ASSUME NEW w, Vault(w)!VaultWorkflowAssumption, RecordInv(w), Booked, [Vault(w)!Next]_(Vault(w)!vars)
    PROVE  Booked'
<1>1. CASE UNCHANGED <<vaultTxs, answered>>
    BY <1>1 DEF Booked
<1>2. CASE \/ \E k \in DOMAIN vaultTxs : Vault(w)!mine(k)
           \/ \E v \in w.vaults : \/ Vault(w)!agentsWork(v) \/ Vault(w)!agentsPost(v)
                                 \/ \E fn \in Vault(w)!SetterFns : Vault(w)!setterSends(fn, v)
           \/ Vault(w)!setterSends("createVaultRequest", 0)
    BY <1>2, OthersSend, BookedMore
<1>3. ASSUME NEW r \in Vault(w)!Actors, Vault(w)!Call(r) \/ Vault(w)!syncOnchainSnapshot(r)
      PROVE  Booked'
    BY <1>1, <1>3, CallsOnlyRead
<1>4. ASSUME NEW r \in Vault(w)!Actors, Vault(w)!Step(r) \/ Vault(w)!fails(r) PROVE Booked'
    BY <1>4, BookedSteps
<1> QED BY <1>1, <1>2, <1>3, <1>4 DEF Vault!Next, Vault!Actors, Vault!vars

(* What such a record shows was accepted. *)
LEMMA RecordVerifies ==
    ASSUME NEW w, RecordInv(w), Booked
    PROVE  Vault(w)!TypeOK /\ Vault(w)!VerifiedTraces
<1>1. Vault(w)!TypeOK
    BY TxsKnown DEF Booked, RecordInv, RecordTyped, Vault!TypeOK, ChainRow, RecordRow, Traced, Finals, Evidences
<1>2. Vault(w)!VerifiedTraces
    BY DEF RecordInv, Traced, Vault!VerifiedTraces
<1> QED BY <1>1, <1>2

(* However requests, the timer, browsers and miners interleave and fail: the traces of a record never show a
   setter's decision that the factory refused or that is about another vault. *)
THEOREM TracesStayVerified ==
    ASSUME NEW w, Vault(w)!VaultWorkflowAssumption
    PROVE  Vault(w)!Spec => [](Vault(w)!TypeOK /\ Vault(w)!VerifiedTraces)
<1> DEFINE good == Vault(w)!TypeOK /\ Vault(w)!VerifiedTraces
<1>1. Vault(w)!Init => RecordInv(w) /\ Booked
    BY RecordStarts DEF Booked, Vault!Init
<1>2. (RecordInv(w) /\ Booked) /\ [Vault(w)!Next]_(Vault(w)!vars) => (RecordInv(w) /\ Booked)'
    BY RecordStays, BookedStays
<1>3. RecordInv(w) /\ Booked => good
    BY RecordVerifies
<1> HIDE DEF good
<1>4. Vault(w)!Spec => []good
    BY <1>1, <1>2, <1>3, PTL DEF Vault!Spec
<1> QED BY <1>4 DEF good

(* One request at a time. *)
OneAtATime(w) == (\A r, o \in Vault(w)!Actors : r = o) /\ "receipt" \notin w.faults

Creates(k) == k \in 1 .. Len(vaultTxs) /\ vaultTxs[k].by = "operator" /\ vaultTxs[k].fn = "createVaultRequest"
Empty(rec) == rec.status = "None" => rec.ext = 0 /\ rec.traces = {}

(* What a request knows is what is stored, and it registers once. *)
Follows(w, q) ==
    /\ q.pc # "idle" => q.seen.ext = record.ext /\ record.traces \subseteq q.seen.traces /\ Empty(q.seen)
    /\ q.pc \in {"ensure", "receipt", "write"} /\ q.op # "createVaultRequest" => q.seen.status # "None"
    /\ q.pc = "ensure" /\ q.op = "createVaultRequest" => q.seen.ext = 0
    /\ q.pc \in {"write", "save"} => q.op # "createVaultRequest"
    /\ q.pc = "insert" => record.status = "None"
    /\ q.pc \in {"committees", "sync", "registerTx", "finalized"} => q.snap.status # "None"
    /\ q.pc = "receipt" => Creates(q.tx)
    /\ q.pc \in {"verify", "registerOnchain"} /\ q.op = "registerOnchain" =>
           q.tx \in 1 .. Len(vaultTxs) /\ vaultTxs[q.tx].fn = "createVaultRequest"
    /\ "registerOnchain" \notin w.ops => q.op # "registerOnchain"

(* The vault of a transaction that succeeded is there. *)
Mined(w, k) ==
    vaultTxs[k].state = "success" =>
        /\ vaultTxs[k].fn = "createVaultRequest" => vaultTxs[k].vault # 0
        /\ w.mock \/ (vaultTxs[k].vault \in w.vaults /\ vaultChain[vaultTxs[k].vault].status # "None")

CreatedOnce(w) ==
    \A k \in 1 .. Len(vaultTxs) : Creates(k) =>
        /\ \A j \in 1 .. Len(vaultTxs) : Creates(j) => j = k
        /\ record.ext # 0 \/ \E r \in Vault(w)!Actors : opRequest[r].pc = "receipt" /\ opRequest[r].tx = k

AloneInv(w) ==
    /\ Empty(record)
    /\ record.ext # 0 => w.mock \/ vaultChain[record.ext].status # "None"
    /\ \A r \in Vault(w)!Actors : Follows(w, opRequest[r])
    /\ \A k \in 1 .. Len(vaultTxs) : Mined(w, k)
    /\ CreatedOnce(w)
-----------------------------------------------------------------------------
LEMMA Only ==
    ASSUME NEW w, OneAtATime(w), RecordInv(w), NEW r \in Vault(w)!Actors, NEW q, Vault(w)!Goto(r, q)
    PROVE  \A o \in Vault(w)!Actors : o = r /\ opRequest'[o] = q
    BY DEF OneAtATime, RecordInv, RecordTyped, Vault!Goto

LEMMA FollowsOf ==
    ASSUME NEW w, AloneInv(w), NEW r \in Vault(w)!Actors
    PROVE  Follows(w, opRequest[r])
    BY DEF AloneInv

LEMMA IdleFollows == ASSUME NEW w PROVE Follows(w, Vault(w)!Idle)
<1>1. Vault(w)!Idle.pc = "idle" /\ Vault(w)!Idle.op = "none"
    BY DEF Vault!Idle
<1> HIDE DEF Vault!Idle
<1> QED BY <1>1 DEF Follows

(* A request goes on, and nothing else moves. *)
LEMMA AloneGoesOn ==
    ASSUME NEW w, OneAtATime(w), RecordInv(w), AloneInv(w),
           UNCHANGED <<vaultChain, vaultTxs, record>>, NEW r \in Vault(w)!Actors, NEW q,
           Vault(w)!Goto(r, q), Follows(w, q),
           opRequest[r].pc = "receipt" => q.pc = "receipt" /\ q.tx = opRequest[r].tx
    PROVE  AloneInv(w)'
<1>1. \A o \in Vault(w)!Actors : o = r /\ opRequest'[o] = q
    BY Only
<1>2. Follows(w, q)' /\ Empty(record)' /\ (\A k \in 1 .. Len(vaultTxs) : Mined(w, k))'
    BY DEF Follows, AloneInv, Empty, Mined, Creates
<1>3. \A o \in Vault(w)!Actors : Follows(w, opRequest[o])'
    BY <1>1, <1>2 DEF Follows, Empty, Creates
<1>4. CreatedOnce(w)'
    <2>1. ASSUME NEW k \in 1 .. Len(vaultTxs), Creates(k), record.ext = 0
          PROVE  q.pc = "receipt" /\ q.tx = k
        <3>1. PICK o \in Vault(w)!Actors : opRequest[o].pc = "receipt" /\ opRequest[o].tx = k
            BY <2>1 DEF AloneInv, CreatedOnce
        <3> QED BY <1>1, <3>1
    <2> QED BY <1>1, <2>1 DEF AloneInv, CreatedOnce, Creates
<1> QED BY <1>2, <1>3, <1>4 DEF AloneInv

LEMMA AloneEnds ==
    ASSUME NEW w, OneAtATime(w), RecordInv(w), AloneInv(w),
           UNCHANGED <<vaultChain, vaultTxs, record>>, NEW r \in Vault(w)!Actors,
           Vault(w)!Finish(r), opRequest[r].pc # "receipt"
    PROVE  AloneInv(w)'
    BY IdleFollows, AloneGoesOn DEF Vault!Finish

(* A request sends. *)
LEMMA AloneSends ==
    ASSUME NEW w, OneAtATime(w), RecordInv(w), AloneInv(w), UNCHANGED <<vaultChain, record>>,
           w.txs \in Nat, Len(vaultTxs) < w.txs, NEW t \in WriteTx(w), vaultTxs' = Append(vaultTxs, t),
           t.by # "setter", t.state = "success" => w.mock /\ (t.fn = "createVaultRequest" => t.vault # 0),
           NEW r \in Vault(w)!Actors, opRequest[r].pc # "receipt", NEW q, Vault(w)!Goto(r, q),
           Follows(w, q)',
           t.fn = "createVaultRequest" => record.ext = 0 /\ q.pc = "receipt" /\ q.tx = Len(vaultTxs) + 1
    PROVE  AloneInv(w)'
<1>1. \A o \in Vault(w)!Actors : o = r /\ opRequest'[o] = q
    BY Only
<1>2. /\ Len(vaultTxs') = Len(vaultTxs) + 1 /\ vaultTxs'[Len(vaultTxs) + 1] = t /\ Len(vaultTxs) \in Nat
      /\ \A k \in 1 .. Len(vaultTxs) : vaultTxs'[k] = vaultTxs[k]
    BY TxSent, TxsKnown
<1>3. PICK n : n = Len(vaultTxs) + 1
    OBVIOUS
<1>4. n \in Nat /\ vaultTxs'[n] = t /\ \A k \in 1 .. Len(vaultTxs') : k = n \/ (k \in 1 .. Len(vaultTxs) /\ k # n /\ vaultTxs'[k] = vaultTxs[k])
    BY <1>2, <1>3
<1>5. \A k \in 1 .. Len(vaultTxs') : Mined(w, k)'
    <2>1. ASSUME NEW k \in 1 .. Len(vaultTxs') PROVE Mined(w, k)'
        <3>1. CASE k = n
            BY <1>4, <3>1 DEF Mined
        <3>2. CASE k # n
            BY <1>4, <3>2 DEF Mined, AloneInv
        <3> QED BY <3>1, <3>2
    <2> QED BY <2>1
<1>6. CreatedOnce(w)'
    <2>1. \A k : Creates(k) => k \in 1 .. Len(vaultTxs) /\ record.ext # 0
        <3>1. ASSUME NEW k \in 1 .. Len(vaultTxs), Creates(k), record.ext = 0 PROVE FALSE
            BY <3>1, <1>1 DEF AloneInv, CreatedOnce
        <3> QED BY <3>1 DEF Creates
    <2>2. \A k : Creates(k)' => k \in 1 .. Len(vaultTxs') /\ (Creates(k) \/ (k = n /\ t.fn = "createVaultRequest"))
        BY <1>4 DEF Creates
    <2>3. CASE t.fn = "createVaultRequest"
        BY <1>1, <1>3, <2>1, <2>2, <2>3 DEF CreatedOnce
    <2>4. CASE t.fn # "createVaultRequest"
        <3>1. \A k : Creates(k)' => Creates(k)
            BY <2>2, <2>4
        <3> QED BY <2>1, <3>1 DEF CreatedOnce, AloneInv
    <2> QED BY <2>3, <2>4
<1>7. \A o \in Vault(w)!Actors : Follows(w, opRequest[o])'
    BY <1>1 DEF Follows, Empty, Creates
<1> QED BY <1>5, <1>6, <1>7 DEF AloneInv, Empty

(* A request saves. *)
LEMMA AloneSaves ==
    ASSUME NEW w, OneAtATime(w), RecordInv(w), AloneInv(w), UNCHANGED <<vaultChain, vaultTxs>>, NEW rec \in RecordRow(w), Vault(w)!saveVault(rec),
                  Empty(rec), rec.ext # 0 => w.mock \/ vaultChain[rec.ext].status # "None",
                  NEW r \in Vault(w)!Actors, rec.ext # 0 \/ (record.ext = 0 /\ opRequest[r].pc # "receipt"),
                  NEW q, Vault(w)!Goto(r, q),
                  \/ q = Vault(w)!Idle
                  \/ /\ q.pc = "write" /\ q.op # "createVaultRequest" /\ q.seen = rec /\ rec.status # "None"
                     /\ "registerOnchain" \notin w.ops => q.op # "registerOnchain"
    PROVE  AloneInv(w)'
<1>1. \A o \in Vault(w)!Actors : o = r /\ opRequest'[o] = q
    BY Only
<1>2. record' \in RecordRow(w) /\ record'.status = rec.status /\ record'.ext = rec.ext
      /\ record'.traces = rec.traces
    BY RecordSaved
<1>3. Follows(w, q)'
    <2>1. CASE q = Vault(w)!Idle
        <3>1. q.pc = "idle" /\ q.op = "none"
            BY <2>1 DEF Vault!Idle
        <3> HIDE DEF Vault!Idle
        <3> QED BY <3>1 DEF Follows
    <2>2. CASE q # Vault(w)!Idle
        BY <1>2, <2>2 DEF Follows, Empty
    <2> QED BY <2>1, <2>2
<1>4. \A o \in Vault(w)!Actors : Follows(w, opRequest[o])'
    BY <1>1, <1>3 DEF Follows, Empty, Creates
<1>5. CreatedOnce(w)'
    <2>1. ASSUME NEW k \in 1 .. Len(vaultTxs), Creates(k), rec.ext = 0 PROVE FALSE
        BY <2>1, <1>1 DEF AloneInv, CreatedOnce
    <2> QED BY <1>2, <2>1 DEF AloneInv, CreatedOnce, Creates
<1>6. (\A k \in 1 .. Len(vaultTxs) : Mined(w, k))'
    BY DEF AloneInv, Mined
<1>7. Empty(record)' /\ (record.ext # 0 => w.mock \/ vaultChain[record.ext].status # "None")'
    BY <1>2 DEF Empty
<1> QED BY <1>4, <1>5, <1>6, <1>7 DEF AloneInv
-----------------------------------------------------------------------------
(* The chain moves. *)
LEMMA AloneStays ==
    ASSUME NEW w, RecordInv(w), AloneInv(w), UNCHANGED <<record, opRequest>>, TxsLast,
                  \A k \in 1 .. Len(vaultTxs) : vaultTxs'[k].fn = vaultTxs[k].fn,
                  \A k \in 1 .. Len(vaultTxs') : Creates(k)' => k \in 1 .. Len(vaultTxs),
                  \A v \in w.vaults : vaultChain[v].status # "None" => vaultChain'[v].status # "None",
                  \A k \in 1 .. Len(vaultTxs') : Mined(w, k)'
    PROVE  AloneInv(w)'
<1>1. \A k \in 1 .. Len(vaultTxs) : k \in 1 .. Len(vaultTxs')
    BY TxsKnown DEF TxsLast
<1>2. \A k \in 1 .. Len(vaultTxs) : Creates(k) <=> Creates(k)'
    BY <1>1 DEF Creates, TxsLast
<1>3. ASSUME NEW o \in Vault(w)!Actors PROVE Follows(w, opRequest[o])'
    <2>1. Follows(w, opRequest[o])
        BY FollowsOf
    <2>2. opRequest[o].pc = "receipt" => Creates(opRequest[o].tx)'
        BY <1>2, <2>1 DEF Follows, Creates
    <2> QED BY <1>1, <2>1, <2>2 DEF Follows, Empty
<1>4. CreatedOnce(w)'
    <2>1. ASSUME NEW k \in 1 .. Len(vaultTxs'), Creates(k)'
          PROVE  Creates(k) /\ k \in 1 .. Len(vaultTxs)
        BY <1>2, <2>1
    <2> QED BY <2>1 DEF AloneInv, CreatedOnce
<1>5. (record.ext # 0 => w.mock \/ vaultChain[record.ext].status # "None")'
    BY DEF AloneInv, RecordInv, RecordTyped, RecordRow
<1> QED BY <1>3, <1>4, <1>5 DEF AloneInv, Empty

LEMMA EffectThere ==
    ASSUME NEW w, Vault(w)!VaultWorkflowAssumption, NEW c \in ChainRow(w), NEW fn \in FactoryFns,
           NEW k \in 0 .. w.txs, c.status # "None" \/ fn = "createVaultRequest"
    PROVE  Vault(w)!effect(c, fn, k).status # "None"
<1> USE DEF ChainRow
<1>1. CASE fn = "createVaultRequest"
    BY <1>1 DEF Vault!effect
<1>2. CASE fn = "registerRuleCommittee"
    <2>1. PICK n : Vault(w)!effect(c, fn, k) = [c EXCEPT !.status = "RuleDrafting", !.ruleRound = n, !.rule = k]
        BY <1>2 DEF Vault!effect
    <2> QED BY <2>1
<1>3. CASE fn = "finalizeRuleSet"
    BY <1>3 DEF Vault!effect
<1>4. CASE fn = "acceptRuleSetAndFund"
    BY <1>4 DEF Vault!effect
<1>5. CASE fn = "rejectRuleSet"
    <2>1. PICK s, n : /\ Vault(w)!effect(c, fn, k) = [c EXCEPT !.rejections = n, !.rule = 0, !.status = s]
                      /\ s \in {"Cancelled", "RuleAuction"}
        BY <1>5 DEF Vault!effect
    <2> QED BY <2>1
<1>6. CASE fn = "registerResolutionCommittee"
    <2>1. PICK n : Vault(w)!effect(c, fn, k) = [c EXCEPT !.status = "CommitPhase", !.resRound = n, !.resolution = k,
                                                         !.evidence = "none"]
        BY <1>6 DEF Vault!effect
    <2> QED BY <2>1
<1>7. CASE fn = "resolveChallenge"
    BY <1>7 DEF Vault!effect
<1>8. CASE fn = "finalizeV2Vault"
    <2>1. PICK s : s = IF Vault(w)!reopens(c)
                       THEN "ResolutionAuction" ELSE Vault(w)!Outcome(c.evidence)
        OBVIOUS
    <2>2. s # "None"
        BY <2>1 DEF Vault!Outcome
    <2>3. Vault(w)!effect(c, fn, k) = [c EXCEPT !.resolution = 0, !.status = s]
        BY <1>8, <2>1 DEF Vault!effect
    <2> QED BY <2>2, <2>3
<1> QED BY <1>1, <1>2, <1>3, <1>4, <1>5, <1>6, <1>7, <1>8 DEF FactoryFns, WriteFns

LEMMA AcceptedIsThere ==
    ASSUME NEW w, NEW fn \in FactoryFns, NEW v, Vault(w)!accepts(fn, v)
    PROVE  v \in w.vaults /\ (vaultChain[v].status # "None" \/ fn = "createVaultRequest")
    BY DEF Vault!accepts, Vault!Needs, FactoryFns, WriteFns

LEMMA AloneMines ==
    ASSUME NEW w, Vault(w)!VaultWorkflowAssumption, RecordInv(w), AloneInv(w), NEW k \in DOMAIN vaultTxs,
           Vault(w)!mine(k)
    PROVE  AloneInv(w)'
<1>1. /\ k \in 1 .. Len(vaultTxs) /\ vaultTxs[k] \in WriteTx(w) /\ vaultTxs[k].state = "pending"
         /\ k \in 0 .. w.txs
      /\ UNCHANGED <<record, opRequest>> /\ vaultTxs \in Seq(WriteTx(w))
         /\ vaultTxs[k].fn \in FactoryFns
    <2>1. k \in 1 .. Len(vaultTxs) /\ vaultTxs[k] \in WriteTx(w) /\ vaultTxs \in Seq(WriteTx(w))
        BY TxsKnown
    <2>2. k \in 0 .. w.txs
        BY <2>1, TxsKnown DEF Vault!VaultWorkflowAssumption
    <2>3. vaultTxs[k].fn \in FactoryFns
        BY <2>1 DEF WriteTx
    <2> QED BY <2>1, <2>2, <2>3 DEF Vault!mine
<1>2. ASSUME NEW t \in WriteTx(w), vaultTxs' = [vaultTxs EXCEPT ![k] = t], t.by = vaultTxs[k].by, t.fn = vaultTxs[k].fn,
             \A v \in w.vaults : vaultChain[v].status # "None" => vaultChain'[v].status # "None",
             t.state = "success" => t.vault # 0 /\ t.vault \in w.vaults /\ vaultChain'[t.vault].status # "None"
      PROVE  AloneInv(w)'
    <2>1. /\ Len(vaultTxs') = Len(vaultTxs) /\ Len(vaultTxs) \in Nat
          /\ \A j \in 1 .. Len(vaultTxs) : vaultTxs'[j] = IF j = k THEN t ELSE vaultTxs[j]
        BY <1>1, <1>2, TxsKnown
    <2>2. TxsLast
        BY <1>1, <1>2, <2>1 DEF TxsLast
    <2>3. \A j \in 1 .. Len(vaultTxs) : vaultTxs'[j].fn = vaultTxs[j].fn
        BY <1>2, <2>1
    <2>4. ASSUME NEW j \in 1 .. Len(vaultTxs') PROVE Mined(w, j)'
        <3>1. CASE j = k
            BY <1>1, <1>2, <2>1, <3>1 DEF Mined
        <3>2. CASE j # k
            <4>1. vaultTxs'[j] = vaultTxs[j] /\ Mined(w, j)
                BY <2>1, <3>2 DEF AloneInv
            <4> QED BY <1>2, <4>1 DEF Mined
        <3> QED BY <3>1, <3>2
    <2>5. \A j \in 1 .. Len(vaultTxs') : Creates(j)' => j \in 1 .. Len(vaultTxs)
        BY <2>1
    <2> QED BY <1>1, <1>2, <2>2, <2>3, <2>4, <2>5, AloneStays
<1>3. CASE vaultTxs' = [vaultTxs EXCEPT ![k].state = "reverted"] /\ UNCHANGED vaultChain
    <2>1. PICK t : t = [vaultTxs[k] EXCEPT !.state = "reverted"]
        OBVIOUS
    <2>2. t \in WriteTx(w) /\ t.by = vaultTxs[k].by /\ t.fn = vaultTxs[k].fn /\ t.state = "reverted"
        BY <1>1, <2>1 DEF WriteTx
    <2>3. vaultTxs' = [vaultTxs EXCEPT ![k] = t]
        BY <1>3, <2>1
    <2> QED BY <1>2, <1>3, <2>2, <2>3
<1>4. ASSUME NEW v, Vault(w)!accepts(vaultTxs[k].fn, v),
             vaultChain' = [vaultChain EXCEPT ![v] = Vault(w)!effect(vaultChain[v], vaultTxs[k].fn, k)],
             vaultTxs' = [vaultTxs EXCEPT ![k].state = Vault(w)!outcomeOf(vaultTxs[k].fn, vaultChain[v]),
                                          ![k].vault = v]
      PROVE  AloneInv(w)'
    <2>1. v \in w.vaults /\ v # 0 /\ (vaultChain[v].status # "None" \/ vaultTxs[k].fn = "createVaultRequest")
        BY <1>1, <1>4, AcceptedIsThere DEF Vault!VaultWorkflowAssumption
    <2>0. PICK s \in {"success", "reopened"} : s = Vault(w)!outcomeOf(vaultTxs[k].fn, vaultChain[v])
        BY DEF Vault!outcomeOf
    <2>2. PICK t : t = [vaultTxs[k] EXCEPT !.state = s, !.vault = v]
        OBVIOUS
    <2>3. t \in WriteTx(w) /\ t.by = vaultTxs[k].by /\ t.fn = vaultTxs[k].fn /\ t.vault = v
        BY <1>1, <2>1, <2>2 DEF WriteTx
    <2>4. vaultTxs' = [vaultTxs EXCEPT ![k] = t]
        BY <1>1, <1>4, <2>0, <2>2, TxsKnown
    <2>5. vaultChain \in [w.vaults -> ChainRow(w)]
        BY DEF RecordInv, RecordTyped
    <2>6. Vault(w)!effect(vaultChain[v], vaultTxs[k].fn, k).status # "None"
        BY <1>1, <2>1, <2>5, EffectThere
    <2>7. \A u \in w.vaults : vaultChain'[u].status = IF u = v THEN Vault(w)!effect(vaultChain[v], vaultTxs[k].fn, k).status ELSE vaultChain[u].status
        BY <1>4, <2>1, <2>5
    <2> QED BY <1>2, <2>1, <2>3, <2>4, <2>6, <2>7
<1> QED BY <1>3, <1>4 DEF Vault!mine

LEMMA AloneSettersSend ==
    ASSUME NEW w, Vault(w)!VaultWorkflowAssumption, RecordInv(w), AloneInv(w), NEW fn \in WriteFns,
           NEW v \in w.vaults \cup {0}, Vault(w)!setterSends(fn, v)
    PROVE  AloneInv(w)'
<1>1. PICK t : t = [fn |-> fn, vault |-> v, by |-> "setter", state |-> IF w.mock THEN "success" ELSE "pending"]
    OBVIOUS
<1>2. t \in WriteTx(w) /\ t.by = "setter" /\ t.state = "pending" /\ vaultTxs' = Append(vaultTxs, t)
      /\ Len(vaultTxs) < w.txs
      /\ w.txs \in Nat /\ UNCHANGED <<vaultChain, record, opRequest>>
    BY <1>1 DEF Vault!setterSends, Vault!send, WriteTx, FactoryFns, Vault!VaultWorkflowAssumption
<1>3. /\ TxsLast /\ Len(vaultTxs') = Len(vaultTxs) + 1 /\ vaultTxs'[Len(vaultTxs) + 1] = t
         /\ Len(vaultTxs) \in Nat
      /\ \A k \in 1 .. Len(vaultTxs) : vaultTxs'[k] = vaultTxs[k]
    BY <1>2, TxSent, TxsKnown
<1>4. \A k \in 1 .. Len(vaultTxs') : vaultTxs'[k] = t \/ (k \in 1 .. Len(vaultTxs) /\ vaultTxs'[k] = vaultTxs[k])
    BY <1>3
<1>5. ASSUME NEW k \in 1 .. Len(vaultTxs') PROVE Mined(w, k)' /\ (Creates(k)' => k \in 1 .. Len(vaultTxs))
    <2>1. CASE vaultTxs'[k] = t
        BY <1>2, <2>1 DEF Mined, Creates
    <2>2. CASE k \in 1 .. Len(vaultTxs) /\ vaultTxs'[k] = vaultTxs[k]
        BY <1>2, <2>2 DEF Mined, AloneInv
    <2> QED BY <1>4, <2>1, <2>2
<1> QED BY <1>2, <1>3, <1>5, AloneStays

LEMMA AloneAgentsWork ==
    ASSUME NEW w, RecordInv(w), AloneInv(w), NEW v \in w.vaults,
           Vault(w)!agentsWork(v) \/ Vault(w)!agentsPost(v)
    PROVE  AloneInv(w)'
<1>1. UNCHANGED <<vaultTxs, record, opRequest>> /\ vaultChain \in [w.vaults -> ChainRow(w)]
    BY DEF Vault!agentsWork, Vault!agentsPost, RecordInv, RecordTyped
<1>2. \A u \in w.vaults : vaultChain'[u].status = vaultChain[u].status
    <2>1. CASE Vault(w)!agentsWork(v)
        <3>1. PICK e \in {"TRUE", "FALSE"}, b \in BOOLEAN :
                 vaultChain' = [vaultChain EXCEPT ![v] = [vaultChain[v] EXCEPT !.evidence = e, !.challenged = b]]
            BY <1>1, <2>1 DEF Vault!agentsWork
        <3>2. [vaultChain[v] EXCEPT !.evidence = e, !.challenged = b].status = vaultChain[v].status
            BY <1>1 DEF ChainRow
        <3> QED BY <1>1, <3>1, <3>2
    <2>2. CASE Vault(w)!agentsPost(v)
        BY <2>2 DEF Vault!agentsPost
    <2> QED BY <2>1, <2>2
<1>3. \A k \in 1 .. Len(vaultTxs') : Mined(w, k)'
    BY <1>1, <1>2 DEF Mined, AloneInv
<1> QED BY <1>1, <1>2, <1>3, TxsSame, AloneStays
-----------------------------------------------------------------------------
(* Calls. *)
LEMMA AloneBegins ==
    ASSUME NEW w, OneAtATime(w), RecordInv(w), AloneInv(w), NEW r \in Vault(w)!Actors, NEW op, NEW q,
           Follows(w, q), Vault(w)!begin(r, op, q)
    PROVE  AloneInv(w)'
    BY AloneGoesOn DEF Vault!begin

LEMMA AloneStarts ==
    ASSUME NEW w, Vault(w)!VaultWorkflowAssumption, OneAtATime(w), RecordInv(w), AloneInv(w), NEW r \in Vault(w)!Actors,
                  NEW op \in CallOps, NEW place \in Places, NEW called, Vault(w)!begin(r, called, Vault(w)!Start(op, place)),
                  \/ op = "createDraft" /\ place = "insert" /\ record.status = "None"
                  \/ op = "createVaultRequest" /\ place = "ensure" /\ record.status = "None"
                  \/ /\ op \in {"registerRuleCommittee", "registerResolutionCommittee"}
                     /\ place = "ensure" /\ record.status # "None"
                  \/ op \in {"finalizeRuleSet", "acceptRuleSetAndFund", "rejectRuleSet"} /\ place = "write"
                     /\ record.ext # 0
                  \/ place = "vault" /\ op = "sync"
    PROVE  AloneInv(w)'
<1>1. PICK q : q = Vault(w)!Start(op, place)
    OBVIOUS
<1>2. q \in Handling(w) /\ q.op = op /\ q.pc = place /\ q.seen = record
    BY <1>1, Started
<1>3. Empty(record)
    BY DEF AloneInv
<1>4. Follows(w, q)
    BY <1>2, <1>3 DEF Follows, Empty
<1> QED BY <1>1, <1>2, <1>4, AloneBegins

LEMMA AloneVerifies ==
    ASSUME NEW w, Vault(w)!VaultWorkflowAssumption, OneAtATime(w), RecordInv(w), AloneInv(w),
           NEW r \in Vault(w)!Actors, NEW op \in {"registerOnchain", "registerTx"},
           NEW k \in DOMAIN vaultTxs,
           Vault(w)!begin(r, op, [Vault(w)!Start(op, "verify") EXCEPT !.tx = k]),
           op = "registerOnchain" => vaultTxs[k].fn = "createVaultRequest"
    PROVE  AloneInv(w)'
<1>1. PICK s : s = Vault(w)!Start(op, "verify")
    OBVIOUS
<1>2. PICK q : q = [s EXCEPT !.tx = k]
    OBVIOUS
<1>3. s \in Handling(w) /\ s.op = op /\ s.pc = "verify" /\ s.seen = record
    BY <1>1, Started DEF CallOps, Places
<1>4. q.op = op /\ q.pc = "verify" /\ q.seen = record /\ q.tx = k /\ k \in 1 .. Len(vaultTxs)
    BY <1>2, <1>3, TxsKnown DEF Handling
<1>5. Follows(w, q)
    BY <1>4 DEF Follows, AloneInv, Vault!begin
<1> QED BY <1>1, <1>2, <1>5, AloneBegins

LEMMA AloneFinalizes ==
    ASSUME NEW w, Vault(w)!VaultWorkflowAssumption, OneAtATime(w), RecordInv(w), AloneInv(w),
           NEW r \in Vault(w)!Actors, Vault(w)!finalizeResolution(r)
    PROVE  AloneInv(w)'
<1>1. PICK b \in BOOLEAN :
         Vault(w)!begin(r, "finalizeResolution", [Vault(w)!Start("finalizeResolution", "challenge") EXCEPT !.reopen = b])
    BY DEF Vault!finalizeResolution
<1>2. PICK s : s = Vault(w)!Start("finalizeResolution", "challenge")
    OBVIOUS
<1>3. PICK q : q = [s EXCEPT !.reopen = b]
    OBVIOUS
<1>4. s \in Handling(w) /\ s.op = "finalizeResolution" /\ s.pc = "challenge" /\ s.seen = record
    BY <1>2, Started DEF CallOps, Places
<1>5. q.op = "finalizeResolution" /\ q.pc = "challenge" /\ q.seen = record
    BY <1>3, <1>4 DEF Handling
<1>6. Follows(w, q)
    BY <1>5 DEF Follows, AloneInv
<1> QED BY <1>1, <1>2, <1>3, <1>6, AloneBegins

LEMMA AloneCalls ==
    ASSUME NEW w, Vault(w)!VaultWorkflowAssumption, OneAtATime(w), RecordInv(w), AloneInv(w),
           NEW r \in Vault(w)!Actors, Vault(w)!Call(r) \/ Vault(w)!syncOnchainSnapshot(r)
    PROVE  AloneInv(w)'
<1> USE DEF CallOps, Places, WriteFns
<1>1. CASE Vault(w)!createDraft(r)
    BY <1>1, AloneStarts DEF Vault!createDraft
<1>2. CASE Vault(w)!createVaultRequest(r)
    BY <1>2, AloneStarts DEF Vault!createVaultRequest
<1>3. CASE Vault(w)!registerOnchain(r)
    BY <1>3, AloneVerifies DEF Vault!registerOnchain
<1>4. CASE Vault(w)!registerRuleCommittee(r)
    BY <1>4, AloneStarts DEF Vault!registerRuleCommittee
<1>5. CASE Vault(w)!registerResolutionCommittee(r)
    BY <1>5, AloneStarts DEF Vault!registerResolutionCommittee
<1>6. CASE Vault(w)!bootstrapCommittee(r)
    BY <1>6, AloneStarts DEF Vault!bootstrapCommittee
<1>7. CASE Vault(w)!finalizeRuleSet(r)
    BY <1>7, AloneStarts DEF Vault!finalizeRuleSet
<1>8. CASE Vault(w)!decideRuleSet(r)
    BY <1>8, AloneStarts DEF Vault!decideRuleSet
<1>9. CASE Vault(w)!finalizeResolution(r)
    BY <1>9, AloneFinalizes
<1>10. CASE Vault(w)!syncOnchainSnapshot(r)
    BY <1>10, AloneStarts DEF Vault!syncOnchainSnapshot
<1>11. CASE Vault(w)!registerTx(r)
    BY <1>11, AloneVerifies DEF Vault!registerTx
<1> QED BY <1>1, <1>2, <1>3, <1>4, <1>5, <1>6, <1>7, <1>8, <1>9, <1>10, <1>11 DEF Vault!Call

-----------------------------------------------------------------------------
(* Steps that neither send nor save. *)
LEMMA AloneRequestsEnd ==
    ASSUME NEW w, OneAtATime(w), RecordInv(w), AloneInv(w), NEW r \in Vault(w)!Actors,
           Vault(w)!refused(r) \/ Vault(w)!notVerified(r) \/ Vault(w)!fails(r)
    PROVE  AloneInv(w)'
<1>1. UNCHANGED <<vaultChain, vaultTxs, record>> /\ Vault(w)!Finish(r) /\ opRequest[r].pc # "receipt"
    BY DEF Vault!refused, Vault!notVerified, Vault!fails, OneAtATime
<1> QED BY <1>1, AloneEnds

LEMMA AlonePlacesMove ==
    ASSUME NEW w, OneAtATime(w), RecordInv(w), AloneInv(w), NEW r \in Vault(w)!Actors,
           Vault(w)!registered(r) \/ Vault(w)!noChallengeNamed(r) \/ Vault(w)!verified(r) \/ Vault(w)!updateChallengeStatus(r)
    PROVE  AloneInv(w)'
<1> PICK q : q = opRequest[r]
    OBVIOUS
<1>1. q \in Handling(w) /\ Handled(q) /\ Follows(w, q) /\ UNCHANGED <<vaultChain, vaultTxs, record>>
    BY HandlingOf, FollowsOf DEF Vault!registered, Vault!noChallengeNamed, Vault!verified,
       Vault!updateChallengeStatus
<1>2. ASSUME NEW place \in Places, Vault(w)!Goto(r, [q EXCEPT !.pc = place]),
             \/ q.pc = "ensure" /\ place = "write" /\ q.seen.ext # 0
             \/ q.pc = "challenge" /\ place \in {"evaluate", "resolve"}
             \/ q.pc = "verify" /\ place \in {"registerOnchain", "vault"}
      PROVE  AloneInv(w)'
    <2>1. PICK c : c = [q EXCEPT !.pc = place]
        OBVIOUS
    <2>2. c.pc = place /\ c.op = q.op /\ c.seen = q.seen /\ c.tx = q.tx
        BY <1>1, <2>1, Elsewhere
    <2>3. Follows(w, c)
        BY <1>1, <1>2, <2>2 DEF Follows
    <2> QED BY <1>1, <1>2, <2>1, <2>3, AloneGoesOn
<1>3. CASE Vault(w)!verified(r)
    <2>1. PICK place : place = IF q.op = "registerOnchain" THEN q.op ELSE "vault"
        OBVIOUS
    <2>2. place \in Places /\ place \in {"registerOnchain", "vault"}
        BY <2>1 DEF Places
    <2> QED BY <1>2, <1>3, <2>1, <2>2 DEF Vault!verified
<1> QED BY <1>2, <1>3 DEF Vault!registered, Vault!noChallengeNamed, Vault!updateChallengeStatus, Places

LEMMA AloneEvaluates ==
    ASSUME NEW w, Vault(w)!VaultWorkflowAssumption, OneAtATime(w), RecordInv(w), AloneInv(w),
           NEW r \in Vault(w)!Actors, Vault(w)!evaluateFinalityReadiness(r)
    PROVE  AloneInv(w)'
<1> PICK q : q = opRequest[r]
    OBVIOUS
<1>1. q \in Handling(w) /\ Follows(w, q) /\ q.pc = "evaluate"
      /\ UNCHANGED <<vaultChain, vaultTxs, record>>
    BY HandlingOf, FollowsOf DEF Vault!evaluateFinalityReadiness
<1>2. CASE Vault(w)!Finish(r)
    BY <1>1, <1>2, AloneEnds
<1>3. CASE ~Vault(w)!Finish(r)
    <2>1. PICK b, e : /\ b = (q.reopen /\ Vault(w)!storedOutcome(q.seen) = "none")
                      /\ e = IF Vault(w)!storedOutcome(q.seen) = "none" THEN "INVALID" ELSE Vault(w)!storedOutcome(q.seen)
        OBVIOUS
    <2>2. Vault(w)!Goto(r, [q EXCEPT !.pc = "finalize", !.reopen = b, !.outcome = e])
        BY <1>3, <2>1 DEF Vault!evaluateFinalityReadiness, Vault!Finish
    <2>3. PICK c : c = [q EXCEPT !.pc = "finalize", !.reopen = b, !.outcome = e]
        OBVIOUS
    <2>4. c.pc = "finalize" /\ c.op = q.op /\ c.seen = q.seen
        BY <1>1, <2>3 DEF Handling
    <2>5. Follows(w, c)
        BY <1>1, <2>4 DEF Follows
    <2> QED BY <1>1, <2>2, <2>3, <2>5, AloneGoesOn
<1> QED BY <1>2, <1>3

LEMMA AloneReads ==
    ASSUME NEW w, Vault(w)!VaultWorkflowAssumption, OneAtATime(w), RecordInv(w), AloneInv(w),
           NEW r \in Vault(w)!Actors, Vault(w)!readVault(r) \/ Vault(w)!readCommittees(r)
    PROVE  AloneInv(w)'
<1> PICK q : q = opRequest[r]
    OBVIOUS
<1>1. q \in Handling(w) /\ Handled(q) /\ Follows(w, q) /\ UNCHANGED <<vaultChain, vaultTxs, record>>
      /\ q.seen \in RecordRow(w)
    BY HandlingOf, FollowsOf DEF Vault!readVault, Vault!readCommittees
<1>2. q.pc \in {"vault", "committees"} /\ q.seen.ext \in w.vaults /\ vaultChain[q.seen.ext] \in ChainRow(w)
      /\ q.op \in {"finalizeResolution", "registerTx", "sync"}
    <2>1. q.pc \in {"vault", "committees"}
        BY DEF Vault!readVault, Vault!readCommittees
    <2>2. q.seen.ext \in w.vaults \cup {0} /\ q.seen.ext # 0
        BY <1>1, <2>1 DEF RecordRow, Handled, Writing
    <2> QED BY <1>1, <2>1, <2>2 DEF RecordInv, RecordTyped, Handled, Writing
<1>3. q.seen.ext = record.ext /\ q.seen.status # "None" /\ (w.mock \/ vaultChain[q.seen.ext].status # "None")
    <2>1. q.seen.ext = record.ext /\ q.seen.ext # 0
        BY <1>1, <1>2 DEF Follows, Vault!VaultWorkflowAssumption
    <2> QED BY <1>1, <1>2, <2>1 DEF Follows, Empty, AloneInv
<1>4. ASSUME NEW s, s.status # "None", NEW place, Vault(w)!Goto(r, [q EXCEPT !.pc = place, !.snap = s]),
             \/ place = "committees"
             \/ place = IF q.op = "finalizeResolution" THEN "finalized" ELSE q.op
      PROVE  AloneInv(w)'
    <2>1. PICK c : c = [q EXCEPT !.pc = place, !.snap = s]
        OBVIOUS
    <2>2. c.pc = place /\ c.op = q.op /\ c.seen = q.seen /\ c.tx = q.tx /\ c.snap = s
        BY <1>1, <2>1 DEF Handling
    <2>3. Follows(w, c)
        BY <1>1, <1>2, <1>4, <2>2 DEF Follows
    <2> QED BY <1>1, <1>2, <1>4, <2>1, <2>3, AloneGoesOn
<1>5. CASE Vault(w)!readVault(r)
    <2>1. PICK s : s = IF q.op = "registerTx" THEN Vault(w)!verifyVaultSnapshot(q.seen.ext)
                       ELSE Vault(w)!readVaultSnapshot(r, q.seen.ext)
        OBVIOUS
    <2>2. Vault(w)!Goto(r, [q EXCEPT !.pc = "committees", !.snap = s])
        BY <1>5, <2>1 DEF Vault!readVault
    <2>3. Vault(w)!Snapshot(vaultChain[q.seen.ext]).status = vaultChain[q.seen.ext].status
          /\ Vault(w)!Snapshot(q.seen).status = q.seen.status
        BY <1>1, <1>2, SnapshotTyped
    <2>4. [Vault(w)!Snapshot(Vault(w)!NoVault) EXCEPT !.status = "RuleAuction"].status = "RuleAuction"
        BY NobodyIdles DEF SnapRow
    <2>5. s.status # "None"
        BY <1>3, <2>1, <2>3, <2>4 DEF Vault!readVaultSnapshot, Vault!verifyVaultSnapshot
    <2> QED BY <1>4, <2>2, <2>5
<1>6. CASE Vault(w)!readCommittees(r)
    <2>1. CASE Vault(w)!Finish(r)
        BY <1>1, <1>2, <2>1, AloneEnds
    <2>2. CASE ~Vault(w)!Finish(r)
        <3>1. PICK s : s = Vault(w)!CommitteesRead(q.snap, q.seen.ext)
            OBVIOUS
        <3>2. q.pc = "committees" /\ q.snap \in SnapRow(w)
            BY <1>1, <1>6 DEF Vault!readCommittees, Handling
        <3>3. s.status # "None"
            BY <1>1, <3>1, <3>2 DEF Vault!CommitteesRead, SnapRow, Follows
        <3>4. Vault(w)!Goto(r, [q EXCEPT !.snap = s, !.pc = IF q.op = "finalizeResolution" THEN "finalized" ELSE q.op])
            BY <1>6, <2>2, <3>1 DEF Vault!readCommittees
        <3>5. PICK place : place = IF q.op = "finalizeResolution" THEN "finalized" ELSE q.op
            OBVIOUS
        <3>6. [q EXCEPT !.snap = s, !.pc = place] = [q EXCEPT !.pc = place, !.snap = s]
            BY <1>1 DEF Handling
        <3> QED BY <1>4, <3>3, <3>4, <3>5, <3>6
    <2> QED BY <2>1, <2>2
<1> QED BY <1>5, <1>6
-----------------------------------------------------------------------------
(* Sends. *)
LEMMA AloneWritten ==
    ASSUME NEW w, Vault(w)!VaultWorkflowAssumption, OneAtATime(w), RecordInv(w), AloneInv(w), UNCHANGED <<vaultChain, record>>,
                  NEW fn \in FactoryFns \ {"createVaultRequest"}, NEW r \in Vault(w)!Actors, opRequest[r].pc # "receipt",
                  Vault(w)!send(fn, opRequest[r].seen.ext, Vault(w)!walletFor(fn)), Vault(w)!canWrite(fn, opRequest[r].seen.ext),
                  NEW q \in Handling(w), Vault(w)!Goto(r, q), q.op = opRequest[r].op, Follows(w, opRequest[r]),
                  \/ opRequest[r].pc = "write" /\ q.pc = "save" /\ q.seen = opRequest[r].seen
                  \/ opRequest[r].pc = "finalize" /\ q.pc = "vault" /\ q.seen = opRequest[r].seen
                  \/ /\ opRequest[r].pc = "resolve" /\ q.pc = "evaluate"
                     /\ q.seen.ext = opRequest[r].seen.ext /\ q.seen.status = opRequest[r].seen.status
                     /\ opRequest[r].seen.traces \subseteq q.seen.traces /\ q.seen.ext # 0
    PROVE  AloneInv(w)'
<1>1. PICK t : t = [fn |-> fn, vault |-> opRequest[r].seen.ext, by |-> Vault(w)!walletFor(fn),
                    state |-> IF w.mock THEN "success" ELSE "pending"]
    OBVIOUS
<1>2. opRequest[r].seen.ext \in w.vaults \cup {0}
    BY HandlingOf DEF RecordRow
<1>3. t \in WriteTx(w) /\ t.by # "setter" /\ vaultTxs' = Append(vaultTxs, t) /\ Len(vaultTxs) < w.txs
      /\ w.txs \in Nat
    BY <1>1, <1>2, WalletsAreNotSetters DEF WriteTx, Vault!send, Vault!canWrite,
       Vault!VaultWorkflowAssumption
<1>4. t.fn # "createVaultRequest" /\ (t.state = "success" => w.mock)
    BY <1>1
<1>5. Follows(w, q)'
    BY DEF Follows, Empty
<1> QED BY <1>3, <1>4, <1>5, AloneSends

LEMMA AloneSendsOn ==
    ASSUME NEW w, Vault(w)!VaultWorkflowAssumption, OneAtATime(w), RecordInv(w), AloneInv(w),
           NEW r \in Vault(w)!Actors,
           Vault(w)!requestVault(r) \/ Vault(w)!write(r) \/ Vault(w)!finalizeV2Vault(r) \/ Vault(w)!resolveChallenge(r)
    PROVE  AloneInv(w)'
<1> PICK q : q = opRequest[r]
    OBVIOUS
<1>1. q \in Handling(w) /\ Handled(q) /\ Follows(w, q) /\ q.seen \in RecordRow(w)
      /\ UNCHANGED <<vaultChain, record>>
    BY HandlingOf, FollowsOf DEF Vault!requestVault, Vault!write, Vault!finalizeV2Vault,
       Vault!resolveChallenge
<1>2. Len(vaultTxs) < w.txs /\ w.txs \in Nat
    BY DEF Vault!requestVault, Vault!write, Vault!finalizeV2Vault, Vault!resolveChallenge,
       Vault!canWrite, Vault!VaultWorkflowAssumption
<1>3. PICK k : k = Len(vaultTxs) + 1
    OBVIOUS
<1>4. k \in 1 .. w.txs /\ k \in 0 .. w.txs
    BY <1>2, <1>3, TxsKnown
<1>5. CASE Vault(w)!requestVault(r)
    <2>1. PICK t : t = [fn |-> "createVaultRequest", by |-> "operator", vault |-> IF w.mock THEN 1 ELSE 0,
                        state |-> IF w.mock THEN "success" ELSE "pending"]
        OBVIOUS
    <2>2. t \in WriteTx(w) /\ t.by # "setter" /\ vaultTxs' = Append(vaultTxs, t)
        BY <1>5, <2>1 DEF WriteTx, FactoryFns, WriteFns, Vault!VaultWorkflowAssumption,
           Vault!requestVault
    <2>3. t.fn = "createVaultRequest" /\ (t.state = "success" => w.mock /\ t.vault # 0)
        BY <2>1
    <2>4. PICK c : c = [q EXCEPT !.pc = "receipt", !.tx = k]
        OBVIOUS
    <2>5. c.pc = "receipt" /\ c.tx = k /\ c.op = q.op /\ c.seen = q.seen
        BY <1>1, <2>4 DEF Handling
    <2>6. q.pc = "ensure" /\ q.seen.ext = 0 /\ Vault(w)!Goto(r, c)
        BY <1>3, <1>5, <2>4 DEF Vault!requestVault
    <2>7. vaultTxs'[k] = t /\ Len(vaultTxs') = k
        BY <1>2, <1>3, <2>2, AppendProperties, TxsKnown
    <2>8. Creates(k)'
        BY <1>3, <1>4, <2>1, <2>7 DEF Creates
    <2>9. Follows(w, c)'
        BY <1>1, <2>5, <2>6, <2>8 DEF Follows, Empty
    <2>10. record.ext = 0
        BY <1>1, <2>6 DEF Follows
    <2> QED BY <1>1, <1>2, <1>3, <2>2, <2>3, <2>5, <2>6, <2>9, <2>10, AloneSends
<1>6. CASE Vault(w)!write(r)
    <2>1. q.pc = "write" /\ Vault(w)!Goto(r, [q EXCEPT !.pc = "save", !.tx = k])
          /\ q.op \in FactoryFns \ {"createVaultRequest"}
        BY <1>1, <1>3, <1>6, WriteFnsAreTyped DEF Vault!write, FactoryFns, Follows
    <2>2. PICK c : c = [q EXCEPT !.pc = "save", !.tx = k]
        OBVIOUS
    <2>3. c \in Handling(w) /\ c.pc = "save" /\ c.op = q.op /\ c.seen = q.seen
        BY <1>1, <1>4, <2>2 DEF Handling, Places
    <2> QED BY <1>1, <1>6, <2>1, <2>2, <2>3, AloneWritten DEF Vault!write
<1>7. CASE Vault(w)!finalizeV2Vault(r)
    <2>1. q.pc = "finalize" /\ Vault(w)!Goto(r, [q EXCEPT !.pc = "vault", !.tx = k])
        BY <1>3, <1>7 DEF Vault!finalizeV2Vault
    <2>2. PICK c : c = [q EXCEPT !.pc = "vault", !.tx = k]
        OBVIOUS
    <2>3. c \in Handling(w) /\ c.pc = "vault" /\ c.op = q.op /\ c.seen = q.seen
        BY <1>1, <1>4, <2>2 DEF Handling, Places
    <2> QED BY <1>1, <1>7, <2>1, <2>2, <2>3, AloneWritten DEF Vault!finalizeV2Vault, FactoryFns
<1>8. CASE Vault(w)!resolveChallenge(r)
    <2>1. PICK seen : seen = [q.seen EXCEPT !.traces = q.seen.traces \cup {k}]
        OBVIOUS
    <2>2. seen \in RecordRow(w) /\ seen.ext = q.seen.ext /\ seen.status = q.seen.status
          /\ q.seen.traces \subseteq seen.traces
        BY <1>1, <1>4, <2>1 DEF RecordRow
    <2>3. PICK c : c = [q EXCEPT !.pc = "evaluate", !.seen = seen]
        OBVIOUS
    <2>4. c \in Handling(w) /\ c.pc = "evaluate" /\ c.op = q.op /\ c.seen = seen
        BY <1>1, <2>2, <2>3 DEF Handling, Places
    <2>5. Vault(w)!Goto(r, c)
        <3>1. c = [q EXCEPT !.pc = "evaluate", !.seen.traces = @ \cup {k}]
            BY <1>1, <2>1, <2>3 DEF Handling
        <3> QED BY <1>3, <1>8, <3>1 DEF Vault!resolveChallenge
    <2>6. q.pc = "resolve" /\ q.seen.ext # 0
        BY <1>1, <1>8 DEF Vault!resolveChallenge, Handled, Writing
    <2>7. Vault(w)!send("resolveChallenge", q.seen.ext, Vault(w)!walletFor("resolveChallenge"))
          /\ Vault(w)!canWrite("resolveChallenge", q.seen.ext)
        BY <1>8 DEF Vault!resolveChallenge
    <2> QED BY <1>1, <2>2, <2>4, <2>5, <2>6, <2>7, AloneWritten DEF FactoryFns
<1> QED BY <1>5, <1>6, <1>7, <1>8
-----------------------------------------------------------------------------
(* Saves. *)
LEMMA SavedFollows ==
    ASSUME NEW w, RecordInv(w), AloneInv(w), NEW r \in Vault(w)!Actors,
           opRequest[r].pc \notin {"idle", "registerOnchain"}
    PROVE  /\ opRequest[r].seen.ext = record.ext /\ record.traces \subseteq opRequest[r].seen.traces
           /\ opRequest[r].seen.ext # 0 => w.mock \/ vaultChain[opRequest[r].seen.ext].status # "None"
    BY FollowsOf DEF Follows, AloneInv

(* A request saves its record, and ends. *)
LEMMA AloneAnswers ==
    ASSUME NEW w, OneAtATime(w), RecordInv(w), AloneInv(w), UNCHANGED <<vaultChain, vaultTxs>>,
           NEW rec \in RecordRow(w), Vault(w)!saveVault(rec), rec.status # "None",
           NEW r \in Vault(w)!Actors, opRequest[r].pc \notin {"idle", "registerOnchain", "receipt"},
           rec.ext = opRequest[r].seen.ext, opRequest[r].seen.traces \subseteq rec.traces,
           Vault(w)!Finish(r)
    PROVE  AloneInv(w)' /\ record'.traces = rec.traces
<1>1. rec.ext = record.ext /\ (rec.ext # 0 => w.mock \/ vaultChain[rec.ext].status # "None")
    BY SavedFollows
<1>2. rec.ext # 0 \/ (record.ext = 0 /\ opRequest[r].pc # "receipt")
    BY <1>1
<1>3. Empty(rec)
    BY DEF Empty
<1>4. PICK q : q = Vault(w)!Idle /\ Vault(w)!Goto(r, q)
    BY DEF Vault!Finish
<1> QED BY <1>1, <1>2, <1>3, <1>4, AloneSaves, RecordSaved

LEMMA AloneInserts ==
    ASSUME NEW w, Vault(w)!VaultWorkflowAssumption, OneAtATime(w), RecordInv(w), AloneInv(w),
           NEW r \in Vault(w)!Actors, Vault(w)!insertDraft(r)
    PROVE  AloneInv(w)'
<1>1. PICK rec : rec = [Vault(w)!NoRecord EXCEPT !.status = "DraftRequest"]
    OBVIOUS
<1>2. rec \in RecordRow(w) /\ rec.status = "DraftRequest"
    BY <1>1, NobodyIdles DEF RecordRow, RecordStates
<1>3. rec.traces = {} /\ rec.ext = 0
    BY <1>1 DEF Vault!NoRecord
<1>4. /\ UNCHANGED <<vaultChain, vaultTxs>> /\ Vault(w)!saveVault(rec) /\ opRequest[r].pc = "insert"
      /\ \E q : q = Vault(w)!Idle /\ Vault(w)!Goto(r, q)
    BY <1>1 DEF Vault!insertDraft, Vault!Finish
<1>5. record.status = "None"
    BY <1>4, FollowsOf DEF Follows
<1>6. record.ext = 0 /\ record.traces = {}
    BY <1>5 DEF AloneInv, Empty
<1>7. Empty(rec)
    BY <1>2 DEF Empty
<1> QED BY <1>2, <1>3, <1>4, <1>6, <1>7, AloneSaves

LEMMA AloneRegisters ==
    ASSUME NEW w, Vault(w)!VaultWorkflowAssumption, OneAtATime(w), RecordInv(w), AloneInv(w),
           NEW r \in Vault(w)!Actors, Vault(w)!ensureOnchainRegistration(r) \/ Vault(w)!saveRegistered(r)
    PROVE  /\ AloneInv(w)'
           /\ Vault(w)!ensureOnchainRegistration(r) =>
                 record'.traces = opRequest[r].seen.traces \cup {opRequest[r].tx}
<1> PICK q : q = opRequest[r]
    OBVIOUS
<1>1. /\ q \in Handling(w) /\ Handled(q) /\ Follows(w, q) /\ q.seen \in RecordRow(w) /\ Traced(q.seen)
      /\ (q.tx # 0 => q.tx \in 1 .. Len(vaultTxs))
      /\ UNCHANGED <<vaultChain, vaultTxs>>
    BY HandlingOf, FollowsOf DEF Vault!ensureOnchainRegistration, Vault!saveRegistered, Handled
<1>2. CASE Vault(w)!saveRegistered(r)
    <2>1. q.pc = "registerOnchain" /\ q.tx \in 1 .. Len(vaultTxs) /\ vaultTxs[q.tx].state = "success"
          /\ q.op = "registerOnchain"
        BY <1>1, <1>2 DEF Vault!saveRegistered, Handled, OwnTx, Writing
    <2>2. PICK none : none = Vault(w)!NoRecord
        OBVIOUS
    <2>3. none \in RecordRow(w) /\ Traced(none) /\ none.traces = {} /\ none.ext = 0
        BY <2>2, NobodyIdles DEF Vault!NoRecord
    <2>4. PICK new : new = Vault(w)!withId(none, q.tx)
        OBVIOUS
    <2>5. new \in RecordRow(w) /\ new.ext = vaultTxs[q.tx].vault
        BY <2>1, <2>3, <2>4, IdGiven
    <2>6. PICK rec : rec = [new EXCEPT !.status = "RuleAuction"]
        OBVIOUS
    <2>7. rec \in RecordRow(w) /\ rec.ext = new.ext /\ rec.status = "RuleAuction"
        BY <2>5, <2>6 DEF RecordRow, RecordStates, ChainStates
    <2>8. Vault(w)!saveVault(rec) /\ \E c : c = Vault(w)!Idle /\ Vault(w)!Goto(r, c)
        BY <1>2, <2>2, <2>4, <2>6 DEF Vault!saveRegistered, Vault!Finish
    <2>9. Mined(w, q.tx)
        BY <2>1 DEF AloneInv
    <2>10. rec.ext # 0 => w.mock \/ vaultChain[rec.ext].status # "None"
        BY <2>1, <2>5, <2>7, <2>9 DEF Mined
    <2>11. Empty(rec)
        BY <2>7 DEF Empty
    <2>12. rec.ext # 0 \/ (record.ext = 0 /\ opRequest[r].pc # "receipt")
        <3>1. CASE record.ext = 0
            BY <2>1, <3>1
        <3>2. CASE record.ext # 0
            BY <1>1, <2>1, <2>5, <2>7, <2>9, <3>2 DEF Mined, Follows
        <3> QED BY <3>1, <3>2
    <2>13. ~Vault(w)!ensureOnchainRegistration(r)
        BY <2>1 DEF Vault!ensureOnchainRegistration
    <2> QED BY <1>1, <2>7, <2>8, <2>10, <2>11, <2>12, <2>13, AloneSaves
<1>3. CASE Vault(w)!ensureOnchainRegistration(r)
    <2>1. q.pc = "receipt" /\ q.tx \in 1 .. Len(vaultTxs) /\ vaultTxs[q.tx].by # "setter"
          /\ vaultTxs[q.tx].state = "success"
          /\ q.seen.ext = 0 /\ Creates(q.tx)
        BY <1>1, <1>3 DEF Vault!ensureOnchainRegistration, Handled, OwnTx, Writing, Follows
    <2>2. PICK new : new = Vault(w)!withId(q.seen, q.tx)
        OBVIOUS
    <2>3. /\ new \in RecordRow(w) /\ new.ext = vaultTxs[q.tx].vault /\ new.traces = q.seen.traces \cup {q.tx}
          /\ new.status = q.seen.status
        BY <1>1, <2>1, <2>2, IdGiven
    <2>4. Mined(w, q.tx)
        BY <2>1 DEF AloneInv
    <2>5. new.ext # 0 /\ (w.mock \/ vaultChain[new.ext].status # "None")
        BY <2>1, <2>3, <2>4 DEF Mined, Creates
    <2>7. CASE q.op = "createVaultRequest"
        <3>1. PICK rec : rec = [new EXCEPT !.status = "RuleAuction"]
            OBVIOUS
        <3>2. rec \in RecordRow(w) /\ rec.ext = new.ext /\ rec.traces = new.traces /\ rec.status = "RuleAuction"
            BY <2>3, <3>1 DEF RecordRow, RecordStates, ChainStates
        <3>3. Vault(w)!saveVault(rec) /\ \E c : c = Vault(w)!Idle /\ Vault(w)!Goto(r, c)
            BY <1>3, <2>2, <2>7, <3>1 DEF Vault!ensureOnchainRegistration, Vault!Finish
        <3>4. Empty(rec)
            BY <3>2 DEF Empty
        <3> QED BY <1>1, <2>3, <2>5, <3>2, <3>3, <3>4, AloneSaves, RecordSaved
    <2>8. CASE q.op # "createVaultRequest"
        <3>1. PICK c : c = [q EXCEPT !.pc = "write", !.seen = new]
            OBVIOUS
        <3>2. Vault(w)!saveVault(new) /\ Vault(w)!Goto(r, c)
            BY <1>3, <2>2, <2>8, <3>1 DEF Vault!ensureOnchainRegistration
        <3>3. c.pc = "write" /\ c.op = q.op /\ c.seen = new
            BY <1>1, <3>1 DEF Handling
        <3>4. new.status # "None" /\ ("registerOnchain" \notin w.ops => c.op # "registerOnchain")
            BY <1>1, <2>1, <2>3, <2>8, <3>3 DEF Follows
        <3>5. Empty(new)
            BY <3>4 DEF Empty
        <3> QED BY <1>1, <2>3, <2>5, <2>8, <3>2, <3>3, <3>4, <3>5, AloneSaves, RecordSaved
    <2> QED BY <2>7, <2>8
<1> QED BY <1>2, <1>3

(* The record of an answer, with the transaction in its traces. *)
LEMMA AloneAnswersTraced ==
    ASSUME NEW w, Vault(w)!VaultWorkflowAssumption, OneAtATime(w), RecordInv(w), AloneInv(w),
           UNCHANGED <<vaultChain, vaultTxs>>, NEW r \in Vault(w)!Actors, NEW rec \in RecordRow(w),
           rec.ext = opRequest[r].seen.ext, rec.status # "None",
           Vault(w)!saveVault([rec EXCEPT !.traces = Vault(w)!traced(opRequest[r].seen, opRequest[r].tx)]),
           Vault(w)!Finish(r), opRequest[r].pc \notin {"idle", "registerOnchain", "receipt"},
           opRequest[r].tx # 0
    PROVE  AloneInv(w)' /\ record'.traces = opRequest[r].seen.traces \cup {opRequest[r].tx}
<1> PICK q : q = opRequest[r]
    OBVIOUS
<1>1. q.tx \in 1 .. Len(vaultTxs) /\ q.seen \in RecordRow(w) /\ q.tx \in 1 .. w.txs
    BY HandlingOf, TxsKnown DEF Vault!VaultWorkflowAssumption
<1>2. PICK new : new = [rec EXCEPT !.traces = q.seen.traces \cup {q.tx}]
    OBVIOUS
<1>3. new \in RecordRow(w) /\ new.ext = q.seen.ext /\ new.traces = q.seen.traces \cup {q.tx}
      /\ new.status # "None"
    BY <1>1, <1>2 DEF RecordRow
<1>4. Vault(w)!saveVault(new)
    BY <1>2 DEF Vault!traced
<1> QED BY <1>1, <1>3, <1>4, AloneAnswers

LEMMA AloneSavesOn ==
    ASSUME NEW w, Vault(w)!VaultWorkflowAssumption, OneAtATime(w), RecordInv(w), AloneInv(w),
           NEW r \in Vault(w)!Actors,
           Vault(w)!saveWritten(r) \/ Vault(w)!saveVerified(r) \/ Vault(w)!finalized(r) \/ Vault(w)!saveSnapshot(r)
    PROVE  /\ AloneInv(w)'
           /\ opRequest[r].seen.traces \subseteq record'.traces
           /\ opRequest[r].pc # "sync" => opRequest[r].tx \in record'.traces
<1> PICK q : q = opRequest[r]
    OBVIOUS
<1>1. /\ q \in Handling(w) /\ Handled(q) /\ Follows(w, q) /\ q.seen \in RecordRow(w) /\ q.snap \in SnapRow(w)
      /\ q.outcome \in Finals /\ UNCHANGED <<vaultChain, vaultTxs>>
    BY HandlingOf, FollowsOf DEF Handling, Vault!saveWritten, Vault!saveVerified, Vault!finalized,
       Vault!saveSnapshot
<1>2. CASE Vault(w)!saveWritten(r)
    <2>1. Vault(w)!nextVault(q) \in RecordRow(w) /\ Vault(w)!nextVault(q).ext = q.seen.ext
          /\ Vault(w)!nextVault(q).status # "None"
        BY <1>1, NextVaultTyped
    <2>2. q.tx # 0 /\ q.pc = "save"
        BY <1>1, <1>2 DEF Vault!saveWritten, Handled, OwnTx
    <2> QED BY <1>1, <1>2, <2>1, <2>2, AloneAnswersTraced DEF Vault!saveWritten
<1>3. CASE Vault(w)!saveVerified(r)
    <2>1. q.tx # 0 /\ q.pc = "registerTx" /\ q.snap.status # "None"
        BY <1>1, <1>3 DEF Vault!saveVerified, Handled, OwnTx, Follows
    <2> QED BY <1>1, <1>3, <2>1, SnapshotPutIn, AloneAnswersTraced DEF Vault!saveVerified
<1>4. CASE Vault(w)!finalized(r)
    <2>1. q.tx # 0 /\ q.pc = "finalized" /\ q.snap.status # "None"
        BY <1>1, <1>4 DEF Vault!finalized, Handled, OwnTx, Follows
    <2>2. PICK n, e : /\ n = IF q.reopen THEN q.snap.resRound ELSE q.seen.resRound
                      /\ e = IF q.reopen /\ q.snap.status = "ResolutionAuction" THEN q.seen.final ELSE q.outcome
        OBVIOUS
    <2>3. n \in Nat /\ e \in Finals
        BY <1>1, <2>2 DEF SnapRow, RecordRow
    <2>4. PICK rec : rec = [q.seen EXCEPT !.status = q.snap.status, !.resolution = q.snap.resolution,
                                          !.resRound = n, !.final = e]
        OBVIOUS
    <2>5. rec \in RecordRow(w) /\ rec.ext = q.seen.ext /\ rec.status = q.snap.status
        BY <1>1, <2>3, <2>4 DEF RecordRow, SnapRow
    <2>6. Vault(w)!saveVault([rec EXCEPT !.traces = Vault(w)!traced(q.seen, q.tx)])
        <3>1. [rec EXCEPT !.traces = Vault(w)!traced(q.seen, q.tx)] =
                 [q.seen EXCEPT !.status = q.snap.status, !.resolution = q.snap.resolution,
                                !.resRound = n, !.final = e, !.traces = Vault(w)!traced(q.seen, q.tx)]
            BY <2>4
        <3> QED BY <1>4, <2>2, <3>1 DEF Vault!finalized
    <2> QED BY <1>1, <1>4, <2>1, <2>5, <2>6, AloneAnswersTraced DEF Vault!finalized
<1>5. CASE Vault(w)!saveSnapshot(r)
    <2>1. PICK new : new = Vault(w)!withSnapshot(q.seen, q.snap) /\ new \in RecordRow(w) /\ new.ext = q.seen.ext
                     /\ new.traces = q.seen.traces /\ new.status = q.snap.status
        BY <1>1, SnapshotPutIn
    <2>2. PICK rec : rec = [new EXCEPT !.rule = q.snap.rule, !.resolution = q.snap.resolution]
        OBVIOUS
    <2>3. rec \in RecordRow(w) /\ rec.ext = q.seen.ext /\ rec.traces = q.seen.traces
          /\ rec.status = q.snap.status
        BY <1>1, <2>1, <2>2 DEF RecordRow, SnapRow
    <2>4. q.pc = "sync" /\ q.snap.status # "None"
        BY <1>1, <1>5 DEF Vault!saveSnapshot, Follows
    <2> QED BY <1>1, <1>5, <2>1, <2>2, <2>3, <2>4, AloneAnswers DEF Vault!saveSnapshot, Vault!synced
<1> QED BY <1>2, <1>3, <1>4, <1>5

-----------------------------------------------------------------------------
LEMMA AloneInits == ASSUME NEW w, Vault(w)!VaultWorkflowAssumption, Vault(w)!Init PROVE AloneInv(w)
<1>1. record.status = "None" /\ record.ext = 0 /\ record.traces = {} /\ Len(vaultTxs) = 0
    BY DEF Vault!Init, Vault!NoRecord
<1>2. \A r \in Vault(w)!Actors : Follows(w, opRequest[r])
    BY IdleFollows DEF Vault!Init
<1> QED BY <1>1, <1>2 DEF AloneInv, Empty, CreatedOnce

LEMMA AloneKeeps ==
    ASSUME NEW w, Vault(w)!VaultWorkflowAssumption, OneAtATime(w), RecordInv(w),
           AloneInv(w), [Vault(w)!Next]_(Vault(w)!vars)
    PROVE  AloneInv(w)'
<1>1. CASE UNCHANGED Vault(w)!vars
    <2>1. \A k \in 1 .. Len(vaultTxs) : Mined(w, k)'
        BY <1>1 DEF Vault!vars, AloneInv, Mined
    <2> QED BY <1>1, <2>1, TxsSame, AloneStays DEF Vault!vars
<1>2. ASSUME NEW k \in DOMAIN vaultTxs, Vault(w)!mine(k) PROVE AloneInv(w)'
    BY <1>2, AloneMines
<1>3. ASSUME NEW v \in w.vaults,
             Vault(w)!agentsWork(v) \/ Vault(w)!agentsPost(v) \/ \E fn \in Vault(w)!SetterFns : Vault(w)!setterSends(fn, v)
      PROVE  AloneInv(w)'
    BY <1>3, AloneAgentsWork, AloneSettersSend DEF Vault!SetterFns, WriteFns
<1>4. CASE Vault(w)!setterSends("createVaultRequest", 0)
    BY <1>4, AloneSettersSend DEF WriteFns
<1>5. ASSUME NEW r \in Vault(w)!Actors, Vault(w)!Call(r) \/ Vault(w)!syncOnchainSnapshot(r)
      PROVE  AloneInv(w)'
    BY <1>5, AloneCalls
<1>6. ASSUME NEW r \in Vault(w)!Actors, Vault(w)!Step(r) \/ Vault(w)!fails(r) PROVE AloneInv(w)'
    BY <1>6, AlonePlacesMove, AloneSendsOn, AloneRegisters, AloneInserts, AloneRequestsEnd, AloneSavesOn,
       AloneEvaluates, AloneReads DEF Vault!Step
<1> QED BY <1>1, <1>2, <1>3, <1>4, <1>5, <1>6 DEF Vault!Next, Vault!Actors

-----------------------------------------------------------------------------
(* A transaction that is answered and not in the traces is in the hands of the one request: while it has its own
   to save, or of a finalization that closed challenges and is being evaluated. *)
Holds(q, k) ==
    /\ k \in q.seen.traces \/ k = q.tx
    /\ \/ q.pc \in {"save", "finalized", "registerTx"}
       \/ q.pc \in {"vault", "committees"} /\ q.op = "finalizeResolution"
       \/ /\ q.pc \in {"evaluate", "finalize"}
          /\ k \in q.seen.traces /\ k \in 1 .. Len(vaultTxs) /\ vaultTxs[k].fn = "resolveChallenge"
InHands(w) == \A k \in answered \ record.traces : \E r \in Vault(w)!Actors : Holds(opRequest[r], k)

LEMMA HoldsOf ==
    ASSUME NEW w, OneAtATime(w), InHands(w), NEW r \in Vault(w)!Actors, NEW k \in answered \ record.traces
    PROVE  Holds(opRequest[r], k)
    BY DEF OneAtATime, InHands

LEMMA AllTraced ==
    ASSUME NEW w, OneAtATime(w), InHands(w), NEW r \in Vault(w)!Actors,
           opRequest[r].pc \notin {"save", "finalized", "registerTx", "evaluate", "finalize"},
           opRequest[r].pc \in {"vault", "committees"} => opRequest[r].op # "finalizeResolution"
    PROVE  answered \subseteq record.traces
    BY HoldsOf DEF Holds

LEMMA HeldOn ==
    ASSUME NEW w, OneAtATime(w), RecordInv(w), NEW r \in Vault(w)!Actors, NEW q, Vault(w)!Goto(r, q),
           \A k \in answered' \ record'.traces : Holds(q, k)'
    PROVE  InHands(w)'
<1>1. opRequest'[r] = q
    BY Only
<1>2. ASSUME NEW k \in answered' \ record'.traces PROVE Holds(opRequest[r], k)'
    <2>1. Holds(q, k)'
        BY <1>2
    <2> QED BY <1>1, <2>1 DEF Holds
<1> QED BY <1>2 DEF InHands

(* A request sends, and has the answer. *)
LEMMA HandsSend ==
    ASSUME NEW w, Vault(w)!VaultWorkflowAssumption, OneAtATime(w), RecordInv(w), InHands(w),
           NEW r \in Vault(w)!Actors, Vault(w)!write(r) \/ Vault(w)!finalizeV2Vault(r) \/ Vault(w)!resolveChallenge(r)
    PROVE  InHands(w)'
<1> PICK q : q = opRequest[r]
    OBVIOUS
<1> PICK n : n = Len(vaultTxs) + 1
    OBVIOUS
<1>1. q \in Handling(w) /\ Handled(q) /\ q.seen \in RecordRow(w) /\ UNCHANGED record /\ answered' = answered \cup {n}
    BY HandlingOf DEF Vault!write, Vault!finalizeV2Vault, Vault!resolveChallenge
<1>2. CASE Vault(w)!write(r)
    <2>1. PICK c : c = [q EXCEPT !.pc = "save", !.tx = n]
        OBVIOUS
    <2>2. c.pc = "save" /\ c.tx = n /\ Vault(w)!Goto(r, c) /\ q.pc = "write"
        BY <1>1, <1>2, <2>1 DEF Handling, Vault!write
    <2>3. answered \subseteq record.traces
        BY <2>2, AllTraced
    <2>4. \A k \in answered' \ record'.traces : Holds(c, k)'
        BY <1>1, <2>2, <2>3 DEF Holds
    <2> QED BY <2>2, <2>4, HeldOn
<1>3. CASE Vault(w)!finalizeV2Vault(r)
    <2>1. PICK c : c = [q EXCEPT !.pc = "vault", !.tx = n]
        OBVIOUS
    <2>2. c.pc = "vault" /\ c.tx = n /\ c.seen = q.seen /\ c.op = "finalizeResolution" /\ Vault(w)!Goto(r, c)
          /\ q.pc = "finalize"
        BY <1>1, <1>3, <2>1 DEF Handling, Vault!finalizeV2Vault, Handled, Writing
    <2>3. \A k \in answered' \ record'.traces : k = n \/ Holds(q, k)
        BY <1>1, HoldsOf
    <2>4. \A k \in answered' \ record'.traces : Holds(c, k)'
        BY <2>2, <2>3 DEF Holds
    <2> QED BY <2>2, <2>4, HeldOn
<1>4. CASE Vault(w)!resolveChallenge(r)
    <2>1. PICK seen : seen = [q.seen EXCEPT !.traces = q.seen.traces \cup {n}]
        OBVIOUS
    <2>2. seen.traces = q.seen.traces \cup {n}
        BY <1>1, <2>1 DEF RecordRow
    <2>3. PICK c : c = [q EXCEPT !.pc = "evaluate", !.seen = seen]
        OBVIOUS
    <2>4. c.pc = "evaluate" /\ c.seen = seen /\ q.pc = "resolve"
        BY <1>1, <1>4, <2>3 DEF Handling, Vault!resolveChallenge
    <2>5. Vault(w)!Goto(r, c)
        <3>1. c = [q EXCEPT !.pc = "evaluate", !.seen.traces = @ \cup {n}]
            BY <1>1, <2>1, <2>3 DEF Handling
        <3> QED BY <1>4, <3>1 DEF Vault!resolveChallenge
    <2>6. answered \subseteq record.traces
        BY <2>4, AllTraced
    <2>7. PICK t : t = [fn |-> "resolveChallenge", vault |-> q.seen.ext, by |-> Vault(w)!walletFor("resolveChallenge"),
                        state |-> IF w.mock THEN "success" ELSE "pending"]
        OBVIOUS
    <2>8. t \in WriteTx(w) /\ vaultTxs' = Append(vaultTxs, t)
        BY <1>1, <1>4, <2>7, WalletsAreNotSetters DEF WriteTx, RecordRow, FactoryFns, Vault!resolveChallenge, Vault!send
    <2>9. n \in 1 .. Len(vaultTxs') /\ vaultTxs'[n].fn = "resolveChallenge"
        BY <2>7, <2>8, TxsKnown, AppendProperties
    <2>10. \A k \in answered' \ record'.traces : Holds(c, k)'
        BY <1>1, <2>2, <2>4, <2>6, <2>9 DEF Holds
    <2> QED BY <2>5, <2>10, HeldOn
<1> QED BY <1>2, <1>3, <1>4

(* A request has the answer, or reads on with it. *)
LEMMA HandsRead ==
    ASSUME NEW w, Vault(w)!VaultWorkflowAssumption, OneAtATime(w), RecordInv(w), AloneInv(w), InHands(w),
           "registerOnchain" \notin w.ops, NEW r \in Vault(w)!Actors,
           Vault(w)!verified(r) \/ Vault(w)!readVault(r) \/ Vault(w)!readCommittees(r)
    PROVE  InHands(w)'
<1> PICK q : q = opRequest[r]
    OBVIOUS
<1>1. q \in Handling(w) /\ Handled(q) /\ UNCHANGED record /\ Follows(w, q)
    BY HandlingOf, FollowsOf DEF Vault!verified, Vault!readVault, Vault!readCommittees
<1>2. CASE q.op # "finalizeResolution" /\ UNCHANGED answered
    <2>1. answered \subseteq record.traces
        BY <1>2, AllTraced DEF Vault!verified, Vault!readVault, Vault!readCommittees
    <2> QED BY <1>1, <1>2, <2>1 DEF InHands
<1>3. ASSUME NEW place, NEW s, q.op = "finalizeResolution", place \in {"committees", "finalized"}, UNCHANGED answered,
             q.pc \in {"vault", "committees"}, Vault(w)!Goto(r, [q EXCEPT !.pc = place, !.snap = s])
      PROVE  InHands(w)'
    <2>1. PICK c : c = [q EXCEPT !.pc = place, !.snap = s]
        OBVIOUS
    <2>2. c.pc = place /\ c.op = q.op /\ c.seen = q.seen /\ c.tx = q.tx
        BY <1>1, <2>1 DEF Handling
    <2>3. \A k \in answered \ record.traces : Holds(q, k)
        BY HoldsOf
    <2>4. \A k \in answered' \ record'.traces : Holds(c, k)'
        BY <1>1, <1>3, <2>2, <2>3 DEF Holds
    <2> QED BY <1>3, <2>1, <2>4, HeldOn
<1>4. CASE Vault(w)!verified(r)
    <2>1. q.op = "registerTx"
        BY <1>1, <1>4 DEF Vault!verified, Handled, Writing, Follows
    <2> QED BY <1>2, <1>4, <2>1 DEF Vault!verified
<1>5. CASE Vault(w)!readVault(r)
    <2>1. PICK s : s = IF q.op = "registerTx" THEN Vault(w)!verifyVaultSnapshot(q.seen.ext)
                       ELSE Vault(w)!readVaultSnapshot(r, q.seen.ext)
        OBVIOUS
    <2>2. q.pc = "vault" /\ UNCHANGED answered /\ Vault(w)!Goto(r, [q EXCEPT !.pc = "committees", !.snap = s])
        BY <1>5, <2>1 DEF Vault!readVault
    <2> QED BY <1>2, <1>3, <2>2
<1>6. CASE Vault(w)!readCommittees(r)
    <2>1. q.pc = "committees"
        BY <1>6 DEF Vault!readCommittees
    <2>2. PICK s : s = Vault(w)!CommitteesRead(q.snap, q.seen.ext)
        OBVIOUS
    <2>3. CASE q.op = "finalizeResolution"
        <3>1. UNCHANGED answered /\ Vault(w)!Goto(r, [q EXCEPT !.snap = s, !.pc = "finalized"])
            BY <1>6, <2>2, <2>3 DEF Vault!readCommittees
        <3>2. [q EXCEPT !.snap = s, !.pc = "finalized"] = [q EXCEPT !.pc = "finalized", !.snap = s]
            BY <1>1 DEF Handling
        <3> QED BY <1>3, <2>1, <2>3, <3>1, <3>2
    <2>4. CASE q.op # "finalizeResolution" /\ ~UNCHANGED answered
        <3>1. q.op = "registerTx" /\ answered' = answered \cup {q.tx}
              /\ Vault(w)!Goto(r, [q EXCEPT !.snap = s, !.pc = "registerTx"])
            BY <1>6, <2>2, <2>4 DEF Vault!readCommittees
        <3>2. PICK c : c = [q EXCEPT !.snap = s, !.pc = "registerTx"]
            OBVIOUS
        <3>3. c.pc = "registerTx" /\ c.tx = q.tx
            BY <1>1, <3>2 DEF Handling
        <3>4. answered \subseteq record.traces
            BY <2>1, <3>1, AllTraced
        <3>5. \A k \in answered' \ record'.traces : Holds(c, k)'
            BY <1>1, <3>1, <3>3, <3>4 DEF Holds
        <3> QED BY <3>1, <3>2, <3>5, HeldOn
    <2> QED BY <1>2, <2>3, <2>4
<1> QED BY <1>4, <1>5, <1>6

(* A request ends without saving, or evaluates what is ready. *)
LEMMA HandsLetGo ==
    ASSUME NEW w, Vault(w)!VaultWorkflowAssumption, OneAtATime(w), RecordInv(w), InHands(w), NEW r \in Vault(w)!Actors,
           Vault(w)!fails(r) \/ Vault(w)!refused(r) \/ Vault(w)!evaluateFinalityReadiness(r)
    PROVE  InHands(w)'
<1> PICK q : q = opRequest[r]
    OBVIOUS
<1>1. q \in Handling(w) /\ Handled(q) /\ UNCHANGED <<record, vaultTxs>>
    BY HandlingOf DEF Vault!fails, Vault!refused, Vault!evaluateFinalityReadiness
<1>2. \A k \in answered \ record.traces : Holds(q, k)
    BY HoldsOf
<1>3. CASE Vault(w)!fails(r)
    <2>1. answered' \subseteq record'.traces
        BY <1>1, <1>2, <1>3 DEF Vault!fails, Vault!unsaved, Holds
    <2> QED BY <2>1 DEF InHands
<1>4. CASE answered' = answered \ Vault(w)!closedInVain(q) /\ q.pc \in {"evaluate", "finalize", "write", "resolve"}
    <2>1. answered' \subseteq record'.traces
        BY <1>1, <1>2, <1>4 DEF Vault!closedInVain, Holds
    <2> QED BY <2>1 DEF InHands
<1>5. CASE Vault(w)!refused(r)
    BY <1>4, <1>5 DEF Vault!refused
<1>6. CASE Vault(w)!evaluateFinalityReadiness(r) /\ ~(answered' = answered \ Vault(w)!closedInVain(q))
    <2>1. PICK b, e : /\ b = (q.reopen /\ Vault(w)!storedOutcome(q.seen) = "none")
                      /\ e = IF Vault(w)!storedOutcome(q.seen) = "none" THEN "INVALID" ELSE Vault(w)!storedOutcome(q.seen)
        OBVIOUS
    <2>2. /\ Vault(w)!Goto(r, [q EXCEPT !.pc = "finalize", !.reopen = b, !.outcome = e]) /\ UNCHANGED answered
          /\ q.pc = "evaluate"
        BY <1>6, <2>1 DEF Vault!evaluateFinalityReadiness
    <2>3. PICK c : c = [q EXCEPT !.pc = "finalize", !.reopen = b, !.outcome = e]
        OBVIOUS
    <2>4. c.pc = "finalize" /\ c.seen = q.seen /\ c.tx = q.tx
        BY <1>1, <2>3 DEF Handling
    <2>5. \A k \in answered' \ record'.traces : Holds(c, k)'
        BY <1>1, <1>2, <2>2, <2>4 DEF Holds
    <2> QED BY <2>2, <2>3, <2>5, HeldOn
<1>7. Vault(w)!evaluateFinalityReadiness(r) => q.pc = "evaluate"
    BY DEF Vault!evaluateFinalityReadiness
<1> QED BY <1>3, <1>4, <1>5, <1>6, <1>7

(* A request saves. *)
LEMMA HandsSave ==
    ASSUME NEW w, Vault(w)!VaultWorkflowAssumption, OneAtATime(w), RecordInv(w), AloneInv(w), InHands(w),
           "registerOnchain" \notin w.ops, NEW r \in Vault(w)!Actors,
           \/ Vault(w)!saveWritten(r) \/ Vault(w)!saveVerified(r) \/ Vault(w)!finalized(r) \/ Vault(w)!saveSnapshot(r)
           \/ Vault(w)!ensureOnchainRegistration(r) \/ Vault(w)!insertDraft(r) \/ Vault(w)!saveRegistered(r)
    PROVE  InHands(w)'
<1> PICK q : q = opRequest[r]
    OBVIOUS
<1>1. Handled(q) /\ Follows(w, q) /\ record.traces \subseteq q.seen.traces
    BY HandlingOf, FollowsOf DEF Follows, Vault!saveWritten, Vault!saveVerified, Vault!finalized, Vault!saveSnapshot,
       Vault!ensureOnchainRegistration, Vault!insertDraft, Vault!saveRegistered
<1>2. CASE Vault(w)!saveWritten(r) \/ Vault(w)!saveVerified(r) \/ Vault(w)!finalized(r)
    <2>1. q.pc # "sync" /\ UNCHANGED answered
        BY <1>2 DEF Vault!saveWritten, Vault!saveVerified, Vault!finalized
    <2>2. \A k \in answered \ record.traces : k \in q.seen.traces \/ k = q.tx
        BY HoldsOf DEF Holds
    <2>3. q.seen.traces \subseteq record'.traces /\ q.tx \in record'.traces
        BY <1>2, <2>1, AloneSavesOn
    <2>4. answered' \subseteq record'.traces
        BY <1>1, <2>1, <2>2, <2>3
    <2> QED BY <2>4 DEF InHands
<1>3. CASE Vault(w)!saveSnapshot(r)
    <2>1. q.pc = "sync" /\ UNCHANGED answered
        BY <1>3 DEF Vault!saveSnapshot
    <2>2. answered \subseteq record.traces
        BY <2>1, AllTraced
    <2>3. q.seen.traces \subseteq record'.traces
        BY <1>3, AloneSavesOn
    <2> QED BY <1>1, <2>1, <2>2, <2>3 DEF InHands
<1>4. CASE Vault(w)!ensureOnchainRegistration(r)
    <2>1. q.pc = "receipt" /\ answered' = answered \cup {q.tx}
        BY <1>4 DEF Vault!ensureOnchainRegistration
    <2>2. answered \subseteq record.traces
        BY <2>1, AllTraced
    <2>3. record'.traces = q.seen.traces \cup {q.tx}
        BY <1>4, AloneRegisters
    <2> QED BY <1>1, <2>1, <2>2, <2>3 DEF InHands
<1>5. CASE Vault(w)!insertDraft(r)
    <2>1. q.pc = "insert" /\ UNCHANGED answered
        BY <1>5 DEF Vault!insertDraft
    <2>2. record.traces = {}
        BY <1>1, <2>1 DEF Follows, AloneInv, Empty
    <2>3. answered \subseteq record.traces
        BY <2>1, AllTraced
    <2> QED BY <2>1, <2>2, <2>3 DEF InHands
<1>6. ~Vault(w)!saveRegistered(r)
    BY <1>1 DEF Vault!saveRegistered, Handled, Writing, Follows
<1> QED BY <1>2, <1>3, <1>4, <1>5, <1>6

LEMMA HandsKeep ==
    ASSUME NEW w, Vault(w)!VaultWorkflowAssumption, OneAtATime(w), RecordInv(w), Booked, AloneInv(w), InHands(w),
           "registerOnchain" \notin w.ops, [Vault(w)!Next]_(Vault(w)!vars)
    PROVE  InHands(w)'
<1>1. ASSUME UNCHANGED <<record, opRequest, answered>>, Len(vaultTxs') \in Nat, Len(vaultTxs) <= Len(vaultTxs'),
             \A k \in 1 .. Len(vaultTxs) : vaultTxs'[k].fn = vaultTxs[k].fn
      PROVE  InHands(w)'
    <2>1. ASSUME NEW k \in answered \ record.traces, NEW r \in Vault(w)!Actors, Holds(opRequest[r], k)
          PROVE  Holds(opRequest[r], k)'
        <3>1. k \in 1 .. Len(vaultTxs) => k \in 1 .. Len(vaultTxs') /\ vaultTxs'[k].fn = vaultTxs[k].fn
            BY <1>1, TxsKnown
        <3> QED BY <1>1, <2>1, <3>1 DEF Holds
    <2> QED BY <1>1, <2>1 DEF InHands
<1>2. CASE UNCHANGED Vault(w)!vars
    BY <1>1, <1>2, TxsKnown DEF Vault!vars
<1>3. CASE \/ \E k \in DOMAIN vaultTxs : Vault(w)!mine(k)
           \/ \E v \in w.vaults : \/ Vault(w)!agentsWork(v) \/ Vault(w)!agentsPost(v)
                                 \/ \E fn \in Vault(w)!SetterFns : Vault(w)!setterSends(fn, v)
           \/ Vault(w)!setterSends("createVaultRequest", 0)
    BY <1>1, <1>3, OthersSend
<1>4. ASSUME NEW r \in Vault(w)!Actors, UNCHANGED <<record, answered>>,
             opRequest[r].pc \in {"idle", "ensure", "verify", "challenge"}
      PROVE  InHands(w)'
    BY <1>4, AllTraced DEF InHands
<1>5. ASSUME NEW r \in Vault(w)!Actors, Vault(w)!Call(r) \/ Vault(w)!syncOnchainSnapshot(r)
      PROVE  InHands(w)'
    BY <1>4, <1>5, CallsOnlyRead
<1>6. ASSUME NEW r \in Vault(w)!Actors,
             \/ Vault(w)!registered(r) \/ Vault(w)!requestVault(r) \/ Vault(w)!notVerified(r)
             \/ Vault(w)!noChallengeNamed(r) \/ Vault(w)!updateChallengeStatus(r)
      PROVE  InHands(w)'
    BY <1>4, <1>6 DEF Vault!registered, Vault!requestVault, Vault!notVerified, Vault!noChallengeNamed,
       Vault!updateChallengeStatus
<1>7. ASSUME NEW r \in Vault(w)!Actors, Vault(w)!Step(r) \/ Vault(w)!fails(r) PROVE InHands(w)'
    BY <1>6, <1>7, HandsSend, HandsRead, HandsLetGo, HandsSave DEF Vault!Step
<1> QED BY <1>2, <1>3, <1>5, <1>7 DEF Vault!Next, Vault!Actors

(* What is proved of one request after another. *)
AloneSound(w) ==
    RecordInv(w) /\ Booked /\ AloneInv(w) /\ ("registerOnchain" \notin w.ops => InHands(w))

LEMMA SoundAtFirst ==
    ASSUME NEW w, Vault(w)!VaultWorkflowAssumption, Vault(w)!Init
    PROVE  AloneSound(w)
<1>1. answered = {}
    BY DEF Vault!Init
<1> QED BY <1>1, RecordStarts, AloneInits DEF AloneSound, Booked, InHands

LEMMA SoundIsKept ==
    ASSUME NEW w, Vault(w)!VaultWorkflowAssumption, OneAtATime(w), AloneSound(w), [Vault(w)!Next]_(Vault(w)!vars)
    PROVE  AloneSound(w)'
    BY RecordStays, BookedStays, AloneKeeps, HandsKeep DEF AloneSound

LEMMA AloneIsOnce ==
    ASSUME NEW w, AloneSound(w)
    PROVE  Vault(w)!RegisteredOnce /\ ("registerOnchain" \notin w.ops => Vault(w)!TracesKept)
<1>1. Vault(w)!RegisteredOnce
    BY TxsKnown DEF AloneSound, AloneInv, CreatedOnce, Creates, Vault!RegisteredOnce
<1> QED BY <1>1 DEF AloneSound, InHands, Holds, Vault!TracesKept

(* One request after another, whatever fails but the wait for the registration's receipt: a record is
   registered with the factory, and its deposit paid, once; and where no browser registers vaults a transaction
   the API has the answer of is in the record's traces or in the hands of the request that runs, unless that
   request failed, or had closed challenges for a finalization that was then not ready or was refused. *)
THEOREM RecordsStayRegistered ==
    ASSUME NEW w, Vault(w)!VaultWorkflowAssumption, OneAtATime(w)
    PROVE  Vault(w)!Spec =>
              [](Vault(w)!RegisteredOnce /\ ("registerOnchain" \notin w.ops => Vault(w)!TracesKept))
<1> DEFINE good == Vault(w)!RegisteredOnce /\ ("registerOnchain" \notin w.ops => Vault(w)!TracesKept)
<1>1. Vault(w)!Init => AloneSound(w)
    BY SoundAtFirst
<1>2. AloneSound(w) /\ [Vault(w)!Next]_(Vault(w)!vars) => AloneSound(w)'
    BY SoundIsKept
<1>3. AloneSound(w) => good
    BY AloneIsOnce
<1> HIDE DEF good
<1>4. Vault(w)!Spec => []good
    BY <1>1, <1>2, <1>3, PTL DEF Vault!Spec
<1> QED BY <1>4 DEF good

-----------------------------------------------------------------------------
(* Submissions. *)
AllKinds(w) == Subs(w)!RuleKinds \cup Subs(w)!ResolutionKinds \cup {"public_challenge"}
VaultStatuses == {"None", "RuleAuction", "RuleDrafting", "Active", "CommitPhase", "ResolutionAuction",
             "ResolvedTrue", "RevealPhase", "AuditPhase", "PublicChallenge"}
VaultRow(w) == [status : VaultStatuses, ruleRound : 0 .. w.rounds, resRound : 0 .. w.rounds,
             rule : BOOLEAN, resolution : BOOLEAN]
Payload(w) == [kind : AllKinds(w), round : Nat, id : {"local", "external"},
            what : w.outcomes \cup {"findings"},
            target : w.agents \cup {"none"}, who : w.agents \cup {"any"}]
Input(w) == [kind : AllKinds(w), agent : w.agents, payload : Payload(w), tx : Nat]
TxRow(w) == [agent : w.agents, payload : Payload(w), at : Nat]
SubRow(w) == [kind : AllKinds(w), agent : w.agents, payload : Payload(w), tx : Nat,
           validation : {"none", "match", "mismatch"}]
CallRow(w) == [pc : {"idle", "normalize", "prepare", "begin", "lock", "verify", "store"},
            input : Input(w) \cup {Subs(w)!NoInput}, seen : VaultRow(w), tx : Nat]

WorkTyped(w) ==
    /\ factory \in VaultRow(w) /\ vaultRow \in VaultRow(w)
    /\ accepted \in Seq(TxRow(w)) /\ Len(accepted) <= w.txs /\ subs \in Seq(SubRow(w))
    /\ subCalls \in Nat /\ subCalls <= w.calls
    /\ subRequest \in [w.requests -> CallRow(w)]

(* What a request submits, and the transaction it found to carry it. *)
Shows(w, k, s) ==
    /\ k \in 1 .. Len(accepted) /\ accepted[k].agent = s.agent
    /\ Subs(w)!carried(accepted[k].payload) = Subs(w)!carried(s.payload)
InHand(w, q) ==
    /\ q.pc # "idle" => q.input \in Input(w) /\ q.input.tx <= Len(accepted)
    /\ q.pc = "store" => Shows(w, q.tx, q.input)
AllInHand(w) == \A r \in w.requests : InHand(w, subRequest[r])

(* From the second check on a request holds its agent's row: no other of   *)
(* the agent is that far, so what the check found stays so until it stores. *)
Held(q) == q.pc \in {"verify", "store"}
SameKey(s, i) ==
    /\ s.kind = i.kind /\ s.kind # "public_challenge" /\ s.agent = i.agent
    /\ s.payload.round = i.payload.round /\ s.payload.target = i.payload.target
OneOfAnAgent(w) ==
    \A r, o \in w.requests :
        /\ Held(subRequest[r]) /\ Held(subRequest[o])
        /\ subRequest[r].input.agent = subRequest[o].input.agent
        => r = o
FirstOfItsKey(w) ==
    \A r \in w.requests : Held(subRequest[r]) =>
             \A i \in 1 .. Len(subs) : ~SameKey(subs[i], subRequest[r].input)

NoTwo == \A i, j \in 1 .. Len(subs) : SameKey(subs[i], subs[j]) => i = j
OnChain(w) == \A i \in 1 .. Len(subs) : Shows(w, subs[i].tx, subs[i])
ProofsBacked ==
    /\ \A p, q \in proofs : p.payload = q.payload => p = q
    /\ \A p \in proofs :
          p.tx # 0 => \E i \in 1 .. Len(subs) : subs[i].payload = p.payload /\ subs[i].tx = p.tx

WorkInv(w) ==
    WorkTyped(w) /\ AllInHand(w) /\ OneOfAnAgent(w) /\ FirstOfItsKey(w) /\ NoTwo /\ OnChain(w) /\ ProofsBacked

(* The factory forgets no transaction. *)
TxsGrow == Len(accepted) <= Len(accepted') /\ \A k \in 1 .. Len(accepted) : accepted'[k] = accepted[k]

LEMMA Lengths ==
  ASSUME NEW w, WorkInv(w)
  PROVE  /\ Len(accepted) \in Nat /\ DOMAIN accepted = 1 .. Len(accepted)
         /\ Len(subs) \in Nat /\ DOMAIN subs = 1 .. Len(subs)
  BY DEF WorkInv, WorkTyped

LEMMA NoneIsGone ==
  ASSUME NEW w, WorkInv(w), UNCHANGED accepted
  PROVE  TxsGrow
  BY Lengths DEF TxsGrow

LEMMA StillShown ==
  ASSUME NEW w, WorkInv(w), TxsGrow, Len(accepted') \in Nat, NEW k, NEW s, Shows(w, k, s)
  PROVE  Shows(w, k, s)'
  BY Lengths DEF Shows, TxsGrow

LEMMA StillInHand ==
  ASSUME NEW w, WorkInv(w), TxsGrow, Len(accepted') \in Nat, NEW q \in CallRow(w), InHand(w, q)
  PROVE  InHand(w, q)'
<1>1. q.pc = "store" => Shows(w, q.tx, q.input)'
  BY StillShown DEF InHand
<1>2. q.pc # "idle" => q.input \in Input(w) /\ q.input.tx <= Len(accepted')
  <2>1. SUFFICES ASSUME q.pc # "idle" PROVE q.input \in Input(w) /\ q.input.tx <= Len(accepted')
    OBVIOUS
  <2>2. q.input \in Input(w) /\ q.input.tx <= Len(accepted) /\ q.input.tx \in Nat
    BY <2>1 DEF InHand, Input
  <2> QED BY <2>2, Lengths DEF TxsGrow
<1> QED BY <1>1, <1>2 DEF InHand

(* A request in hand. *)
LEMMA CallOf ==
  ASSUME NEW w, WorkInv(w), NEW r \in w.requests
  PROVE  /\ subRequest[r] \in CallRow(w) /\ InHand(w, subRequest[r])
         /\ subRequest[r].pc # "idle" => /\ subRequest[r].input \in Input(w)
                                         /\ subRequest[r].input.kind \in AllKinds(w)
                                      /\ subRequest[r].input.agent \in w.agents
<1>1. subRequest[r] \in CallRow(w) /\ InHand(w, subRequest[r])
  BY DEF WorkInv, WorkTyped, AllInHand
<1> QED BY <1>1 DEF InHand, Input

(* Nothing is stored, and nobody moves. *)
LEMMA OthersMove ==
  ASSUME NEW w, WorkInv(w), UNCHANGED <<subs, subRequest>>, WorkTyped(w)', TxsGrow, ProofsBacked'
  PROVE  WorkInv(w)'
<1>1. Len(accepted') \in Nat
  BY DEF WorkTyped
<1>2. AllInHand(w)'
  <2>1. ASSUME NEW r \in w.requests PROVE InHand(w, subRequest[r])'
    <3>1. PICK q \in CallRow(w) : q = subRequest[r] /\ InHand(w, q)
      BY CallOf
    <3>2. InHand(w, q)'
      BY <1>1, <3>1, StillInHand
    <3> QED BY <3>1, <3>2 DEF InHand, Shows
  <2> QED BY <2>1 DEF AllInHand
<1>3. OnChain(w)'
  <2>1. ASSUME NEW i \in 1 .. Len(subs) PROVE Shows(w, subs[i].tx, subs[i])'
    <3>1. PICK k, s : k = subs[i].tx /\ s = subs[i] /\ Shows(w, k, s)
      BY DEF WorkInv, OnChain
    <3>2. Shows(w, k, s)'
      BY <1>1, <3>1, StillShown
    <3> QED BY <3>1, <3>2 DEF Shows
  <2> QED BY <2>1 DEF OnChain
<1>4. OneOfAnAgent(w)' /\ FirstOfItsKey(w)' /\ NoTwo'
  BY DEF WorkInv, OneOfAnAgent, FirstOfItsKey, NoTwo, Held, SameKey
<1> QED BY <1>2, <1>3, <1>4 DEF WorkInv

(* Nothing is stored, and one request moves. *)
LEMMA RequestMoves ==
  ASSUME NEW w, WorkInv(w), UNCHANGED <<subs, proofs>>, WorkTyped(w)', TxsGrow,
                NEW r \in w.requests, NEW q \in CallRow(w),
                Subs(w)!Goto(r, q), InHand(w, q)',
                Held(q) => \A o \in w.requests \ {r} :
                    Held(subRequest[o]) => subRequest[o].input.agent # q.input.agent,
                Held(q) => \A i \in 1 .. Len(subs) : ~SameKey(subs[i], q.input)
  PROVE  WorkInv(w)'
<1>1. \A o \in w.requests : subRequest'[o] = IF o = r THEN q ELSE subRequest[o]
  BY DEF Subs!Goto, WorkInv, WorkTyped
<1>2. Len(accepted') \in Nat
  BY DEF WorkTyped
<1>3. AllInHand(w)'
  <2>1. ASSUME NEW o \in w.requests PROVE InHand(w, subRequest[o])'
    <3>1. CASE o = r
      BY <1>1, <3>1 DEF InHand, Shows
    <3>2. CASE o # r
      <4>1. PICK c \in CallRow(w) : c = subRequest[o] /\ InHand(w, c)
        BY CallOf
      <4>2. InHand(w, c)'
        BY <1>2, <4>1, StillInHand
      <4> QED BY <1>1, <3>2, <4>1, <4>2 DEF InHand, Shows
    <3> QED BY <3>1, <3>2
  <2> QED BY <2>1 DEF AllInHand
<1>4. OnChain(w)'
  <2>1. ASSUME NEW i \in 1 .. Len(subs) PROVE Shows(w, subs[i].tx, subs[i])'
    <3>1. PICK k, s : k = subs[i].tx /\ s = subs[i] /\ Shows(w, k, s)
      BY DEF WorkInv, OnChain
    <3>2. Shows(w, k, s)'
      BY <1>2, <3>1, StillShown
    <3> QED BY <3>1, <3>2 DEF Shows
  <2> QED BY <2>1 DEF OnChain
<1>5. OneOfAnAgent(w)'
  <2>1. ASSUME NEW o \in w.requests, NEW c \in w.requests, Held(subRequest'[o]), Held(subRequest'[c]),
               subRequest'[o].input.agent = subRequest'[c].input.agent
        PROVE  o = c
    BY <1>1, <2>1 DEF WorkInv, OneOfAnAgent
  <2> QED BY <2>1 DEF OneOfAnAgent, Held
<1>6. FirstOfItsKey(w)'
  <2>1. ASSUME NEW o \in w.requests, Held(subRequest'[o]), NEW i \in 1 .. Len(subs)
        PROVE  ~SameKey(subs[i], subRequest'[o].input)
    BY <1>1, <2>1 DEF WorkInv, FirstOfItsKey
  <2> QED BY <2>1 DEF FirstOfItsKey, Held, SameKey
<1>7. NoTwo' /\ ProofsBacked'
  BY DEF WorkInv, NoTwo, ProofsBacked, SameKey
<1> QED BY <1>3, <1>4, <1>5, <1>6, <1>7 DEF WorkInv

(* A request ends, or goes on before the second check, and saves nothing. *)
LEMMA GoesOn ==
  ASSUME NEW w, WorkInv(w), UNCHANGED <<factory, accepted, vaultRow, subs, proofs>>, subCalls' \in Nat,
                subCalls' <= w.calls,
                NEW r \in w.requests, NEW q \in CallRow(w), Subs(w)!Goto(r, q), InHand(w, q), ~Held(q)
  PROVE  WorkInv(w)'
<1>1. WorkTyped(w)'
  BY DEF WorkInv, WorkTyped, Subs!Goto
<1>2. TxsGrow
  BY NoneIsGone
<1>3. InHand(w, q)'
  BY DEF InHand, Shows
<1> QED BY <1>1, <1>2, <1>3, RequestMoves

LEMMA IdleInHand ==
  ASSUME NEW w, Subs(w)!SubmissionsAssumption
  PROVE  Subs(w)!Idle \in CallRow(w) /\ InHand(w, Subs(w)!Idle) /\ ~Held(Subs(w)!Idle)
<1>1. 0 \in 0 .. w.rounds
  BY DEF Subs!SubmissionsAssumption
<1>2. Subs(w)!NoVault \in VaultRow(w)
  BY <1>1 DEF Subs!NoVault, VaultRow, VaultStatuses
<1> QED BY <1>2 DEF Subs!Idle, CallRow, InHand, Held

LEMMA Ends ==
  ASSUME NEW w, Subs(w)!SubmissionsAssumption, WorkInv(w),
                UNCHANGED <<factory, accepted, vaultRow, subs, proofs, subCalls>>,
                NEW r \in w.requests, Subs(w)!Finish(r)
  PROVE  WorkInv(w)'
<1>1. subCalls' \in Nat /\ subCalls' <= w.calls
  BY DEF WorkInv, WorkTyped
<1> QED BY <1>1, IdleInHand, GoesOn DEF Subs!Finish

(* An uploaded or stored payload takes the place of the one under its hash. *)
LEMMA PutBacked ==
  ASSUME NEW w, WorkInv(w), NEW p, NEW key, NEW k, proofs' = Subs(w)!put(proofs, p, key, k),
                Len(subs') \in Nat, Len(subs) <= Len(subs'), \A i \in 1 .. Len(subs) : subs'[i] = subs[i],
                k # 0 => \E i \in 1 .. Len(subs') : subs'[i].payload = p /\ subs'[i].tx = k
  PROVE  ProofsBacked'
<1>1. PICK n : n = [payload |-> p, key |-> key, tx |-> k]
  OBVIOUS
<1>0. n.payload = p /\ n.tx = k
  BY <1>1
<1>2. \A m \in proofs' : m = n \/ (m \in proofs /\ m.payload # p)
  BY <1>1 DEF Subs!put
<1>3. \A m, o \in proofs' : m.payload = o.payload => m = o
  BY <1>0, <1>2 DEF WorkInv, ProofsBacked
<1>4. ASSUME NEW m \in proofs', m.tx # 0
      PROVE  \E i \in 1 .. Len(subs') : subs'[i].payload = m.payload /\ subs'[i].tx = m.tx
  <2>1. CASE m = n
    BY <1>0, <1>4, <2>1
  <2>2. CASE m \in proofs
    <3>1. PICK i \in 1 .. Len(subs) : subs[i].payload = m.payload /\ subs[i].tx = m.tx
      BY <1>4, <2>2 DEF WorkInv, ProofsBacked
    <3>2. i \in 1 .. Len(subs')
      BY Lengths
    <3> QED BY <3>1, <3>2
  <2> QED BY <1>2, <2>1, <2>2
<1> QED BY <1>3, <1>4 DEF ProofsBacked

LEMMA UploadKeeps ==
  ASSUME NEW w, Subs(w)!SubmissionsAssumption, WorkInv(w), NEW a \in w.agents, Subs(w)!storePayload(a)
  PROVE  WorkInv(w)'
<1>1. /\ UNCHANGED <<factory, accepted, vaultRow, subs, subRequest>>
      /\ subCalls < w.calls /\ subCalls' = subCalls + 1
  BY DEF Subs!storePayload
<1>2. WorkTyped(w)'
  <2>1. subCalls' \in Nat /\ subCalls' <= w.calls
    BY <1>1 DEF WorkInv, WorkTyped, Subs!SubmissionsAssumption
  <2> QED BY <1>1, <2>1 DEF WorkInv, WorkTyped
<1>3. ProofsBacked'
  <2>1. PICK p, key : proofs' = Subs(w)!put(proofs, p, key, 0)
    BY DEF Subs!storePayload
  <2> QED BY <1>1, <2>1, PutBacked, Lengths
<1> QED BY <1>1, <1>2, <1>3, NoneIsGone, OthersMove

(* The factory takes one more transaction. *)
LEMMA TxAdded ==
  ASSUME NEW w, WorkInv(w), Len(accepted) < w.txs, w.txs \in Nat, NEW t \in TxRow(w),
         accepted' = Append(accepted, t)
  PROVE  /\ accepted' \in Seq(TxRow(w)) /\ Len(accepted') \in Nat /\ Len(accepted') <= w.txs /\ TxsGrow
         /\ Len(accepted) + 1 \in 1 .. Len(accepted') /\ accepted'[Len(accepted) + 1] = t
<1>1. accepted \in Seq(TxRow(w)) /\ Len(accepted) \in Nat
  BY DEF WorkInv, WorkTyped
<1>2. /\ accepted' \in Seq(TxRow(w)) /\ Len(accepted') = Len(accepted) + 1 /\ accepted'[Len(accepted) + 1] = t
      /\ \A k \in 1 .. Len(accepted) : accepted'[k] = accepted[k]
  BY <1>1, AppendProperties
<1> QED BY <1>1, <1>2 DEF TxsGrow

LEMMA Rounds ==
  ASSUME NEW w, Subs(w)!SubmissionsAssumption, NEW v \in VaultRow(w), NEW k
  PROVE  Subs(w)!currentRoundForKind(v, k) \in 0 .. w.rounds /\ Subs(w)!currentRoundForKind(v, k) \in Nat
<1>1. v.ruleRound \in 0 .. w.rounds /\ v.resRound \in 0 .. w.rounds /\ w.rounds \in Nat
  BY DEF VaultRow, Subs!SubmissionsAssumption
<1>2. Subs(w)!currentRoundForKind(v, k) = v.ruleRound \/ Subs(w)!currentRoundForKind(v, k) = v.resRound
  BY DEF Subs!currentRoundForKind
<1> QED BY <1>1, <1>2

LEMMA PayloadMade ==
  ASSUME NEW w, Subs(w)!SubmissionsAssumption, NEW k \in w.kinds, NEW a \in w.agents,
                NEW t \in Subs(w)!Targets(k), NEW who \in Subs(w)!Whats(k),
                NEW id \in {"local", "external"}, NEW n \in Nat
  PROVE  Subs(w)!payload(k, a, t, who, id, n) \in Payload(w) /\ k \in AllKinds(w)
<1>1. k \in AllKinds(w)
  BY DEF AllKinds, Subs!SubmissionsAssumption
<1>2. t \in w.agents \cup {"none"}
  <2>1. Subs(w)!Targets(k) \in {w.validators, w.validators \cup w.auditors, {"none"}}
    BY DEF Subs!Targets
  <2> QED BY <2>1 DEF Subs!SubmissionsAssumption
<1>3. who \in w.outcomes \cup {"findings"}
  BY DEF Subs!Whats
<1> QED BY <1>1, <1>2, <1>3 DEF Subs!payload, Payload

LEMMA BroadcastKeeps ==
  ASSUME NEW w, Subs(w)!SubmissionsAssumption, WorkInv(w), NEW a \in w.agents, NEW k \in w.kinds,
         Subs(w)!broadcast(a, k)
  PROVE  WorkInv(w)'
<1>1. /\ UNCHANGED <<factory, vaultRow, subs, proofs, subRequest, subCalls>>
      /\ Len(accepted) < w.txs /\ w.txs \in Nat
  BY DEF Subs!broadcast, Subs!SubmissionsAssumption
<1>2. PICK t \in Subs(w)!Targets(k), who \in Subs(w)!Whats(k), id \in w.ids :
        accepted' = Append(accepted,
                    [agent |-> a, payload |-> Subs(w)!payload(k, a, t, who, id, Subs(w)!currentRoundForKind(vaultRow, k)),
                            at |-> Subs(w)!currentRoundForKind(factory, k)])
  BY DEF Subs!broadcast
<1>0. PICK p : p = Subs(w)!payload(k, a, t, who, id, Subs(w)!currentRoundForKind(vaultRow, k))
  OBVIOUS
<1>3. p \in Payload(w)
  <2>1. id \in {"local", "external"}
    BY <1>2 DEF Subs!SubmissionsAssumption
  <2>2. Subs(w)!currentRoundForKind(vaultRow, k) \in Nat
    BY Rounds DEF WorkInv, WorkTyped
  <2> QED BY <1>0, <2>1, <2>2, PayloadMade
<1>4. Subs(w)!currentRoundForKind(factory, k) \in Nat
  BY Rounds DEF WorkInv, WorkTyped
<1>5. PICK x \in TxRow(w) : x = [agent |-> a, payload |-> p, at |-> Subs(w)!currentRoundForKind(factory, k)]
  BY <1>3, <1>4 DEF TxRow
<1>6. accepted' \in Seq(TxRow(w)) /\ Len(accepted') \in Nat /\ Len(accepted') <= w.txs /\ TxsGrow
  BY <1>0, <1>1, <1>2, <1>5, TxAdded
<1>7. WorkTyped(w)'
  BY <1>1, <1>6 DEF WorkInv, WorkTyped
<1>8. ProofsBacked'
  BY <1>1 DEF WorkInv, ProofsBacked
<1> QED BY <1>1, <1>6, <1>7, <1>8, OthersMove

(* Only the vault moves, on the chain or in the record. *)
LEMMA VaultMoves ==
  ASSUME NEW w, WorkInv(w), UNCHANGED <<accepted, subs, proofs, subRequest, subCalls>>,
                factory' \in VaultRow(w), vaultRow' \in VaultRow(w)
  PROVE  WorkInv(w)'
<1>1. WorkTyped(w)'
  BY DEF WorkInv, WorkTyped
<1>2. ProofsBacked'
  BY DEF WorkInv, ProofsBacked
<1> QED BY <1>1, <1>2, NoneIsGone, OthersMove

LEMMA ChainKeeps ==
    ASSUME NEW w, WorkInv(w), Subs(w)!chainMoves \/ Subs(w)!syncOnchainSnapshot
    PROVE  WorkInv(w)'
<1>1. factory \in VaultRow(w) /\ vaultRow \in VaultRow(w)
  BY DEF WorkInv, WorkTyped
<1>2. CASE Subs(w)!chainMoves
  <2>1. factory' \in VaultRow(w) /\ UNCHANGED <<accepted, vaultRow, subs, proofs, subRequest, subCalls>>
    BY <1>1, <1>2 DEF Subs!chainMoves, VaultRow, VaultStatuses
  <2> QED BY <1>1, <2>1, VaultMoves
<1>3. CASE Subs(w)!syncOnchainSnapshot
  BY <1>1, <1>3, VaultMoves DEF Subs!syncOnchainSnapshot
<1> QED BY <1>2, <1>3

LEMMA BootstrapFormsKeeps ==
  ASSUME NEW w, Subs(w)!SubmissionsAssumption, WorkInv(w), NEW phase, Subs(w)!bootstrapCommittee(phase)
  PROVE  WorkInv(w)'
<1>1. factory \in VaultRow(w) /\ w.rounds \in Nat
  BY DEF WorkInv, WorkTyped, Subs!SubmissionsAssumption
<1>2. UNCHANGED <<accepted, subs, proofs, subRequest, subCalls>> /\ vaultRow' = factory'
  BY DEF Subs!bootstrapCommittee
<1>3. factory' \in VaultRow(w)
  <2>1. factory.ruleRound \in 0 .. w.rounds /\ factory.resRound \in 0 .. w.rounds
    BY <1>1 DEF VaultRow
  <2>2. CASE phase = "rule"
    <3>1. factory.ruleRound + 1 \in 0 .. w.rounds
      BY <1>1, <2>1, <2>2 DEF Subs!bootstrapCommittee
    <3>2. factory' = [factory EXCEPT !.status = "RuleDrafting",
                                    !.ruleRound = factory.ruleRound + 1, !.rule = TRUE]
      BY <2>2 DEF Subs!bootstrapCommittee
    <3> QED BY <1>1, <3>1, <3>2 DEF VaultRow, VaultStatuses
  <2>3. CASE phase # "rule"
    <3>1. factory.resRound + 1 \in 0 .. w.rounds
      BY <1>1, <2>1, <2>3 DEF Subs!bootstrapCommittee
    <3>2. factory' = [factory EXCEPT !.status = "CommitPhase",
                                    !.resRound = factory.resRound + 1, !.resolution = TRUE]
      BY <2>3 DEF Subs!bootstrapCommittee
    <3> QED BY <1>1, <3>1, <3>2 DEF VaultRow, VaultStatuses
  <2> QED BY <2>2, <2>3
<1> QED BY <1>2, <1>3, VaultMoves

(* What an agent may submit. *)
LEMMA InputsMade ==
  ASSUME NEW w, Subs(w)!SubmissionsAssumption, WorkInv(w), NEW input \in Subs(w)!Inputs
  PROVE  input \in Input(w) /\ input.tx \in 0 .. Len(accepted)
<1>1. Len(accepted) \in Nat /\ DOMAIN accepted = 1 .. Len(accepted) /\ accepted \in Seq(TxRow(w))
  BY DEF WorkInv, WorkTyped
<1>2. CASE w.production
  <2>1. PICK i \in {i \in DOMAIN accepted : accepted[i].payload.kind \in w.kinds}, j \in DOMAIN accepted :
          input = [kind |-> accepted[i].payload.kind, agent |-> accepted[i].agent,
                   payload |-> accepted[i].payload, tx |-> j]
    BY <1>2 DEF Subs!Inputs
  <2>2. accepted[i] \in TxRow(w)
    BY <1>1, ElementOfSeq
  <2>3. accepted[i].agent \in w.agents /\ accepted[i].payload \in Payload(w)
        /\ accepted[i].payload.kind \in AllKinds(w)
    BY <2>2 DEF TxRow, Payload
  <2>4. j \in Nat /\ j \in 0 .. Len(accepted)
    BY <1>1
  <2> QED BY <2>1, <2>3, <2>4 DEF Input
<1>3. CASE ~w.production
  <2>1. PICK k \in w.kinds, a \in w.agents :
          input \in {[kind |-> k, agent |-> a,
                      payload |-> Subs(w)!payload(k, a, t, who, "external", turn), tx |-> 0] :
                       t \in Subs(w)!Targets(k), who \in Subs(w)!Whats(k), turn \in 0 .. w.rounds}
    BY <1>3 DEF Subs!Inputs
  <2>2. PICK t \in Subs(w)!Targets(k), who \in Subs(w)!Whats(k), turn \in 0 .. w.rounds :
          input = [kind |-> k, agent |-> a,
                   payload |-> Subs(w)!payload(k, a, t, who, "external", turn), tx |-> 0]
    BY <2>1
  <2>3. Subs(w)!payload(k, a, t, who, "external", turn) \in Payload(w) /\ k \in AllKinds(w)
    BY PayloadMade
  <2>4. 0 \in Nat /\ 0 \in 0 .. Len(accepted)
    BY <1>1
  <2> HIDE DEF Subs!payload
  <2> QED BY <2>2, <2>3, <2>4 DEF Input
<1> QED BY <1>2, <1>3

LEMMA SubmitKeeps ==
  ASSUME NEW w, Subs(w)!SubmissionsAssumption, WorkInv(w), NEW r \in w.requests, Subs(w)!submit(r)
  PROVE  WorkInv(w)'
<1>1. /\ UNCHANGED <<factory, accepted, vaultRow, subs, proofs>> /\ subCalls' \in Nat
      /\ subCalls' <= w.calls
  BY DEF Subs!submit, WorkInv, WorkTyped, Subs!SubmissionsAssumption
<1>2. PICK input \in Subs(w)!Inputs : Subs(w)!Goto(r, [Subs(w)!Idle EXCEPT !.pc = "normalize", !.input = input])
  BY DEF Subs!submit
<1>3. PICK q : q = [Subs(w)!Idle EXCEPT !.pc = "normalize", !.input = input]
  OBVIOUS
<1>4. input \in Input(w) /\ input.tx <= Len(accepted)
  BY InputsMade, Lengths
<1>5. Subs(w)!NoVault \in VaultRow(w)
  <2>1. Subs(w)!Idle \in CallRow(w)
    BY IdleInHand
  <2> QED BY <2>1 DEF Subs!Idle, CallRow
<1>6. q \in CallRow(w) /\ q.pc = "normalize" /\ q.input = input
  BY <1>3, <1>4, <1>5 DEF Subs!Idle, CallRow
<1>7. InHand(w, q) /\ ~Held(q)
  BY <1>4, <1>6 DEF InHand, Held
<1> QED BY <1>1, <1>2, <1>3, <1>6, <1>7, GoesOn

(* Giving an input its round changes nothing else of it. *)
LEMMA NormalizedInput ==
  ASSUME NEW w, Subs(w)!SubmissionsAssumption, NEW input \in Input(w), NEW v \in VaultRow(w)
  PROVE  Subs(w)!normalized(input, v) \in Input(w) /\ Subs(w)!normalized(input, v).tx = input.tx
<1>1. PICK n : n = Subs(w)!currentRoundForKind(v, input.kind) /\ n \in Nat
  BY Rounds
<1>2. input.payload \in Payload(w) /\ input.payload.round \in Nat
  BY DEF Input, Payload
<1>3. PICK m \in Nat : m = IF n = 0 THEN input.payload.round ELSE n
  BY <1>1, <1>2
<1>4. PICK p \in Payload(w) : p = [input.payload EXCEPT !.round = m]
  BY <1>2 DEF Payload
<1>5. [input EXCEPT !.payload = p] \in Input(w) /\ [input EXCEPT !.payload = p].tx = input.tx
  BY DEF Input
<1>6. Subs(w)!normalized(input, v) = input \/ Subs(w)!normalized(input, v) = [input EXCEPT !.payload = p]
  BY <1>1, <1>3, <1>4 DEF Subs!normalized
<1> QED BY <1>5, <1>6

(* The steps before the second check. *)
LEMMA PrepareKeeps ==
  ASSUME NEW w, Subs(w)!SubmissionsAssumption, WorkInv(w), NEW r \in w.requests,
                Subs(w)!notBootstrapped(r) \/ Subs(w)!preview(r) \/ Subs(w)!prepareSubmissionArtifacts(r)
                  \/ Subs(w)!resolveVault(r) \/ Subs(w)!fails(r)
  PROVE  WorkInv(w)'
<1>1. UNCHANGED <<factory, accepted, vaultRow, subs, proofs, subCalls>>
  BY DEF Subs!notBootstrapped, Subs!preview, Subs!prepareSubmissionArtifacts, Subs!resolveVault,
         Subs!fails
<1>2. subCalls' \in Nat /\ subCalls' <= w.calls
  BY <1>1 DEF WorkInv, WorkTyped
<1>3. PICK q \in CallRow(w) : q = subRequest[r] /\ InHand(w, q)
  BY CallOf
<1>4. vaultRow \in VaultRow(w)
  BY DEF WorkInv, WorkTyped
<1>5. CASE Subs(w)!Finish(r)
  BY <1>1, <1>5, Ends
<1>6. CASE Subs(w)!preview(r) /\ ~Subs(w)!Finish(r)
  <2>1. PICK input : input = Subs(w)!normalized(q.input, vaultRow)
    OBVIOUS
  <2>2. q.pc = "normalize" /\ Subs(w)!Goto(r, [q EXCEPT !.pc = "prepare", !.input = input])
    BY <1>3, <1>6, <2>1 DEF Subs!preview
  <2>3. q.input \in Input(w) /\ q.input.tx <= Len(accepted)
    BY <1>3, <2>2 DEF InHand
  <2>4. input \in Input(w) /\ input.tx <= Len(accepted)
    BY <1>4, <2>1, <2>3, NormalizedInput
  <2>5. PICK c : c = [q EXCEPT !.pc = "prepare", !.input = input]
    OBVIOUS
  <2>6. c \in CallRow(w) /\ c.pc = "prepare" /\ c.input = input
    BY <1>3, <2>4, <2>5 DEF CallRow
  <2>7. InHand(w, c) /\ ~Held(c)
    BY <2>4, <2>6 DEF InHand, Held
  <2> QED BY <1>1, <1>2, <2>2, <2>5, <2>6, <2>7, GoesOn
<1>7. CASE Subs(w)!prepareSubmissionArtifacts(r) /\ ~Subs(w)!Finish(r)
  <2>1. q.pc = "prepare" /\ Subs(w)!Goto(r, [q EXCEPT !.pc = "begin"])
    BY <1>3, <1>7 DEF Subs!prepareSubmissionArtifacts
  <2>2. PICK c : c = [q EXCEPT !.pc = "begin"]
    OBVIOUS
  <2>3. c \in CallRow(w) /\ c.pc = "begin" /\ c.input = q.input
    BY <1>3, <2>2 DEF CallRow
  <2>4. InHand(w, c) /\ ~Held(c)
    BY <1>3, <2>1, <2>3 DEF InHand, Held
  <2> QED BY <1>1, <1>2, <2>1, <2>2, <2>3, <2>4, GoesOn
<1>8. CASE Subs(w)!resolveVault(r)
  <2>1. q.pc = "begin" /\ Subs(w)!Goto(r, [q EXCEPT !.pc = "lock", !.seen = vaultRow])
    BY <1>3, <1>8 DEF Subs!resolveVault
  <2>2. PICK c : c = [q EXCEPT !.pc = "lock", !.seen = vaultRow]
    OBVIOUS
  <2>3. c \in CallRow(w) /\ c.pc = "lock" /\ c.input = q.input
    BY <1>3, <1>4, <2>2 DEF CallRow
  <2>4. InHand(w, c) /\ ~Held(c)
    BY <1>3, <2>1, <2>3 DEF InHand, Held
  <2> QED BY <1>1, <1>2, <2>1, <2>2, <2>3, <2>4, GoesOn
<1>9. Subs(w)!notBootstrapped(r) \/ Subs(w)!fails(r) => Subs(w)!Finish(r)
  BY DEF Subs!notBootstrapped, Subs!fails
<1> QED BY <1>5, <1>6, <1>7, <1>8, <1>9

(* The second check, behind the agent's row: what it finds stays so. *)
LEMMA LockKeeps ==
  ASSUME NEW w, Subs(w)!SubmissionsAssumption, WorkInv(w), NEW r \in w.requests, Subs(w)!saveAgent(r)
  PROVE  WorkInv(w)'
<1>1. UNCHANGED <<factory, accepted, vaultRow, subs, proofs, subCalls>>
  BY DEF Subs!saveAgent
<1>2. PICK q \in CallRow(w) : q = subRequest[r] /\ InHand(w, q) /\ q.pc = "lock"
  BY CallOf DEF Subs!saveAgent
<1>3. CASE Subs(w)!Finish(r)
  BY <1>1, <1>3, Ends
<1>4. CASE ~Subs(w)!Finish(r)
  <2>1. /\ ~Subs(w)!locked(r) /\ Subs(w)!ensureSubmissionEligibility(q.input, q.seen)
        /\ Subs(w)!Goto(r, [q EXCEPT !.pc = "verify"])
    BY <1>2, <1>4 DEF Subs!saveAgent
  <2>2. PICK c : c = [q EXCEPT !.pc = "verify"]
    OBVIOUS
  <2>3. c \in CallRow(w) /\ c.pc = "verify" /\ c.input = q.input
    BY <1>2, <2>2 DEF CallRow
  <2>4. InHand(w, c)'
    BY <1>1, <1>2, <2>3 DEF InHand, Shows
  <2>5. \A o \in w.requests \ {r} : Held(subRequest[o]) => subRequest[o].input.agent # c.input.agent
    BY <1>2, <2>1, <2>3 DEF Subs!locked, Held
  <2>6. \A i \in 1 .. Len(subs) : ~SameKey(subs[i], c.input)
    <3>1. SUFFICES ASSUME NEW i \in 1 .. Len(subs), SameKey(subs[i], c.input) PROVE FALSE
      OBVIOUS
    <3>2. Subs(w)!submissionUniquenessKey(subs[i]) = Subs(w)!submissionUniquenessKey(c.input)
      BY <3>1 DEF SameKey, Subs!submissionUniquenessKey
    <3>3. c.input.kind # "public_challenge"
      BY <3>1 DEF SameKey
    <3> QED BY <2>1, <2>3, <3>2, <3>3, Lengths DEF Subs!ensureSubmissionEligibility
  <2>7. WorkTyped(w)'
    BY <1>1, <2>1, <2>2, <2>3 DEF WorkInv, WorkTyped, Subs!Goto
  <2> QED BY <1>1, <2>1, <2>2, <2>3, <2>4, <2>5, <2>6, <2>7, NoneIsGone, RequestMoves
<1> QED BY <1>3, <1>4

(* The transaction is found to show what is submitted, or made to. *)
LEMMA ExecutedKeeps ==
  ASSUME NEW w, Subs(w)!SubmissionsAssumption, WorkInv(w), NEW r \in w.requests, Subs(w)!executed(r)
  PROVE  WorkInv(w)'
<1>1. UNCHANGED <<factory, vaultRow, subs, proofs, subCalls>>
  BY DEF Subs!executed
<1>2. PICK q \in CallRow(w) : q = subRequest[r] /\ InHand(w, q) /\ q.pc = "verify"
  BY CallOf DEF Subs!executed
<1>3. q.input \in Input(w) /\ q.input.tx <= Len(accepted) /\ q.input.tx \in Nat
  BY <1>2 DEF InHand, Input
<1>4. ASSUME NEW c \in CallRow(w), c.pc = "store", c.input = q.input, Subs(w)!Goto(r, c),
             Shows(w, c.tx, c.input)',
             accepted' \in Seq(TxRow(w)), Len(accepted') <= w.txs, TxsGrow
      PROVE  WorkInv(w)'
  <2>1. InHand(w, c)'
    <3>1. Len(accepted) \in Nat /\ Len(accepted') \in Nat /\ Len(accepted) <= Len(accepted')
      BY <1>4, Lengths DEF TxsGrow
    <3> QED BY <1>3, <1>4, <3>1 DEF InHand, Shows
  <2>2. WorkTyped(w)'
    BY <1>1, <1>4 DEF WorkInv, WorkTyped, Subs!Goto
  <2>3. /\ \A o \in w.requests \ {r} : Held(subRequest[o]) => subRequest[o].input.agent # c.input.agent
        /\ \A i \in 1 .. Len(subs) : ~SameKey(subs[i], c.input)
    BY <1>2, <1>4 DEF WorkInv, OneOfAnAgent, FirstOfItsKey, Held
  <2> QED BY <1>1, <1>4, <2>1, <2>2, <2>3, RequestMoves
<1>5. CASE q.input.tx # 0 /\ Subs(w)!Finish(r) /\ UNCHANGED accepted
  BY <1>1, <1>5, Ends
<1>6. CASE /\ q.input.tx # 0 /\ Subs(w)!verifyExecution(q.input) /\ UNCHANGED accepted
           /\ Subs(w)!Goto(r, [q EXCEPT !.pc = "store", !.tx = q.input.tx])
  <2>1. PICK c : c = [q EXCEPT !.pc = "store", !.tx = q.input.tx]
    OBVIOUS
  <2>2. c \in CallRow(w) /\ c.pc = "store" /\ c.input = q.input /\ c.tx = q.input.tx
    BY <1>2, <1>3, <2>1 DEF CallRow
  <2>3. Shows(w, c.tx, c.input)'
    <3>1. c.tx \in 1 .. Len(accepted)
      BY <1>3, <1>6, <2>2, Lengths
    <3> QED BY <1>6, <2>2, <3>1 DEF Shows, Subs!verifyExecution
  <2>4. accepted' \in Seq(TxRow(w)) /\ Len(accepted') <= w.txs
    BY <1>6 DEF WorkInv, WorkTyped
  <2> QED BY <1>4, <1>6, <2>1, <2>2, <2>3, <2>4, NoneIsGone
<1>7. CASE /\ Len(accepted) < w.txs
           /\ accepted' = Append(accepted, [agent |-> q.input.agent, payload |-> q.input.payload,
                                          at |-> Subs(w)!currentRoundForKind(factory, q.input.kind)])
           /\ Subs(w)!Goto(r, [q EXCEPT !.pc = "store", !.tx = Len(accepted) + 1])
  <2>1. Subs(w)!currentRoundForKind(factory, q.input.kind) \in Nat
    BY Rounds DEF WorkInv, WorkTyped
  <2>2. PICK t : t = [agent |-> q.input.agent, payload |-> q.input.payload,
                      at |-> Subs(w)!currentRoundForKind(factory, q.input.kind)]
    OBVIOUS
  <2>3. t \in TxRow(w) /\ t.agent = q.input.agent /\ t.payload = q.input.payload
    BY <1>3, <2>1, <2>2 DEF TxRow, Input
  <2>4. /\ accepted' \in Seq(TxRow(w)) /\ Len(accepted') \in Nat /\ Len(accepted') <= w.txs /\ TxsGrow
        /\ Len(accepted) + 1 \in 1 .. Len(accepted') /\ accepted'[Len(accepted) + 1] = t
    BY <1>7, <2>2, <2>3, TxAdded DEF Subs!SubmissionsAssumption
  <2>5. PICK c : c = [q EXCEPT !.pc = "store", !.tx = Len(accepted) + 1]
    OBVIOUS
  <2>6. c \in CallRow(w) /\ c.pc = "store" /\ c.input = q.input /\ c.tx = Len(accepted) + 1
    <3>1. PICK k \in Nat : k = Len(accepted) + 1
      BY Lengths
    <3> QED BY <1>2, <2>5, <3>1 DEF CallRow
  <2>7. Shows(w, c.tx, c.input)'
    BY <2>3, <2>4, <2>6 DEF Shows
  <2> QED BY <1>4, <1>7, <2>4, <2>5, <2>6, <2>7
<1> QED BY <1>2, <1>5, <1>6, <1>7 DEF Subs!executed

LEMMA ProgressKeepsRounds ==
  ASSUME NEW w, NEW v \in VaultRow(w), NEW k \in AllKinds(w)
  PROVE  Subs(w)!progressVaultState(v, k) \in VaultRow(w)
<1>1. \A s \in VaultStatuses : [v EXCEPT !.status = s] \in VaultRow(w)
  BY DEF VaultRow
<1>2. PICK s : s = CASE k \in Subs(w)!RuleKinds -> "RuleDrafting"
                     [] k = "resolution_commit" -> "CommitPhase"
                     [] k = "resolution_reveal" -> "RevealPhase"
                     [] k = "audit_verdict" -> "AuditPhase"
                     [] k = "public_challenge" -> "PublicChallenge"
  OBVIOUS
<1>3. s \in VaultStatuses
  BY <1>2 DEF AllKinds, Subs!RuleKinds, Subs!ResolutionKinds, VaultStatuses
<1> QED BY <1>1, <1>2, <1>3 DEF Subs!progressVaultState

(* Submission, proof and vault are stored, and the row is let go. *)
LEMMA StoreKeeps ==
  ASSUME NEW w, Subs(w)!SubmissionsAssumption, WorkInv(w), NEW r \in w.requests, Subs(w)!store(r)
  PROVE  WorkInv(w)'
<1>1. PICK q \in CallRow(w) : q = subRequest[r] /\ InHand(w, q) /\ q.pc = "store"
  BY CallOf DEF Subs!store
<1>2. PICK s : s = [kind |-> q.input.kind, agent |-> q.input.agent, payload |-> q.input.payload,
                    tx |-> q.tx, validation |-> Subs(w)!attachValidation(q.input)]
  OBVIOUS
<1>3. /\ proofs' = Subs(w)!put(proofs, s.payload, Subs(w)!LocalId, s.tx) /\ subs' = Append(subs, s)
      /\ vaultRow' = Subs(w)!progressVaultState(q.seen, s.kind) /\ Subs(w)!Goto(r, Subs(w)!Idle)
      /\ UNCHANGED <<factory, accepted, subCalls>>
  BY <1>1, <1>2 DEF Subs!store, Subs!Finish
<1>4. /\ s \in SubRow(w) /\ s.kind = q.input.kind /\ s.agent = q.input.agent
      /\ s.payload = q.input.payload
      /\ s.tx = q.tx
  <2>1. q.input \in Input(w) /\ q.tx \in Nat
    BY <1>1 DEF InHand, CallRow
  <2>2. Subs(w)!attachValidation(q.input) \in {"none", "match", "mismatch"}
    BY DEF Subs!attachValidation
  <2> QED BY <1>2, <2>1, <2>2 DEF SubRow, Input
<1>5. /\ subs' \in Seq(SubRow(w)) /\ Len(subs') = Len(subs) + 1 /\ subs'[Len(subs) + 1] = s
      /\ \A i \in 1 .. Len(subs) : subs'[i] = subs[i]
  <2>1. subs \in Seq(SubRow(w))
    BY DEF WorkInv, WorkTyped
  <2> QED BY <1>3, <1>4, <2>1, AppendProperties
<1>6. \A i \in 1 .. Len(subs') : \/ i \in 1 .. Len(subs) /\ subs'[i] = subs[i]
                                 \/ i = Len(subs) + 1 /\ subs'[i] = s
  BY <1>5, Lengths
<1>7. \A o \in w.requests : subRequest'[o] = IF o = r THEN Subs(w)!Idle ELSE subRequest[o]
  BY <1>3 DEF Subs!Goto, WorkInv, WorkTyped
<1>8. WorkTyped(w)'
  <2>1. vaultRow' \in VaultRow(w)
    <3>1. q.seen \in VaultRow(w) /\ s.kind \in AllKinds(w)
      BY <1>4 DEF CallRow, SubRow
    <3> QED BY <1>3, <3>1, ProgressKeepsRounds
  <2>2. subRequest' \in [w.requests -> CallRow(w)]
    BY <1>3, IdleInHand DEF Subs!Goto, WorkInv, WorkTyped
  <2> QED BY <1>3, <1>5, <2>1, <2>2 DEF WorkInv, WorkTyped
<1>9. AllInHand(w)'
  <2>1. ASSUME NEW o \in w.requests PROVE InHand(w, subRequest[o])'
    <3>1. CASE o = r
      BY <1>7, <3>1 DEF InHand, Subs!Idle
    <3>2. CASE o # r
      BY <1>3, <1>7, <3>2, CallOf DEF InHand, Shows
    <3> QED BY <3>1, <3>2
  <2> QED BY <2>1 DEF AllInHand
<1>10. ~Held(Subs(w)!Idle) /\ Held(q)
  BY <1>1 DEF Held, Subs!Idle
<1>11. OneOfAnAgent(w)'
  <2>1. ASSUME NEW o \in w.requests, NEW c \in w.requests, Held(subRequest'[o]), Held(subRequest'[c]),
               subRequest'[o].input.agent = subRequest'[c].input.agent
        PROVE  o = c
    BY <1>7, <1>10, <2>1 DEF WorkInv, OneOfAnAgent
  <2> QED BY <2>1 DEF OneOfAnAgent, Held
<1>12. FirstOfItsKey(w)'
  <2>1. ASSUME NEW o \in w.requests, Held(subRequest'[o]), NEW i \in 1 .. Len(subs')
        PROVE  ~SameKey(subs'[i], subRequest'[o].input)
    <3>1. o # r /\ subRequest'[o] = subRequest[o] /\ Held(subRequest[o])
      BY <1>7, <1>10, <2>1
    <3>2. CASE i \in 1 .. Len(subs) /\ subs'[i] = subs[i]
      BY <3>1, <3>2 DEF WorkInv, FirstOfItsKey
    <3>3. CASE subs'[i] = s
      <4>1. subRequest[o].input.agent # s.agent
        BY <1>1, <1>4, <1>10, <3>1 DEF WorkInv, OneOfAnAgent
      <4> QED BY <3>1, <3>3, <4>1 DEF SameKey
    <3> QED BY <1>6, <3>2, <3>3
  <2> QED BY <2>1 DEF FirstOfItsKey, Held, SameKey
<1>13. NoTwo'
  <2>1. ASSUME NEW i \in 1 .. Len(subs) PROVE ~SameKey(subs[i], s) /\ ~SameKey(s, subs[i])
    <3>1. ~SameKey(subs[i], q.input)
      BY <1>1, <1>10 DEF WorkInv, FirstOfItsKey
    <3> QED BY <1>4, <3>1 DEF SameKey
  <2>2. ASSUME NEW i \in 1 .. Len(subs'), NEW j \in 1 .. Len(subs'), SameKey(subs'[i], subs'[j])
        PROVE  i = j
    <3>1. CASE i = Len(subs) + 1 /\ j = Len(subs) + 1
      BY <3>1
    <3>2. CASE /\ i \in 1 .. Len(subs) /\ subs'[i] = subs[i]
               /\ j \in 1 .. Len(subs) /\ subs'[j] = subs[j]
      BY <2>2, <3>2 DEF WorkInv, NoTwo
    <3>3. CASE i \in 1 .. Len(subs) /\ subs'[i] = subs[i] /\ subs'[j] = s
      BY <2>1, <2>2, <3>3
    <3>4. CASE j \in 1 .. Len(subs) /\ subs'[j] = subs[j] /\ subs'[i] = s
      BY <2>1, <2>2, <3>4
    <3> QED BY <1>6, <3>1, <3>2, <3>3, <3>4
  <2> QED BY <2>2 DEF NoTwo, SameKey
<1>14. OnChain(w)'
  <2>1. Shows(w, s.tx, s)
    BY <1>1, <1>4 DEF InHand, Shows
  <2>2. ASSUME NEW i \in 1 .. Len(subs') PROVE Shows(w, subs'[i].tx, subs'[i])
    BY <1>6, <2>1 DEF WorkInv, OnChain
  <2> QED BY <1>3, <2>2 DEF OnChain, Shows
<1>15. ProofsBacked'
  <2>1. Len(subs') \in Nat /\ Len(subs) <= Len(subs') /\ Len(subs) + 1 \in 1 .. Len(subs')
    BY <1>5, Lengths
  <2> QED BY <1>3, <1>5, <2>1, PutBacked
<1> QED BY <1>8, <1>9, <1>11, <1>12, <1>13, <1>14, <1>15 DEF WorkInv

LEMMA WorkAtFirst == ASSUME NEW w, Subs(w)!SubmissionsAssumption, Subs(w)!Init PROVE WorkInv(w)
<1>1. 0 \in 0 .. w.rounds /\ 1 \in 0 .. w.rounds /\ 0 \in Nat /\ 0 <= w.txs /\ 0 <= w.calls
  BY DEF Subs!SubmissionsAssumption
<1>2. factory \in VaultRow(w) /\ vaultRow \in VaultRow(w)
  BY <1>1 DEF Subs!Init, VaultRow, VaultStatuses, Subs!SubmissionsAssumption
<1>3. accepted \in Seq(TxRow(w)) /\ Len(accepted) = 0 /\ subs \in Seq(SubRow(w)) /\ Len(subs) = 0
  BY EmptySeq DEF Subs!Init
<1>4. /\ subRequest \in [w.requests -> CallRow(w)]
      /\ \A r \in w.requests : InHand(w, subRequest[r]) /\ ~Held(subRequest[r])
  BY IdleInHand DEF Subs!Init
<1>5. WorkTyped(w) /\ AllInHand(w)
  BY <1>1, <1>2, <1>3, <1>4 DEF Subs!Init, WorkTyped, AllInHand
<1>6. OneOfAnAgent(w) /\ FirstOfItsKey(w)
  BY <1>4 DEF OneOfAnAgent, FirstOfItsKey
<1>7. NoTwo /\ OnChain(w) /\ ProofsBacked
  BY <1>3 DEF Subs!Init, NoTwo, OnChain, ProofsBacked
<1> QED BY <1>5, <1>6, <1>7 DEF WorkInv

LEMMA WorkIsKept ==
  ASSUME NEW w, Subs(w)!SubmissionsAssumption, WorkInv(w), [Subs(w)!Next]_(Subs(w)!vars)
  PROVE  WorkInv(w)'
<1>1. CASE UNCHANGED Subs(w)!vars
  <2>1. WorkTyped(w)' /\ ProofsBacked' /\ UNCHANGED <<subs, subRequest, accepted>>
    BY <1>1 DEF Subs!vars, WorkInv, WorkTyped, ProofsBacked
  <2> QED BY <2>1, NoneIsGone, OthersMove
<1>2. ASSUME NEW a \in w.agents, Subs(w)!storePayload(a) \/ \E k \in w.kinds : Subs(w)!broadcast(a, k)
      PROVE  WorkInv(w)'
  BY <1>2, UploadKeeps, BroadcastKeeps
<1>3. ASSUME NEW phase, Subs(w)!bootstrapCommittee(phase) PROVE WorkInv(w)'
  BY <1>3, BootstrapFormsKeeps
<1>4. CASE Subs(w)!chainMoves \/ Subs(w)!syncOnchainSnapshot
  BY <1>4, ChainKeeps
<1>5. ASSUME NEW r \in w.requests, Subs(w)!submit(r) \/ Subs(w)!Step(r) \/ Subs(w)!fails(r)
      PROVE  WorkInv(w)'
  <2>1. CASE Subs(w)!submit(r)
    BY <2>1, SubmitKeeps
  <2>2. CASE Subs(w)!maybeBootstrapCommittee(r)
    BY <2>2, BootstrapFormsKeeps DEF Subs!maybeBootstrapCommittee
  <2>3. CASE Subs(w)!notBootstrapped(r) \/ Subs(w)!preview(r) \/ Subs(w)!prepareSubmissionArtifacts(r)
             \/ Subs(w)!resolveVault(r) \/ Subs(w)!fails(r)
    BY <2>3, PrepareKeeps
  <2>4. CASE Subs(w)!saveAgent(r)
    BY <2>4, LockKeeps
  <2>5. CASE Subs(w)!executed(r)
    BY <2>5, ExecutedKeeps
  <2>6. CASE Subs(w)!store(r)
    BY <2>6, StoreKeeps
  <2> QED BY <1>5, <2>1, <2>2, <2>3, <2>4, <2>5, <2>6 DEF Subs!Step
<1> QED BY <1>1, <1>2, <1>3, <1>4, <1>5 DEF Subs!Next

LEMMA WorkIsSound ==
    ASSUME NEW w, Subs(w)!SubmissionsAssumption, WorkInv(w)
    PROVE  Subs(w)!SubmissionsAreSound
<1>1. Subs(w)!TypeOK
  <2>1. \A v \in {vaultRow, factory} : v.ruleRound \in 0 .. w.rounds /\ v.resRound \in 0 .. w.rounds
    BY DEF WorkInv, WorkTyped, VaultRow
  <2>2. ASSUME NEW i \in DOMAIN subs
        PROVE  subs[i].tx \in DOMAIN accepted /\ subs[i].validation \in {"none", "match", "mismatch"}
    <3>1. i \in 1 .. Len(subs) /\ subs \in Seq(SubRow(w))
      BY Lengths DEF WorkInv, WorkTyped
    <3>2. subs[i] \in SubRow(w)
      BY <3>1, ElementOfSeq
    <3> QED BY <3>1, <3>2, Lengths DEF WorkInv, OnChain, Shows, SubRow
  <2> QED BY <2>1, <2>2 DEF Subs!TypeOK, WorkInv, WorkTyped, ProofsBacked
<1>2. Subs(w)!NoDuplicates
  <2>1. ASSUME NEW i \in DOMAIN subs, NEW j \in DOMAIN subs, i < j,
               subs[i].kind = subs[j].kind, subs[i].kind # "public_challenge",
               subs[i].agent = subs[j].agent, subs[i].payload.round = subs[j].payload.round,
               subs[i].payload.target = subs[j].payload.target
        PROVE  FALSE
    <3>1. i = j
      BY <2>1, Lengths DEF WorkInv, NoTwo, SameKey
    <3> QED BY <2>1, <3>1, Lengths
  <2> QED BY <2>1 DEF Subs!NoDuplicates
<1>3. Subs(w)!StoredIsOnChain
  BY Lengths DEF Subs!StoredIsOnChain, WorkInv, OnChain, Shows
<1>4. Subs(w)!NoOrphanProofs
  BY Lengths DEF Subs!NoOrphanProofs, WorkInv, ProofsBacked
<1> QED BY <1>1, <1>2, <1>3, <1>4 DEF Subs!SubmissionsAreSound

(* With Postgres the stored submissions are sound (SubmissionsAreSound):   *)
(* the locked row between the second check and the store is what it rests  *)
(* on.                                                                     *)
(* [submission-service.ts; postgres-workflow-store.ts] *)
THEOREM SubmissionsStaySound ==
  ASSUME NEW w, Subs(w)!SubmissionsAssumption
  PROVE  Subs(w)!Spec => []Subs(w)!SubmissionsAreSound
<1>1. Subs(w)!Init => WorkInv(w)
  BY WorkAtFirst
<1>2. WorkInv(w) /\ [Subs(w)!Next]_(Subs(w)!vars) => WorkInv(w)'
  BY WorkIsKept
<1>3. WorkInv(w) => Subs(w)!SubmissionsAreSound
  BY WorkIsSound
<1> QED BY <1>1, <1>2, <1>3, PTL DEF Subs!Spec

(* Reveals and commits: each transaction carries a payload of its own round, and a reveal has the
   one commit of its agent in that round behind it. *)
Judged == {"resolution_commit", "resolution_reveal"}
Carries(t) ==
    t.payload.kind \in Judged =>
        /\ t.payload.round = t.at /\ t.payload.who = t.agent /\ t.payload.id = "external"
        /\ t.payload.target = "none"
SamePlace(t, u) ==
    /\ t.payload.kind = u.payload.kind /\ t.agent = u.agent
    /\ t.payload.target = u.payload.target /\ t.at = u.at
Behind(w, c, t) ==
    /\ c.payload.kind = "resolution_commit" /\ c.agent = t.agent /\ c.at = t.at
    /\ Subs(w)!carried(c.payload) = Subs(w)!computeResolutionCommitHash(t.payload, "external")

TxsPaired(w) ==
    /\ \A k \in 1 .. Len(accepted) : Carries(accepted[k])
    /\ \A k, l \in 1 .. Len(accepted) :
          accepted[k].payload.kind \in Judged /\ SamePlace(accepted[k], accepted[l]) => k = l
    /\ \A k \in 1 .. Len(accepted) : accepted[k].payload.kind = "resolution_reveal" =>
          \E l \in 1 .. Len(accepted) : Behind(w, accepted[l], accepted[k])

(* The record and the factory are in the same round, and so is what a      *)
(* request has seen of it. *)
SameRound(w) ==
    /\ vaultRow.resRound = factory.resRound
    /\ \A r \in w.requests : subRequest[r].pc \in {"lock", "verify", "store"} =>
           subRequest[r].seen.resRound = vaultRow.resRound

(* What is uploaded, submitted or stored has been broadcast. *)
IsSent(p) == \E k \in 1 .. Len(accepted) : accepted[k].payload = p
Checked(place) == place \in {"begin", "lock", "verify", "store"}
Named(s) ==
    /\ s.kind = s.payload.kind /\ s.tx # 0
    /\ s.kind \in Judged => s.payload.who = s.agent
FromChain(w) ==
    /\ \A p \in proofs : IsSent(p.payload)
    /\ \A r \in w.requests : subRequest[r].pc # "idle" => Named(subRequest[r].input)
    /\ \A r \in w.requests : Checked(subRequest[r].pc) => IsSent(subRequest[r].input.payload)
    /\ \A i \in 1 .. Len(subs) : Named(subs[i]) /\ IsSent(subs[i].payload)

NoMismatch == \A i \in 1 .. Len(subs) : subs[i].validation # "mismatch"

PairInv(w) == WorkInv(w) /\ TxsPaired(w) /\ SameRound(w) /\ FromChain(w) /\ NoMismatch

RealWork(w) == Subs(w)!SubmissionsAssumption /\ w.production /\ ~w.overlap /\ w.ids = {"external"}

(* The chain's and the record's round move only while nobody is under way. *)
LEMMA StillSent == ASSUME NEW w, WorkInv(w), WorkInv(w)', TxsGrow, NEW p, IsSent(p) PROVE IsSent(p)'
<1>1. PICK k \in 1 .. Len(accepted) : accepted[k].payload = p
  BY DEF IsSent
<1>2. k \in 1 .. Len(accepted')
  <2>1. Len(accepted) \in Nat /\ Len(accepted') \in Nat
    BY DEF WorkInv, WorkTyped
  <2> QED BY <2>1 DEF TxsGrow
<1> QED BY <1>1, <1>2 DEF IsSent, TxsGrow

(* A step of one request that neither the factory nor the store takes part in. *)
LEMMA PairGoesOn ==
  ASSUME NEW w, PairInv(w), WorkInv(w)', UNCHANGED <<factory, accepted, vaultRow, subs, proofs>>,
                NEW r \in w.requests, NEW q, Subs(w)!Goto(r, q),
                q.pc # "idle" => Named(q.input),
                Checked(q.pc) => IsSent(q.input.payload),
                q.pc \in {"lock", "verify", "store"} => q.seen.resRound = vaultRow.resRound
  PROVE  PairInv(w)'
<1>1. \A o \in w.requests : subRequest'[o] = IF o = r THEN q ELSE subRequest[o]
  BY DEF Subs!Goto, PairInv, WorkInv, WorkTyped
<1>2. TxsPaired(w)' /\ NoMismatch'
  BY DEF PairInv, TxsPaired, NoMismatch, Carries, SamePlace, Behind
<1>3. SameRound(w)'
  BY <1>1 DEF PairInv, SameRound
<1>4. FromChain(w)'
  <2>1. \A p : IsSent(p)' = IsSent(p)
    BY DEF IsSent
  <2>2. (\A p \in proofs : IsSent(p.payload))'
    BY DEF PairInv, FromChain, IsSent
  <2>3. (\A o \in w.requests : subRequest[o].pc # "idle" => Named(subRequest[o].input))'
    BY <1>1 DEF PairInv, FromChain, Named
  <2>4. (\A o \in w.requests : Checked(subRequest[o].pc) => IsSent(subRequest[o].input.payload))'
    BY <1>1 DEF PairInv, FromChain, Checked, IsSent
  <2>5. (\A i \in 1 .. Len(subs) : Named(subs[i]) /\ IsSent(subs[i].payload))'
    BY DEF PairInv, FromChain, Named, IsSent
  <2> QED BY <2>2, <2>3, <2>4, <2>5 DEF FromChain
<1> QED BY <1>2, <1>3, <1>4 DEF PairInv

(* What agents submit in production is what they broadcast. *)
LEMMA InputsNamed ==
  ASSUME NEW w, RealWork(w), PairInv(w), NEW input \in Subs(w)!Inputs
  PROVE  Named(input) /\ IsSent(input.payload)
<1>1. DOMAIN accepted = 1 .. Len(accepted) /\ Len(accepted) \in Nat
  BY Lengths DEF PairInv
<1>2. PICK i \in {i \in DOMAIN accepted : accepted[i].payload.kind \in w.kinds}, j \in DOMAIN accepted :
          input = [kind |-> accepted[i].payload.kind, agent |-> accepted[i].agent,
                   payload |-> accepted[i].payload, tx |-> j]
  BY DEF Subs!Inputs, RealWork
<1>3. j # 0 /\ i \in 1 .. Len(accepted)
  BY <1>1
<1>4. input.kind = accepted[i].payload.kind /\ input.agent = accepted[i].agent
      /\ input.payload = accepted[i].payload /\ input.tx = j
  BY <1>2
<1>5. Carries(accepted[i])
  BY <1>3 DEF PairInv, TxsPaired
<1> QED BY <1>3, <1>4, <1>5 DEF Named, IsSent, Carries

LEMMA NormalizedNamed ==
  ASSUME NEW w, NEW input \in Input(w), NEW v, Named(input)
  PROVE  Named(Subs(w)!normalized(input, v))
<1>1. input.payload \in Payload(w)
  BY DEF Input
<1>2. \A n : [input.payload EXCEPT !.round = n].kind = input.payload.kind
             /\ [input.payload EXCEPT !.round = n].who = input.payload.who
  BY <1>1 DEF Payload
<1>3. \A p : [input EXCEPT !.payload = p].payload = p /\ [input EXCEPT !.payload = p].kind = input.kind
             /\ [input EXCEPT !.payload = p].tx = input.tx /\ [input EXCEPT !.payload = p].agent = input.agent
  BY DEF Input
<1>4. PICK n : n = IF Subs(w)!currentRoundForKind(v, input.kind) = 0 THEN input.payload.round
                   ELSE Subs(w)!currentRoundForKind(v, input.kind)
  OBVIOUS
<1>5. PICK p : p = [input.payload EXCEPT !.round = n]
  OBVIOUS
<1>6. Subs(w)!normalized(input, v) = input \/ Subs(w)!normalized(input, v) = [input EXCEPT !.payload = p]
  BY <1>4, <1>5 DEF Subs!normalized
<1>7. p.kind = input.payload.kind /\ p.who = input.payload.who
  BY <1>2, <1>5
<1> QED BY <1>3, <1>6, <1>7 DEF Named
LEMMA PairPrepares ==
  ASSUME NEW w, RealWork(w), PairInv(w), WorkInv(w)', NEW r \in w.requests,
                Subs(w)!submit(r) \/ Subs(w)!notBootstrapped(r) \/ Subs(w)!preview(r)
                  \/ Subs(w)!prepareSubmissionArtifacts(r) \/ Subs(w)!resolveVault(r) \/ Subs(w)!saveAgent(r)
                  \/ Subs(w)!executed(r) \/ Subs(w)!fails(r)
  PROVE  PairInv(w)'
<1> PICK q : q = subRequest[r]
  OBVIOUS
<1>1. q \in CallRow(w) /\ InHand(w, q)
  BY CallOf DEF PairInv
<1>2. /\ q.pc # "idle" => Named(q.input)
      /\ Checked(q.pc) => IsSent(q.input.payload)
      /\ q.pc \in {"lock", "verify", "store"} => q.seen.resRound = vaultRow.resRound
  BY DEF PairInv, FromChain, SameRound
<1>3. CASE Subs(w)!Finish(r) /\ UNCHANGED <<factory, accepted, vaultRow, subs, proofs>>
  <2>1. Subs(w)!Goto(r, Subs(w)!Idle) /\ Subs(w)!Idle.pc = "idle" /\ ~Checked("idle")
    BY <1>3 DEF Subs!Finish, Subs!Idle, Checked
  <2> HIDE DEF Subs!Idle
  <2> QED BY <1>3, <2>1, PairGoesOn
<1>4. CASE Subs(w)!submit(r)
  <2>1. PICK input \in Subs(w)!Inputs : Subs(w)!Goto(r, [Subs(w)!Idle EXCEPT !.pc = "normalize", !.input = input])
    BY <1>4 DEF Subs!submit
  <2>2. PICK c : c = [Subs(w)!Idle EXCEPT !.pc = "normalize", !.input = input]
    OBVIOUS
  <2>3. c.pc = "normalize" /\ c.input = input /\ ~Checked(c.pc)
    BY <2>2 DEF Subs!Idle, Checked
  <2>4. Named(input)
    BY InputsNamed
  <2> QED BY <1>4, <2>1, <2>2, <2>3, <2>4, PairGoesOn DEF Subs!submit
<1>5. CASE Subs(w)!preview(r) /\ ~Subs(w)!Finish(r)
  <2>1. PICK input : input = Subs(w)!normalized(q.input, vaultRow)
    OBVIOUS
  <2>2. q.pc = "normalize" /\ Subs(w)!Goto(r, [q EXCEPT !.pc = "prepare", !.input = input])
    BY <1>5, <2>1 DEF Subs!preview
  <2>3. q.input \in Input(w) /\ Named(q.input)
    BY <1>1, <1>2, <2>2 DEF InHand
  <2>4. Named(input)
    BY <2>1, <2>3, NormalizedNamed
  <2>5. PICK c : c = [q EXCEPT !.pc = "prepare", !.input = input]
    OBVIOUS
  <2>6. c.pc = "prepare" /\ c.input = input /\ ~Checked(c.pc)
    BY <1>1, <2>5 DEF CallRow, Checked
  <2> QED BY <1>5, <2>2, <2>4, <2>5, <2>6, PairGoesOn DEF Subs!preview
<1>6. CASE Subs(w)!prepareSubmissionArtifacts(r) /\ ~Subs(w)!Finish(r)
  <2>1. /\ q.pc = "prepare" /\ Subs(w)!Goto(r, [q EXCEPT !.pc = "begin"])
        /\ Subs(w)!validateStoredPayloadReference(q.input)
    BY <1>6 DEF Subs!prepareSubmissionArtifacts
  <2>2. PICK p \in proofs : p.payload = q.input.payload
    BY <2>1 DEF Subs!validateStoredPayloadReference, RealWork
  <2>3. IsSent(q.input.payload)
    BY <2>2 DEF PairInv, FromChain
  <2>4. PICK c : c = [q EXCEPT !.pc = "begin"]
    OBVIOUS
  <2>5. c.pc = "begin" /\ c.input = q.input
    BY <1>1, <2>4 DEF CallRow
  <2> QED BY <1>2, <1>6, <2>1, <2>3, <2>4, <2>5, PairGoesOn DEF Subs!prepareSubmissionArtifacts
<1>7. CASE Subs(w)!resolveVault(r)
  <2>1. q.pc = "begin" /\ Subs(w)!Goto(r, [q EXCEPT !.pc = "lock", !.seen = vaultRow])
    BY <1>7 DEF Subs!resolveVault
  <2>2. PICK c : c = [q EXCEPT !.pc = "lock", !.seen = vaultRow]
    OBVIOUS
  <2>3. c.pc = "lock" /\ c.input = q.input /\ c.seen = vaultRow /\ Checked(q.pc)
    BY <1>1, <2>1, <2>2 DEF CallRow, Checked
  <2> QED BY <1>2, <1>7, <2>1, <2>2, <2>3, PairGoesOn DEF Subs!resolveVault
<1>8. CASE Subs(w)!saveAgent(r) /\ ~Subs(w)!Finish(r)
  <2>1. q.pc = "lock" /\ Subs(w)!Goto(r, [q EXCEPT !.pc = "verify"])
    BY <1>8 DEF Subs!saveAgent
  <2>2. PICK c : c = [q EXCEPT !.pc = "verify"]
    OBVIOUS
  <2>3. c.pc = "verify" /\ c.input = q.input /\ c.seen = q.seen /\ Checked(q.pc)
    BY <1>1, <2>1, <2>2 DEF CallRow, Checked
  <2> QED BY <1>2, <1>8, <2>1, <2>2, <2>3, PairGoesOn DEF Subs!saveAgent
<1>9. CASE Subs(w)!executed(r) /\ ~Subs(w)!Finish(r)
  <2>1. q.pc = "verify" /\ q.input.tx # 0
    BY <1>2, <1>9 DEF Subs!executed, Named
  <2>2. Subs(w)!Goto(r, [q EXCEPT !.pc = "store", !.tx = q.input.tx]) /\ UNCHANGED accepted
    BY <1>9, <2>1 DEF Subs!executed
  <2>3. PICK c : c = [q EXCEPT !.pc = "store", !.tx = q.input.tx]
    OBVIOUS
  <2>4. c.pc = "store" /\ c.input = q.input /\ c.seen = q.seen /\ Checked(q.pc)
    BY <1>1, <2>1, <2>3 DEF CallRow, Checked
  <2> QED BY <1>2, <1>9, <2>1, <2>2, <2>3, <2>4, PairGoesOn DEF Subs!executed
<1>10. Subs(w)!notBootstrapped(r) \/ Subs(w)!fails(r) => Subs(w)!Finish(r)
  BY DEF Subs!notBootstrapped, Subs!fails
<1>11. /\ UNCHANGED <<factory, vaultRow, subs, proofs>>
       /\ Subs(w)!Finish(r) => UNCHANGED accepted
  <2>1. Subs(w)!executed(r) /\ Subs(w)!Finish(r) => UNCHANGED accepted
    BY <1>2 DEF Subs!executed, Named
  <2> QED BY <2>1 DEF Subs!submit, Subs!notBootstrapped, Subs!preview, Subs!prepareSubmissionArtifacts,
          Subs!resolveVault, Subs!saveAgent, Subs!executed, Subs!fails
<1> QED BY <1>3, <1>4, <1>5, <1>6, <1>7, <1>8, <1>9, <1>10, <1>11

(* Rounds move together, and only while no request is under way. *)
LEMMA PairMoves ==
  ASSUME NEW w, PairInv(w), WorkInv(w)', UNCHANGED <<accepted, subs, proofs, subRequest>>, SameRound(w)'
  PROVE  PairInv(w)'
<1>1. TxsPaired(w)' /\ NoMismatch'
  BY DEF PairInv, TxsPaired, NoMismatch, Carries, SamePlace, Behind
<1>2. FromChain(w)'
  BY DEF PairInv, FromChain, Named, Checked, IsSent
<1> QED BY <1>1, <1>2 DEF PairInv

LEMMA QuietMeans ==
  ASSUME NEW w, ~w.overlap, Subs(w)!quiet
  PROVE  \A r \in w.requests : subRequest[r].pc \notin {"lock", "verify", "store"}
  BY DEF Subs!quiet

LEMMA PairVaultMoves ==
  ASSUME NEW w, RealWork(w), PairInv(w), WorkInv(w)', NEW phase,
                Subs(w)!bootstrapCommittee(phase) \/ Subs(w)!chainMoves \/ Subs(w)!syncOnchainSnapshot
  PROVE  PairInv(w)'
<1>1. UNCHANGED <<accepted, subs, proofs, subRequest>>
  BY DEF Subs!bootstrapCommittee, Subs!chainMoves, Subs!syncOnchainSnapshot
<1>2. SameRound(w)'
  <2>1. CASE Subs(w)!bootstrapCommittee(phase) \/ Subs(w)!syncOnchainSnapshot
    <3>1. Subs(w)!quiet /\ vaultRow' = factory'
      BY <2>1 DEF Subs!bootstrapCommittee, Subs!syncOnchainSnapshot
    <3> QED BY <1>1, <3>1, QuietMeans DEF SameRound, RealWork
  <2>2. CASE Subs(w)!chainMoves
    <3>1. vaultRow' = vaultRow /\ factory \in VaultRow(w)
      BY <2>2 DEF Subs!chainMoves, PairInv, WorkInv, WorkTyped
    <3>2. factory'.resRound = factory.resRound
      BY <2>2, <3>1 DEF Subs!chainMoves, VaultRow
    <3> QED BY <1>1, <3>1, <3>2 DEF SameRound, PairInv
  <2> QED BY <2>1, <2>2
<1> QED BY <1>1, <1>2, PairMoves
(* Uploading: what an agent uploads is what it broadcast. *)
LEMMA PutSent ==
  ASSUME NEW w, PairInv(w), WorkInv(w)', TxsGrow, NEW p, NEW key, NEW n,
                proofs' = Subs(w)!put(proofs, p, key, n), IsSent(p)
  PROVE  (\A o \in proofs : IsSent(o.payload))'
<1>1. ASSUME NEW o \in proofs' PROVE IsSent(o.payload)'
  <2>1. o \in proofs \/ o.payload = p
    BY DEF Subs!put
  <2>2. IsSent(o.payload)
    BY <2>1 DEF PairInv, FromChain
  <2> QED BY <2>2, StillSent DEF PairInv
<1> QED BY <1>1 DEF IsSent

LEMMA PairUploads ==
  ASSUME NEW w, PairInv(w), WorkInv(w)', NEW a \in w.agents, Subs(w)!storePayload(a)
  PROVE  PairInv(w)'
<1>1. UNCHANGED <<factory, accepted, vaultRow, subs, subRequest>>
  BY DEF Subs!storePayload
<1>2. PICK i \in DOMAIN accepted, key \in w.ids \cup {"__payloads__"} :
         proofs' = Subs(w)!put(proofs, accepted[i].payload, key, 0)
  BY DEF Subs!storePayload
<1>3. IsSent(accepted[i].payload)
  BY Lengths DEF PairInv, IsSent
<1>4. (\A p \in proofs : IsSent(p.payload))'
  <2>1. TxsGrow
    BY <1>1, NoneIsGone DEF PairInv
  <2> QED BY <1>2, <1>3, <2>1, PutSent
<1>5. FromChain(w)'
  BY <1>1, <1>4 DEF PairInv, FromChain, Named, Checked, IsSent
<1>6. TxsPaired(w)' /\ NoMismatch' /\ SameRound(w)'
  BY <1>1 DEF PairInv, TxsPaired, NoMismatch, Carries, SamePlace, Behind, SameRound
<1> QED BY <1>5, <1>6 DEF PairInv

(* Broadcasting: the factory takes a kind once in a round, and a reveal with its commit. *)
LEMMA CarriedKind == ASSUME NEW w, NEW p \in Payload(w) PROVE Subs(w)!carried(p).kind = p.kind
  BY DEF Subs!carried, Payload

LEMMA PairBroadcasts ==
  ASSUME NEW w, RealWork(w), PairInv(w), WorkInv(w)', NEW a \in w.agents, NEW k \in w.kinds,
         Subs(w)!broadcast(a, k)
  PROVE  PairInv(w)'
<1>1. UNCHANGED <<factory, vaultRow, subs, proofs, subRequest>>
  BY DEF Subs!broadcast
<1>2. PICK target \in Subs(w)!Targets(k), what \in Subs(w)!Whats(k), id \in w.ids :
        LET p == Subs(w)!payload(k, a, target, what, id, Subs(w)!currentRoundForKind(vaultRow, k)) IN
        /\ Subs(w)!accepts(k, a, p)
        /\ accepted' = Append(accepted, [agent |-> a, payload |-> p,
                                         at |-> Subs(w)!currentRoundForKind(factory, k)])
  BY DEF Subs!broadcast
<1>3. PICK p : p = Subs(w)!payload(k, a, target, what, id, Subs(w)!currentRoundForKind(vaultRow, k))
  OBVIOUS
<1>4. PICK t : t = [agent |-> a, payload |-> p, at |-> Subs(w)!currentRoundForKind(factory, k)]
  OBVIOUS
<1>5. /\ Subs(w)!accepts(k, a, p) /\ accepted' = Append(accepted, t)
      /\ t.agent = a /\ t.payload = p /\ t.at = Subs(w)!currentRoundForKind(factory, k)
  BY <1>2, <1>3, <1>4
<1>6. p \in Payload(w) /\ p.kind = k /\ t \in TxRow(w)
  <2>1. id \in {"local", "external"}
    BY DEF RealWork, Subs!SubmissionsAssumption
  <2>2. Subs(w)!currentRoundForKind(vaultRow, k) \in Nat /\ Subs(w)!currentRoundForKind(factory, k) \in Nat
    BY Rounds DEF RealWork, PairInv, WorkInv, WorkTyped
  <2>3. p \in Payload(w)
    BY <1>3, <2>1, <2>2, PayloadMade DEF RealWork
  <2>4. p.kind = k
    BY <1>3 DEF Subs!payload
  <2> QED BY <1>4, <2>2, <2>3, <2>4 DEF TxRow
<1>7. /\ Len(accepted) \in Nat /\ Len(accepted') = Len(accepted) + 1 /\ accepted'[Len(accepted) + 1] = t
      /\ \A l \in 1 .. Len(accepted) : accepted'[l] = accepted[l]
  <2>1. accepted \in Seq(TxRow(w)) /\ Len(accepted) \in Nat
    BY DEF PairInv, WorkInv, WorkTyped
  <2> QED BY <1>5, <1>6, <2>1, AppendProperties
<1>8. \A l \in 1 .. Len(accepted') : \/ l \in 1 .. Len(accepted) /\ accepted'[l] = accepted[l]
                                     \/ l = Len(accepted) + 1 /\ accepted'[l] = t
  BY <1>7
<1>9. k \in Judged => Carries(t)
  <2>1. SUFFICES ASSUME k \in Judged PROVE Carries(t)
    OBVIOUS
  <2>2. Subs(w)!currentRoundForKind(vaultRow, k) = vaultRow.resRound
        /\ Subs(w)!currentRoundForKind(factory, k) = factory.resRound
    BY <2>1 DEF Judged, Subs!currentRoundForKind, Subs!phaseForKind, Subs!RuleKinds, Subs!ResolutionKinds
  <2>3. p.round = vaultRow.resRound /\ p.who = a /\ p.id = "external" /\ p.target = "none"
    BY <1>3, <2>1, <2>2 DEF Subs!payload, Judged, Subs!RuleKinds, RealWork, Subs!Targets
  <2> QED BY <1>5, <2>2, <2>3 DEF Carries, PairInv, SameRound
<1>10. \A l \in 1 .. Len(accepted) : ~SamePlace(accepted[l], t) /\ ~SamePlace(t, accepted[l])
  BY <1>5, <1>6, Lengths DEF Subs!accepts, SamePlace, PairInv
<1>11. k = "resolution_reveal" => \E l \in 1 .. Len(accepted) : Behind(w, accepted[l], t)
  <2>1. SUFFICES ASSUME k = "resolution_reveal"
                 PROVE  \E l \in 1 .. Len(accepted) : Behind(w, accepted[l], t)
    OBVIOUS
  <2>2. PICK l \in DOMAIN accepted :
           /\ accepted[l].agent = a /\ accepted[l].at = factory.resRound
           /\ Subs(w)!carried(accepted[l].payload) = Subs(w)!computeResolutionCommitHash(p, "external")
    BY <1>5, <2>1 DEF Subs!accepts
  <2>3. l \in 1 .. Len(accepted) /\ accepted \in Seq(TxRow(w))
    BY Lengths DEF PairInv, WorkInv, WorkTyped
  <2>4. accepted[l].payload \in Payload(w)
    <3>1. accepted[l] \in TxRow(w)
      BY <2>3, ElementOfSeq
    <3> QED BY <3>1 DEF TxRow
  <2>5. accepted[l].payload.kind = "resolution_commit"
    BY <2>2, <2>4, CarriedKind DEF Subs!computeResolutionCommitHash
  <2>6. t.at = factory.resRound
    BY <1>5, <2>1 DEF Subs!currentRoundForKind, Subs!phaseForKind, Subs!RuleKinds, Subs!ResolutionKinds
  <2> QED BY <1>5, <2>2, <2>3, <2>5, <2>6 DEF Behind
<1>12. TxsPaired(w)'
  <2>1. ASSUME NEW l \in 1 .. Len(accepted') PROVE Carries(accepted'[l])
    BY <1>5, <1>6, <1>8, <1>9 DEF PairInv, TxsPaired, Carries
  <2>2. ASSUME NEW l \in 1 .. Len(accepted'), NEW m \in 1 .. Len(accepted'),
               accepted'[l].payload.kind \in Judged, SamePlace(accepted'[l], accepted'[m])
        PROVE  l = m
    <3>1. CASE l = Len(accepted) + 1 /\ m = Len(accepted) + 1
      BY <3>1
    <3>2. CASE l \in 1 .. Len(accepted) /\ m \in 1 .. Len(accepted) /\ accepted'[l] = accepted[l]
               /\ accepted'[m] = accepted[m]
      BY <2>2, <3>2 DEF PairInv, TxsPaired
    <3>3. CASE l \in 1 .. Len(accepted) /\ accepted'[l] = accepted[l] /\ accepted'[m] = t
      BY <1>10, <2>2, <3>3
    <3>4. CASE m \in 1 .. Len(accepted) /\ accepted'[m] = accepted[m] /\ accepted'[l] = t
      BY <1>10, <2>2, <3>4
    <3> QED BY <1>8, <3>1, <3>2, <3>3, <3>4
  <2>3. ASSUME NEW l \in 1 .. Len(accepted'), accepted'[l].payload.kind = "resolution_reveal"
        PROVE  \E m \in 1 .. Len(accepted') : Behind(w, accepted'[m], accepted'[l])
    <3>1. PICK m \in 1 .. Len(accepted) : Behind(w, accepted[m], accepted'[l])
      BY <1>5, <1>6, <1>8, <1>11, <2>3 DEF PairInv, TxsPaired
    <3>2. m \in 1 .. Len(accepted') /\ accepted'[m] = accepted[m]
      BY <1>7
    <3> QED BY <3>1, <3>2
  <2> QED BY <2>1, <2>2, <2>3 DEF TxsPaired, Carries, SamePlace, Behind
<1>13. TxsGrow
  BY <1>7 DEF TxsGrow
<1>14. FromChain(w)'
  <2>1. (\A o \in proofs : IsSent(o.payload))'
    <3>1. ASSUME NEW o \in proofs' PROVE IsSent(o.payload)'
      <4>1. IsSent(o.payload)
        BY <1>1 DEF PairInv, FromChain
      <4> QED BY <1>13, <4>1, StillSent DEF PairInv
    <3> QED BY <3>1 DEF IsSent
  <2>2. (\A r \in w.requests : subRequest[r].pc # "idle" => Named(subRequest[r].input))'
    BY <1>1 DEF PairInv, FromChain, Named
  <2>3. (\A r \in w.requests : Checked(subRequest[r].pc) => IsSent(subRequest[r].input.payload))'
    <3>1. ASSUME NEW r \in w.requests, Checked(subRequest[r].pc)
          PROVE  IsSent(subRequest[r].input.payload)'
      <4>1. PICK x : x = subRequest[r].input.payload /\ IsSent(x)
        BY <3>1 DEF PairInv, FromChain
      <4>2. IsSent(x)'
        BY <1>13, <4>1, StillSent DEF PairInv
      <4> QED BY <1>1, <4>1, <4>2 DEF IsSent
    <3> QED BY <1>1, <3>1 DEF IsSent, Checked
  <2>4. (\A i \in 1 .. Len(subs) : Named(subs[i]) /\ IsSent(subs[i].payload))'
    <3>1. ASSUME NEW i \in 1 .. Len(subs) PROVE Named(subs[i])' /\ IsSent(subs[i].payload)'
      <4>1. PICK x : x = subs[i].payload /\ IsSent(x)
        BY DEF PairInv, FromChain
      <4>2. IsSent(x)'
        BY <1>13, <4>1, StillSent DEF PairInv
      <4>3. Named(subs[i])
        BY DEF PairInv, FromChain
      <4> QED BY <1>1, <4>1, <4>2, <4>3 DEF IsSent, Named
    <3> QED BY <1>1, <3>1 DEF IsSent, Named
  <2> QED BY <2>1, <2>2, <2>3, <2>4 DEF FromChain
<1>15. SameRound(w)' /\ NoMismatch'
  BY <1>1 DEF PairInv, SameRound, NoMismatch
<1> QED BY <1>12, <1>14, <1>15 DEF PairInv
(* A reveal that is stored is compared with the commit the factory took it for. *)
LEMMA LeastOf ==
  ASSUME NEW w, NEW C, C \subseteq Nat, C # {}
  PROVE  \E i \in C : \A j \in C : i <= j
<1> DEFINE less == {p \in Nat \X Nat : p[1] < p[2]}
<1>1. OpToRel(<, Nat) = less
  BY Zenon DEF OpToRel
<1>2. IsWellFoundedOn(less, Nat)
  BY <1>1, NatLessThanWellFounded, Zenon
<1>3. PICK i \in C : \A j \in C : ~(<<j, i>> \in less)
  BY <1>2, WFMin
<1>4. ASSUME NEW j \in C PROVE i <= j
  <2>1. i \in Nat /\ j \in Nat
    OBVIOUS
  <2>2. <<j, i>> \in less => FALSE
    BY <1>3
  <2>3. j < i => <<j, i>> \in less
    BY <2>1
  <2> QED BY <2>1, <2>2, <2>3
<1> QED BY <1>4

LEMMA CommitFound ==
  ASSUME NEW w, WorkInv(w), NEW input, Subs(w)!commitsOf(input) # {}
  PROVE  (CHOOSE i \in Subs(w)!commitsOf(input) : \A j \in Subs(w)!commitsOf(input) : i <= j)
             \in Subs(w)!commitsOf(input)
<1>1. Subs(w)!commitsOf(input) \subseteq Nat
  BY Lengths DEF Subs!commitsOf
<1> HIDE DEF Subs!commitsOf
<1>2. \E i \in Subs(w)!commitsOf(input) : \A j \in Subs(w)!commitsOf(input) : i <= j
  BY <1>1, LeastOf
<1> QED BY <1>2

LEMMA RevealMatches ==
  ASSUME NEW w, RealWork(w), PairInv(w), NEW input \in Input(w), Named(input), IsSent(input.payload)
  PROVE  Subs(w)!attachValidation(input) # "mismatch"
<1>1. CASE input.kind # "resolution_reveal" \/ Subs(w)!commitsOf(input) = {}
  BY <1>1 DEF Subs!attachValidation
<1>2. CASE input.kind = "resolution_reveal" /\ Subs(w)!commitsOf(input) # {}
  <2>1. PICK i : i = CHOOSE c \in Subs(w)!commitsOf(input) : \A j \in Subs(w)!commitsOf(input) : c <= j
    OBVIOUS
  <2>2. i \in Subs(w)!commitsOf(input)
    BY <1>2, <2>1, CommitFound DEF PairInv
  <2>3. /\ i \in 1 .. Len(subs) /\ subs[i].kind = "resolution_commit"
        /\ subs[i].agent = input.agent /\ subs[i].payload.round = input.payload.round
    BY <2>2, Lengths DEF Subs!commitsOf, PairInv
  <2>4. PICK k \in 1 .. Len(accepted) : accepted[k].payload = input.payload
    BY DEF IsSent
  <2>5. PICK l \in 1 .. Len(accepted) : accepted[l].payload = subs[i].payload
    BY <2>3 DEF PairInv, FromChain, IsSent
  <2>6. input.payload.kind = "resolution_reveal" /\ input.payload.who = input.agent
    BY <1>2 DEF Named, Judged
  <2>7. subs[i].payload.kind = "resolution_commit" /\ subs[i].payload.who = subs[i].agent
    BY <2>3 DEF PairInv, FromChain, Named, Judged
  <2>8. PICK m \in 1 .. Len(accepted) : Behind(w, accepted[m], accepted[k])
    BY <2>4, <2>6 DEF PairInv, TxsPaired
  <2>9. /\ Carries(accepted[k]) /\ Carries(accepted[l]) /\ Carries(accepted[m])
    BY DEF PairInv, TxsPaired
  <2>10. /\ accepted[k].agent = input.agent /\ accepted[k].at = input.payload.round
         /\ input.payload.id = "external"
    BY <2>4, <2>6, <2>9 DEF Carries, Judged
  <2>11. /\ accepted[l].agent = input.agent /\ accepted[l].at = input.payload.round
         /\ accepted[l].payload.target = "none" /\ accepted[l].payload.kind = "resolution_commit"
    BY <2>3, <2>5, <2>7, <2>9 DEF Carries, Judged
  <2>12. /\ accepted[m].agent = input.agent /\ accepted[m].at = input.payload.round
         /\ accepted[m].payload.target = "none" /\ accepted[m].payload.kind = "resolution_commit"
    BY <2>8, <2>9, <2>10 DEF Behind, Carries, Judged
  <2>13. l = m
    BY <2>11, <2>12 DEF PairInv, TxsPaired, SamePlace, Judged
  <2>14. Subs(w)!carried(subs[i].payload) = Subs(w)!computeResolutionCommitHash(input.payload, "external")
    BY <2>4, <2>5, <2>8, <2>13 DEF Behind
  <2> QED BY <1>2, <2>1, <2>10, <2>14 DEF Subs!attachValidation
<1> QED BY <1>1, <1>2

LEMMA PairStores ==
  ASSUME NEW w, RealWork(w), PairInv(w), WorkInv(w)', NEW r \in w.requests, Subs(w)!store(r)
  PROVE  PairInv(w)'
<1>1. PICK q : q = subRequest[r] /\ q \in CallRow(w) /\ InHand(w, q) /\ q.pc = "store"
  BY CallOf DEF PairInv, Subs!store
<1>2. q.input \in Input(w) /\ Named(q.input) /\ IsSent(q.input.payload)
      /\ q.seen.resRound = vaultRow.resRound
  BY <1>1 DEF InHand, PairInv, FromChain, Checked, SameRound
<1>3. PICK s : s = [kind |-> q.input.kind, agent |-> q.input.agent, payload |-> q.input.payload,
                    tx |-> q.tx, validation |-> Subs(w)!attachValidation(q.input)]
  OBVIOUS
<1>4. /\ proofs' = Subs(w)!put(proofs, s.payload, Subs(w)!LocalId, s.tx) /\ subs' = Append(subs, s)
      /\ vaultRow' = Subs(w)!progressVaultState(q.seen, s.kind) /\ Subs(w)!Goto(r, Subs(w)!Idle)
      /\ UNCHANGED <<factory, accepted, subCalls>>
  BY <1>1, <1>3 DEF Subs!store, Subs!Finish
<1>5. /\ s.kind = q.input.kind /\ s.agent = q.input.agent /\ s.payload = q.input.payload
      /\ s.tx = q.tx /\ s.validation # "mismatch"
  BY <1>2, <1>3, RevealMatches
<1>6. /\ Len(subs) \in Nat /\ Len(subs') = Len(subs) + 1 /\ subs'[Len(subs) + 1] = s
      /\ \A i \in 1 .. Len(subs) : subs'[i] = subs[i]
  <2>1. subs \in Seq(SubRow(w))
    BY DEF PairInv, WorkInv, WorkTyped
  <2>2. s \in SubRow(w)
    <3>1. q.input.kind \in AllKinds(w) /\ q.input.agent \in w.agents /\ q.input.payload \in Payload(w)
          /\ q.tx \in Nat
      BY <1>1, <1>2 DEF Input, CallRow
    <3>2. Subs(w)!attachValidation(q.input) \in {"none", "match", "mismatch"}
      BY DEF Subs!attachValidation
    <3> QED BY <1>3, <3>1, <3>2 DEF SubRow
  <2> QED BY <1>4, <2>1, <2>2, AppendProperties
<1>7. \A i \in 1 .. Len(subs') : \/ i \in 1 .. Len(subs) /\ subs'[i] = subs[i]
                                 \/ i = Len(subs) + 1 /\ subs'[i] = s
  BY <1>6
<1>8. \A o \in w.requests : subRequest'[o] = IF o = r THEN Subs(w)!Idle ELSE subRequest[o]
  BY <1>4 DEF Subs!Goto, PairInv, WorkInv, WorkTyped
<1>9. Subs(w)!Idle.pc = "idle"
  BY DEF Subs!Idle
<1>10. Named(s) /\ IsSent(s.payload)
  <2>1. q.tx # 0
    BY <1>1, Lengths DEF InHand, Shows, PairInv
  <2> QED BY <1>2, <1>5, <2>1 DEF Named
<1>11. TxsGrow
  BY <1>4, NoneIsGone DEF PairInv
<1>12. TxsPaired(w)'
  BY <1>4 DEF PairInv, TxsPaired, Carries, SamePlace, Behind
<1>13. SameRound(w)'
  <2>1. vaultRow'.resRound = vaultRow.resRound
    <3>1. q.seen \in VaultRow(w)
      BY <1>1 DEF CallRow
    <3>2. \A x : [q.seen EXCEPT !.status = x].resRound = q.seen.resRound
      BY <3>1 DEF VaultRow
    <3> QED BY <1>2, <1>4, <3>2 DEF Subs!progressVaultState
  <2> QED BY <1>4, <1>8, <1>9, <2>1 DEF PairInv, SameRound
<1>14. FromChain(w)'
  <2>1. (\A o \in proofs : IsSent(o.payload))'
    BY <1>4, <1>10, <1>11, PutSent
  <2>2. (\A o \in w.requests : subRequest[o].pc # "idle" => Named(subRequest[o].input))'
    BY <1>8, <1>9 DEF PairInv, FromChain, Named
  <2>3. (\A o \in w.requests : Checked(subRequest[o].pc) => IsSent(subRequest[o].input.payload))'
    BY <1>4, <1>8, <1>9 DEF PairInv, FromChain, Checked, IsSent
  <2>4. (\A i \in 1 .. Len(subs) : Named(subs[i]) /\ IsSent(subs[i].payload))'
    BY <1>4, <1>7, <1>10 DEF PairInv, FromChain, Named, IsSent
  <2> QED BY <2>1, <2>2, <2>3, <2>4 DEF FromChain
<1>15. NoMismatch'
  BY <1>5, <1>7 DEF PairInv, NoMismatch
<1> QED BY <1>12, <1>13, <1>14, <1>15 DEF PairInv

LEMMA PairAtFirst == ASSUME NEW w, RealWork(w), Subs(w)!Init PROVE PairInv(w)
<1>1. WorkInv(w)
  BY WorkAtFirst DEF RealWork
<1>2. Len(accepted) = 0 /\ Len(subs) = 0 /\ proofs = {} /\ vaultRow = factory
  BY DEF Subs!Init
<1>3. \A r \in w.requests : subRequest[r].pc = "idle"
  BY DEF Subs!Init, Subs!Idle
<1> QED BY <1>1, <1>2, <1>3 DEF PairInv, TxsPaired, SameRound, FromChain, NoMismatch, Checked

LEMMA PairIsKept == ASSUME NEW w, RealWork(w), PairInv(w), [Subs(w)!Next]_(Subs(w)!vars) PROVE PairInv(w)'
<1>1. WorkInv(w)'
  BY WorkIsKept DEF RealWork, PairInv
<1>2. CASE UNCHANGED Subs(w)!vars
  <2>1. SameRound(w)'
    BY <1>2 DEF Subs!vars, SameRound, PairInv
  <2> QED BY <1>1, <1>2, <2>1, PairMoves DEF Subs!vars
<1>3. ASSUME NEW a \in w.agents, Subs(w)!storePayload(a) \/ \E k \in w.kinds : Subs(w)!broadcast(a, k)
      PROVE  PairInv(w)'
  BY <1>1, <1>3, PairUploads, PairBroadcasts
<1>4. ASSUME NEW phase,
             Subs(w)!bootstrapCommittee(phase) \/ Subs(w)!chainMoves \/ Subs(w)!syncOnchainSnapshot
      PROVE  PairInv(w)'
  BY <1>1, <1>4, PairVaultMoves
<1>5. ASSUME NEW r \in w.requests, Subs(w)!submit(r) \/ Subs(w)!Step(r) \/ Subs(w)!fails(r)
      PROVE  PairInv(w)'
  <2>1. CASE Subs(w)!maybeBootstrapCommittee(r)
    BY <1>4, <2>1 DEF Subs!maybeBootstrapCommittee
  <2>2. CASE Subs(w)!store(r)
    BY <1>1, <2>2, PairStores
  <2>3. CASE Subs(w)!submit(r) \/ Subs(w)!notBootstrapped(r) \/ Subs(w)!preview(r)
               \/ Subs(w)!prepareSubmissionArtifacts(r) \/ Subs(w)!resolveVault(r) \/ Subs(w)!saveAgent(r)
               \/ Subs(w)!executed(r) \/ Subs(w)!fails(r)
    BY <1>1, <2>3, PairPrepares
  <2> QED BY <1>5, <2>1, <2>2, <2>3 DEF Subs!Step
<1> QED BY <1>2, <1>3, <1>4, <1>5 DEF Subs!Next

LEMMA PairMatches == ASSUME NEW w, PairInv(w) PROVE Subs(w)!RevealsMatch
  BY Lengths DEF PairInv, NoMismatch, Subs!RevealsMatch

(* With real wallets, the vault named by its id on the chain and nobody saving the record meanwhile,
   a reveal that is stored matches the commit of its round (RevealsMatch).
   [submission-service.ts, attachValidation] *)
THEOREM RevealsAlwaysMatch ==
  ASSUME NEW w, RealWork(w)
  PROVE  Subs(w)!Spec => []Subs(w)!RevealsMatch
<1>1. Subs(w)!Init => PairInv(w)
  BY PairAtFirst
<1>2. PairInv(w) /\ [Subs(w)!Next]_(Subs(w)!vars) => PairInv(w)'
  BY PairIsKept
<1>3. PairInv(w) => Subs(w)!RevealsMatch
  BY PairMatches
<1> QED BY <1>1, <1>2, <1>3, PTL DEF Subs!Spec

-----------------------------------------------------------------------------
(* Market evidence. *)
Terms(w) == w.tokens \cup {"none", "symbol", "statement"}
Candidate(w) == [token : w.tokens \cup {"none"}, chain : {"home", "other"}, price : 0 .. w.time]
EvidenceHash(w) ==
    [kind : w.kinds \cup {"none"}, payload : SUBSET Ev(w)!Snapshot, snapshots : SUBSET Ev(w)!Snapshot]
Body(w) == [kind : w.kinds \cup {"none"}, sources : SUBSET Ev(w)!Snapshot, proofHash : EvidenceHash(w)]
Gathering(w) ==
    [pc : {"idle", "mock", "price", "search", "chains", "collected"}, for : {"none", "prepare", "submit"},
     body : Body(w), token : w.tokens \cup {"none", "symbol"}, terms : Seq(Terms(w)), candidate : Candidate(w),
     stage : {"initialize", "call"}, tries : {0, 1}, snapshots : SUBSET Ev(w)!Snapshot]
EvidenceProof(w) ==
    [kind : w.kinds \cup {"none"}, payload : SUBSET Ev(w)!Snapshot, snapshots : SUBSET Ev(w)!Snapshot,
     proofHash : EvidenceHash(w)]
Quote(w) == [token : w.tokens \cup {"none"}, chain : {"home", "other"}, value : 0 .. w.time]

(* A search has terms left, and the token whose price is asked is known to be of this chain. *)
Asks(w, q) ==
    /\ q.pc = "search" => q.terms # <<>>
    /\ q.pc = "price" => q.candidate.token \in w.tokens /\ q.candidate.chain = "home"
(* What a request trusts was quoted. *)
Grounded(w, q) ==
    \A s \in q.snapshots :
        Ev(w)!isOkxMarketSnapshot(s) => [token |-> s.token, chain |-> "home", value |-> s.value] \in quoted
(* A hash that is brought is a client's, of no snapshots, or was prepared. *)
Brings(w, h) ==
    \/ h.snapshots = {}
    \/ (\E b \in prepared : h = b.proofHash) /\ (w.real => Ev(w)!shows(h.snapshots))
GroundedProof(w, p) ==
    w.real /\ p.kind = "resolution_reveal" =>
        Ev(w)!shows(p.snapshots) /\ (p.proofHash.snapshots # {} => Ev(w)!shows(p.proofHash.snapshots))
Aligned(w, p) ==
    p.kind # "resolution_commit" =>
        \/ p.proofHash = Ev(w)!hashPayload([kind |-> p.kind, sources |-> p.payload], p.snapshots)
        \/ /\ p.kind = "resolution_reveal"
           /\ p.proofHash.snapshots = {} \/ \E b \in prepared : p.proofHash = b.proofHash

EvidenceTypes(w) ==
    /\ time \in 1 .. w.time /\ evCalls \in 0 .. w.calls /\ drafts \in Seq(w.tokens \cup {"symbol"})
    /\ evRequest \in [w.requests -> Gathering(w)]
    /\ prepared \subseteq Body(w) /\ evProofs \subseteq EvidenceProof(w) /\ quoted \subseteq Quote(w)
EvidenceInv(w) ==
    /\ EvidenceTypes(w)
    /\ \A r \in w.requests : Asks(w, evRequest[r]) /\ Grounded(w, evRequest[r]) /\ Brings(w, evRequest[r].body.proofHash)
    /\ \A b \in prepared : Brings(w, b.proofHash)
    /\ \A p \in evProofs : GroundedProof(w, p) /\ Aligned(w, p)

-----------------------------------------------------------------------------
LEMMA NothingGathered ==
    ASSUME NEW w, Ev(w)!EvidenceAssumption
    PROVE  /\ Ev(w)!NoToken \in Candidate(w) /\ Ev(w)!NoHash \in EvidenceHash(w) /\ Ev(w)!NoBody \in Body(w)
           /\ Ev(w)!Idle \in Gathering(w) /\ Asks(w, Ev(w)!Idle) /\ Grounded(w, Ev(w)!Idle)
           /\ Brings(w, Ev(w)!NoHash) /\ Ev(w)!NoBody.proofHash = Ev(w)!NoHash /\ Ev(w)!Idle.body = Ev(w)!NoBody
<1>1. Ev(w)!NoToken \in Candidate(w)
    BY DEF Ev!NoToken, Candidate, Ev!EvidenceAssumption
<1>2. Ev(w)!NoHash \in EvidenceHash(w)
    BY DEF Ev!NoHash, EvidenceHash
<1>3. Ev(w)!NoBody \in Body(w)
    BY <1>2 DEF Ev!NoBody, Body
<1>4. <<>> \in Seq(Terms(w))
    OBVIOUS
<1>5. Ev(w)!Idle \in Gathering(w)
    BY <1>1, <1>3, <1>4 DEF Ev!Idle, Gathering, Terms
<1> QED BY <1>1, <1>2, <1>3, <1>5 DEF Ev!Idle, Asks, Grounded, Brings, Ev!NoHash, Ev!NoBody

LEMMA EvidenceStarts == ASSUME NEW w, Ev(w)!EvidenceAssumption, Ev(w)!Init PROVE EvidenceInv(w)
<1>1. <<>> \in Seq(w.tokens \cup {"symbol"}) /\ 1 \in 1 .. w.time /\ 0 \in 0 .. w.calls
    BY DEF Ev!EvidenceAssumption
<1> QED BY <1>1, NothingGathered DEF Ev!Init, EvidenceInv, EvidenceTypes

LEMMA Included ==
    ASSUME NEW w, Ev(w)!EvidenceAssumption, EvidenceInv(w)
    PROVE  Ev(w)!Bodies \subseteq Body(w) /\ \A b \in Ev(w)!Bodies : Brings(w, b.proofHash)
<1>1. \A s \in w.sources : Ev(w)!sourceOf(s) \in Ev(w)!Snapshot
    BY DEF EvidenceInv, EvidenceTypes, Ev!EvidenceAssumption, Ev!sourceOf, Ev!snapshot, Ev!Snapshot
<1>2. ASSUME NEW k \in w.kinds, NEW ss \in SUBSET w.sources
      PROVE  Ev(w)!body(k, ss) \in Body(w) /\ Brings(w, Ev(w)!body(k, ss).proofHash)
    <2>1. {Ev(w)!sourceOf(s) : s \in ss} \in SUBSET Ev(w)!Snapshot
        BY <1>1
    <2> QED BY <2>1, NothingGathered DEF Ev!body, Body, Ev!NoBody
<1>3. ASSUME NEW b \in Body(w), NEW h \in Ev(w)!hashes(b)
      PROVE  [b EXCEPT !.proofHash = h] \in Body(w) /\ Brings(w, [b EXCEPT !.proofHash = h].proofHash)
    <2>1. CASE h = Ev(w)!createResolutionProofHash(b)
        <3>1. h \in EvidenceHash(w) /\ h.snapshots = {}
            BY <2>1 DEF Ev!createResolutionProofHash, Ev!hashPayload, EvidenceHash, Body
        <3> QED BY <3>1 DEF Body, Brings
    <2>2. CASE \E x \in prepared : h = x.proofHash
        <3>1. h \in EvidenceHash(w) /\ Brings(w, h)
            BY <2>2 DEF EvidenceInv, EvidenceTypes, Body
        <3> QED BY <3>1 DEF Body
    <2> QED BY <2>1, <2>2 DEF Ev!hashes
<1>4. ASSUME NEW x \in Ev(w)!Bodies PROVE x \in Body(w) /\ Brings(w, x.proofHash)
    <2>1. \/ \E k \in w.kinds, ss \in SUBSET w.sources : x = Ev(w)!body(k, ss)
          \/ \E k \in w.kinds, ss \in SUBSET w.sources : \E h \in Ev(w)!hashes(Ev(w)!body(k, ss)) :
                x = [Ev(w)!body(k, ss) EXCEPT !.proofHash = h]
        BY DEF Ev!Bodies
    <2> QED BY <1>2, <1>3, <2>1
<1> QED BY <1>4

(* What was quoted and prepared stays so, and with it what rests on it. *)
LEMMA EvidenceLasts ==
    ASSUME NEW w, quoted \subseteq quoted', prepared \subseteq prepared'
    PROVE  /\ \A h : Brings(w, h) => Brings(w, h)'
           /\ \A p : GroundedProof(w, p) => GroundedProof(w, p)'
           /\ \A p : Aligned(w, p) => Aligned(w, p)'
<1>1. \A ss : Ev(w)!shows(ss) => Ev(w)!shows(ss)'
    BY DEF Ev!shows
<1>2. \A h : (\E b \in prepared : h = b.proofHash) => (\E b \in prepared : h = b.proofHash)'
    OBVIOUS
<1> QED BY <1>1, <1>2 DEF Brings, GroundedProof, Aligned, Ev!hashPayload

(* A request moves on, and whatever was quoted stays so. *)
LEMMA GatheringGoes ==
    ASSUME NEW w, EvidenceInv(w), NEW r \in w.requests, NEW q \in Gathering(w), Asks(w, q),
           Grounded(w, q)', Brings(w, q.body.proofHash), evRequest' = [evRequest EXCEPT ![r] = q],
           quoted \subseteq quoted', quoted' \subseteq Quote(w), evCalls' \in 0 .. w.calls,
           UNCHANGED <<time, drafts, prepared, evProofs>>
    PROVE  EvidenceInv(w)'
<1>1. EvidenceTypes(w)'
    BY DEF EvidenceInv, EvidenceTypes
<1>2. ASSUME NEW s \in w.requests
      PROVE  (Asks(w, evRequest[s]) /\ Grounded(w, evRequest[s]) /\ Brings(w, evRequest[s].body.proofHash))'
    <2>1. evRequest'[s] = evRequest[s] \/ evRequest'[s] = q
        BY DEF EvidenceInv, EvidenceTypes
    <2>2. Grounded(w, evRequest[s]) /\ Asks(w, evRequest[s]) /\ Brings(w, evRequest[s].body.proofHash)
        BY DEF EvidenceInv
    <2>0. PICK g, h : g = evRequest'[s] /\ h = g.body.proofHash
        OBVIOUS
    <2>5. Brings(w, h)
        BY <2>0, <2>1, <2>2
    <2>6. Brings(w, h)'
        BY <2>5, EvidenceLasts
    <2>7. Brings(w, evRequest[s].body.proofHash)'
        BY <2>0, <2>6 DEF Brings
    <2>3. CASE evRequest'[s] = evRequest[s]
        BY <2>2, <2>3, <2>7 DEF Grounded, Asks, Ev!isOkxMarketSnapshot
    <2>4. CASE evRequest'[s] = q
        BY <2>4, <2>7 DEF Grounded, Asks
    <2> QED BY <2>1, <2>3, <2>4
<1>3. ASSUME NEW b \in prepared' PROVE Brings(w, b.proofHash)'
    BY EvidenceLasts DEF EvidenceInv
<1>4. ASSUME NEW p \in evProofs' PROVE (GroundedProof(w, p) /\ Aligned(w, p))'
    <2>1. p \in evProofs
        OBVIOUS
    <2> QED BY <2>1, EvidenceLasts DEF EvidenceInv
<1> QED BY <1>1, <1>2, <1>3, <1>4 DEF EvidenceInv

LEMMA SearchTermsFit ==
    ASSUME NEW w, Ev(w)!EvidenceAssumption, NEW token \in Terms(w)
    PROVE  Ev(w)!collectSearchTerms(token) \in Seq(Terms(w)) /\ Ev(w)!collectSearchTerms(token) # <<>>
<1> DEFINE named == IF w.named # "none" THEN <<w.named>> ELSE <<>>
           symbol == IF token = "symbol" THEN <<token>> ELSE <<>>
<1>1. named \in Seq(Terms(w))
    <2>1. w.named \in Terms(w)
        BY DEF Ev!EvidenceAssumption, Terms
    <2> QED BY <2>1
<1>2. symbol \in Seq(Terms(w))
    OBVIOUS
<1>3. <<"statement">> \in Seq(Terms(w)) /\ Len(<<"statement">>) = 1
    BY DEF Terms
<1>4. Ev(w)!collectSearchTerms(token) = named \o symbol \o <<"statement">>
    BY DEF Ev!collectSearchTerms
<1> HIDE DEF named, symbol
<1>5. named \o symbol \in Seq(Terms(w))
    BY <1>1, <1>2, ConcatProperties
<1>6. /\ Ev(w)!collectSearchTerms(token) \in Seq(Terms(w))
      /\ Len(Ev(w)!collectSearchTerms(token)) = Len(named \o symbol) + 1
    BY <1>3, <1>4, <1>5, ConcatProperties
<1>7. Len(named \o symbol) \in Nat
    BY <1>5, LenProperties
<1>8. Len(<<>>) = 0
    OBVIOUS
<1> QED BY <1>6, <1>7, <1>8

(* A request begins. *)
LEMMA GatheringBegins ==
    ASSUME NEW w, Ev(w)!EvidenceAssumption, EvidenceInv(w), NEW r \in w.requests,
           NEW for \in {"prepare", "submit"}, NEW with \in Body(w), Brings(w, with.proofHash),
           NEW given \in w.tokens \cup {"none", "symbol"}, Ev(w)!begin(r, for, with, given)
    PROVE  EvidenceInv(w)'
<1> DEFINE token == Ev(w)!deriveMarketContext(given)
           known == token \in w.tokens
           q == [Ev(w)!Idle EXCEPT !.for = for, !.body = with, !.token = token,
                 !.terms = IF known THEN <<>> ELSE Ev(w)!collectSearchTerms(token),
                 !.candidate = IF known THEN [Ev(w)!NoToken EXCEPT !.token = token] ELSE Ev(w)!NoToken,
                 !.pc = CASE with.kind = "resolution_commit" -> "collected"
                          [] w.provider # "okx-market-mcp" -> "mock"
                          [] OTHER -> IF known THEN "price" ELSE "search"]
<1>1. token \in w.tokens \cup {"none", "symbol"} /\ token \in Terms(w)
    <2>1. drafts # <<>> => drafts[Len(drafts)] \in w.tokens \cup {"symbol"}
        BY ElementOfSeq, EmptySeq, LenProperties DEF EvidenceInv, EvidenceTypes
    <2> QED BY <2>1 DEF Ev!deriveMarketContext, Terms, Ev!EvidenceAssumption
<1>2. (IF known THEN <<>> ELSE Ev(w)!collectSearchTerms(token)) \in Seq(Terms(w))
    BY <1>1, SearchTermsFit
<1>3. (IF known THEN [Ev(w)!NoToken EXCEPT !.token = token] ELSE Ev(w)!NoToken) \in Candidate(w)
    BY NothingGathered DEF Candidate, Ev!NoToken
<1>4. q \in Gathering(w)
    BY <1>1, <1>2, <1>3, NothingGathered DEF Gathering
<1>5. q.snapshots = {} /\ q.body = with
    BY DEF Ev!Idle
<1>6. Asks(w, q)
    <2>1. q.pc = "search" => ~known /\ q.terms = Ev(w)!collectSearchTerms(token)
        BY DEF Ev!Idle
    <2>2. q.pc = "price" => known /\ q.candidate = [Ev(w)!NoToken EXCEPT !.token = token]
        BY DEF Ev!Idle
    <2>3. q.for = for
        BY DEF Ev!Idle
    <2> HIDE DEF q
    <2>4. q.pc = "search" => q.terms # <<>>
        BY <2>1, <1>1, SearchTermsFit
    <2> QED BY <2>2, <2>3, <2>4 DEF Asks, Ev!NoToken
<1>7. PICK g \in Gathering(w) : g = q
    BY <1>4
<1>8. evRequest' = [evRequest EXCEPT ![r] = g] /\ evCalls < w.calls /\ evCalls' = evCalls + 1
    BY <1>7 DEF Ev!begin
<1>9. UNCHANGED <<time, drafts, prepared, evProofs, quoted>>
    BY DEF Ev!begin
<1>10. g.snapshots = {} /\ g.body = with /\ Asks(w, g)
    BY <1>5, <1>6, <1>7
<1> HIDE DEF q
<1>11. Grounded(w, g)' /\ Brings(w, g.body.proofHash)
    BY <1>10 DEF Grounded
<1>12. evCalls' \in 0 .. w.calls /\ quoted \subseteq quoted' /\ quoted' \subseteq Quote(w)
    BY <1>8, <1>9 DEF EvidenceInv, EvidenceTypes, Ev!EvidenceAssumption
<1> QED BY <1>8, <1>9, <1>10, <1>11, <1>12, GatheringGoes

(* A question is asked, once more, or in vain: the request keeps what it has, or ends. *)
LEMMA GatheringAsks ==
    ASSUME NEW w, Ev(w)!EvidenceAssumption, EvidenceInv(w), NEW r \in w.requests,
                  Ev(w)!timedOut(r) \/ Ev(w)!failed(r) \/ Ev(w)!initializeOkxMcpSession(r)
    PROVE  EvidenceInv(w)'
<1> DEFINE q == evRequest[r]
<1>1. q \in Gathering(w) /\ Asks(w, q) /\ Grounded(w, q) /\ Brings(w, q.body.proofHash)
    BY DEF EvidenceInv, EvidenceTypes
<1>2. UNCHANGED <<time, drafts, prepared, evProofs, quoted, evCalls>>
    BY DEF Ev!timedOut, Ev!failed, Ev!initializeOkxMcpSession
<1>3. \/ evRequest' = [evRequest EXCEPT ![r] = Ev(w)!Idle]
      \/ evRequest' = [evRequest EXCEPT ![r] = [q EXCEPT !.tries = 1]]
      \/ evRequest' = [evRequest EXCEPT ![r] = [q EXCEPT !.stage = "call", !.tries = 0]]
    BY DEF Ev!timedOut, Ev!failed, Ev!initializeOkxMcpSession, Ev!postOkxJson, EvidenceInv, EvidenceTypes
<1>4. PICK g \in {Ev(w)!Idle, [q EXCEPT !.tries = 1], [q EXCEPT !.stage = "call", !.tries = 0]} :
            evRequest' = [evRequest EXCEPT ![r] = g]
    BY <1>3
<1>5. /\ g \in Gathering(w) /\ Asks(w, g) /\ Brings(w, g.body.proofHash)
      /\ g.snapshots = {} \/ g.snapshots = q.snapshots
    <2>1. CASE g = Ev(w)!Idle
        BY <2>1, NothingGathered DEF Ev!Idle
    <2>2. CASE g = [q EXCEPT !.tries = 1]
        BY <1>1, <2>2 DEF Gathering, Asks
    <2>3. CASE g = [q EXCEPT !.stage = "call", !.tries = 0]
        BY <1>1, <2>3 DEF Gathering, Asks
    <2> QED BY <1>4, <2>1, <2>2, <2>3
<1>7. PICK ss : ss = q.snapshots
    OBVIOUS
<1>8. g.snapshots = {} \/ g.snapshots = ss
    BY <1>5, <1>7
<1>9. \A s \in ss : Ev(w)!isOkxMarketSnapshot(s) => [token |-> s.token, chain |-> "home", value |-> s.value] \in quoted
    BY <1>1, <1>7 DEF Grounded
<1>10. Grounded(w, g)'
    BY <1>2, <1>8, <1>9 DEF Grounded, Ev!isOkxMarketSnapshot
<1>11. evCalls' \in 0 .. w.calls /\ quoted \subseteq quoted' /\ quoted' \subseteq Quote(w)
    BY <1>2 DEF EvidenceInv, EvidenceTypes
<1> QED BY <1>2, <1>4, <1>5, <1>10, <1>11, GatheringGoes

(* A search leads to a token of this chain, to the next term, or to the list of chains. *)
LEMMA CandidateFits ==
    ASSUME NEW w, Ev(w)!EvidenceAssumption, EvidenceInv(w), NEW rows \in Ev(w)!Rows, NEW term \in Terms(w)
    PROVE  LET found == Ev(w)!resolveCandidateFromRows(rows, term)
           IN  found \in Candidate(w) /\ found.chain = "home"
<1> DEFINE hits == [token : w.tokens, chain : {"home", "other"}, price : {0, time}]
           here == Ev(w)!rowsHere(rows)
           exact == {i \in here : rows[i].token = term}
           first(positions) == rows[CHOOSE i \in positions : \A j \in positions : i <= j]
<1>1. \A hit \in hits : hit \in Candidate(w)
    BY DEF Candidate, EvidenceInv, EvidenceTypes, Ev!EvidenceAssumption
<1>2. DOMAIN rows \subseteq {1, 2} /\ \A i \in DOMAIN rows : rows[i] \in Candidate(w)
    <2>1. CASE rows = <<>>
        BY <2>1
    <2>2. CASE \E hit \in hits : rows = <<hit>>
        BY <1>1, <2>2
    <2>3. CASE \E hit \in hits, x \in hits : rows = <<hit, x>>
        BY <1>1, <2>3
    <2> QED BY <2>1, <2>2, <2>3 DEF Ev!Rows
<1>3. here \subseteq DOMAIN rows /\ exact \subseteq here /\ \A i \in here : rows[i].chain = "home"
    BY DEF Ev!rowsHere
<1>4. ASSUME NEW positions \in SUBSET here, positions # {}
      PROVE  first(positions) \in Candidate(w) /\ first(positions).chain = "home"
    <2>1. positions \subseteq {1, 2}
        BY <1>2, <1>3
    <2>2. \E i \in positions : \A j \in positions : i <= j
        <3>1. CASE 1 \in positions
            BY <2>1, <3>1
        <3>2. CASE 1 \notin positions
            <4>1. \A j \in positions : j = 2
                BY <2>1, <3>2
            <4>2. 2 \in positions /\ \A j \in positions : 2 <= j
                BY <1>4, <4>1
            <4> QED BY <4>2
        <3> QED BY <3>1, <3>2
    <2>3. (CHOOSE i \in positions : \A j \in positions : i <= j) \in positions
        BY <2>2
    <2> QED BY <1>2, <1>3, <2>3
<1>5. [Ev(w)!NoToken EXCEPT !.token = term] \in Candidate(w) \/ term \notin w.tokens
    BY NothingGathered DEF Ev!NoToken, Candidate
<1>6. Ev(w)!NoToken \in Candidate(w) /\ Ev(w)!NoToken.chain = "home"
      /\ [Ev(w)!NoToken EXCEPT !.token = term].chain = "home"
    BY NothingGathered DEF Ev!NoToken
<1>7. Ev(w)!resolveCandidateFromRows(rows, term) =
        IF term \in w.tokens
          THEN IF exact = {} THEN [Ev(w)!NoToken EXCEPT !.token = term] ELSE first(exact)
          ELSE IF here = {} THEN Ev(w)!NoToken ELSE first(here)
    BY DEF Ev!resolveCandidateFromRows
<1>8. exact \in SUBSET here /\ here \in SUBSET here
    BY <1>3
<1> HIDE DEF exact, here, first
<1> QED BY <1>4, <1>5, <1>6, <1>7, <1>8

LEMMA GatheringSearches ==
    ASSUME NEW w, Ev(w)!EvidenceAssumption, EvidenceInv(w), NEW r \in w.requests,
           Ev(w)!discoverTokenCandidate(r)
    PROVE  EvidenceInv(w)'
<1> DEFINE q == evRequest[r]
<1>1. q \in Gathering(w) /\ Asks(w, q) /\ Grounded(w, q) /\ Brings(w, q.body.proofHash) /\ q.pc = "search"
    BY DEF EvidenceInv, EvidenceTypes, Ev!discoverTokenCandidate, Ev!callOkxMcpTool
<1>2. q.terms \in Seq(Terms(w)) /\ q.terms # <<>>
    BY <1>1 DEF Gathering, Asks
<1>3. Head(q.terms) \in Terms(w) /\ Tail(q.terms) \in Seq(Terms(w))
      /\ (Len(q.terms) > 1 => Tail(q.terms) # <<>>)
    <2>1. Len(q.terms) \in Nat /\ Len(Tail(q.terms)) = Len(q.terms) - 1
        BY <1>2, HeadTailProperties, LenProperties
    <2>2. Len(<<>>) = 0
        OBVIOUS
    <2>3. Head(q.terms) \in Terms(w) /\ Tail(q.terms) \in Seq(Terms(w))
        BY <1>2, HeadTailProperties
    <2>4. Len(q.terms) > 1 => Len(Tail(q.terms)) # 0
        <3> DEFINE n == Len(q.terms)
                   m == Len(Tail(q.terms))
        <3>1. n \in Nat /\ m = n - 1
            BY <2>1
        <3> HIDE DEF n, m
        <3>2. n > 1 => m # 0
            BY <3>1
        <3> QED BY <3>2 DEF n, m
    <2>5. Len(q.terms) > 1 => Tail(q.terms) # <<>>
        BY <2>2, <2>4
    <2> QED BY <2>3, <2>5
<1>4. PICK rows \in Ev(w)!Rows :
        LET found == Ev(w)!resolveCandidateFromRows(rows, Head(q.terms))
        IN  IF found.token # "none" THEN Ev(w)!goes(r, [q EXCEPT !.pc = "price", !.candidate = found])
            ELSE Ev(w)!goes(r, [q EXCEPT !.terms = Tail(@), !.pc = IF Len(q.terms) > 1 THEN @ ELSE "chains"])
    BY DEF Ev!discoverTokenCandidate
<1> DEFINE found == Ev(w)!resolveCandidateFromRows(rows, Head(q.terms))
           priced == [[q EXCEPT !.pc = "price", !.candidate = found] EXCEPT !.stage = "initialize", !.tries = 0]
           searched == [[q EXCEPT !.terms = Tail(@), !.pc = IF Len(q.terms) > 1 THEN @ ELSE "chains"]
                            EXCEPT !.stage = "initialize", !.tries = 0]
<1>5. found \in Candidate(w) /\ found.chain = "home"
    BY <1>3, CandidateFits
<1>6. \/ found.token # "none" /\ evRequest' = [evRequest EXCEPT ![r] = priced]
      \/ evRequest' = [evRequest EXCEPT ![r] = searched]
    BY <1>4 DEF Ev!goes
<1> HIDE DEF found
<1>7. /\ found.token # "none" => priced \in Gathering(w) /\ Asks(w, priced)
      /\ priced.snapshots = q.snapshots /\ priced.body = q.body
    BY <1>1, <1>5 DEF Gathering, Asks, Candidate
<1>8. searched \in Gathering(w) /\ Asks(w, searched) /\ searched.snapshots = q.snapshots
      /\ searched.body = q.body
    BY <1>1, <1>3 DEF Gathering, Asks
<1>9. PICK g \in {priced, searched} :
          evRequest' = [evRequest EXCEPT ![r] = g] /\ g \in Gathering(w) /\ Asks(w, g)
    BY <1>6, <1>7, <1>8
<1>10. g.snapshots = q.snapshots /\ g.body = q.body
    BY <1>7, <1>8, <1>9
<1> HIDE DEF priced, searched
<1>11. PICK ss : ss = q.snapshots
    OBVIOUS
<1>12. UNCHANGED <<time, drafts, prepared, evProofs, quoted, evCalls>>
    BY DEF Ev!discoverTokenCandidate
<1>13. \A s \in ss : Ev(w)!isOkxMarketSnapshot(s) => [token |-> s.token, chain |-> "home", value |-> s.value] \in quoted
    BY <1>1, <1>11 DEF Grounded
<1>14. g.snapshots = ss /\ Brings(w, g.body.proofHash)
    BY <1>1, <1>10, <1>11 
<1>15. Grounded(w, g)'
    BY <1>12, <1>13, <1>14 DEF Grounded, Ev!isOkxMarketSnapshot
<1>16. evCalls' \in 0 .. w.calls /\ quoted \subseteq quoted' /\ quoted' \subseteq Quote(w)
    BY <1>12 DEF EvidenceInv, EvidenceTypes
<1> QED BY <1>9, <1>12, <1>14, <1>15, <1>16, GatheringGoes

(* The price, the list of chains, or the mock provider's word.  A price that is trusted was quoted. *)
LEMMA GatheringIsAnswered ==
    ASSUME NEW w, Ev(w)!EvidenceAssumption, EvidenceInv(w), NEW r \in w.requests,
                  Ev(w)!priceInfo(r) \/ Ev(w)!priceChains(r) \/ Ev(w)!mockSnapshots(r)
    PROVE  EvidenceInv(w)'
<1> DEFINE q == evRequest[r]
           with(ss) == [[q EXCEPT !.pc = "collected", !.snapshots = ss] EXCEPT !.stage = "initialize", !.tries = 0]
           plain(value) == Ev(w)!snapshot(w.provider, "none", value, "synthetic")
           quote(value) == [token |-> q.candidate.token, chain |-> q.candidate.chain, value |-> value]
<1>1. q \in Gathering(w) /\ Asks(w, q) /\ Grounded(w, q) /\ Brings(w, q.body.proofHash)
    BY DEF EvidenceInv, EvidenceTypes
<1>2. UNCHANGED <<time, drafts, prepared, evProofs, evCalls>>
    BY DEF Ev!priceInfo, Ev!priceChains, Ev!mockSnapshots
<1>3. time \in 1 .. w.time /\ quoted \subseteq Quote(w) /\ w.time \in Nat \ {0}
    BY DEF EvidenceInv, EvidenceTypes, Ev!EvidenceAssumption
<1>4. q.candidate \in Candidate(w)
    BY <1>1 DEF Gathering
<1>5. PICK ss \in SUBSET Ev(w)!Snapshot :
        /\ evRequest' = [evRequest EXCEPT ![r] = with(ss)]
        /\ quoted \subseteq quoted' /\ quoted' \subseteq Quote(w)
        /\ \A s \in ss : Ev(w)!isOkxMarketSnapshot(s) =>
                [token |-> s.token, chain |-> "home", value |-> s.value] \in quoted'
    <2>1. CASE Ev(w)!priceInfo(r)
        <3>1. PICK value \in {0, time} :
                /\ Ev(w)!goes(r, [q EXCEPT !.pc = "collected", !.snapshots = {Ev(w)!buildSnapshot(r, value)}])
                /\ quoted' = IF value = 0 THEN quoted ELSE quoted \cup {quote(value)}
            BY <2>1 DEF Ev!priceInfo
        <3> DEFINE shown == Ev(w)!buildSnapshot(r, value)
        <3>2. q.candidate.chain = "home" /\ q.candidate.token \in w.tokens
            BY <1>1, <2>1 DEF Ev!priceInfo, Ev!callOkxMcpTool, Asks
        <3>3. shown \in Ev(w)!Snapshot
            BY <1>3, <1>4, <3>1 DEF Ev!buildSnapshot, Ev!snapshot, Ev!Snapshot, Candidate,
               Ev!EvidenceAssumption
        <3>4. quote(value) \in Quote(w)
            BY <1>3, <1>4, <3>1 DEF Quote, Candidate
        <3>5. Ev(w)!isOkxMarketSnapshot(shown) => value # 0 /\ shown.value = value
              /\ shown.token = q.candidate.token
            BY <1>3, <3>1 DEF Ev!buildSnapshot, Ev!snapshot, Ev!isOkxMarketSnapshot
        <3>6. quote(value) = [token |-> q.candidate.token, chain |-> "home", value |-> value]
            BY <3>2
        <3>7. evRequest' = [evRequest EXCEPT ![r] = with({shown})]
            BY <3>1 DEF Ev!goes
        <3> HIDE DEF shown, quote
        <3>8. Ev(w)!isOkxMarketSnapshot(shown) => [token |-> shown.token, chain |-> "home", value |-> shown.value] \in quoted'
            BY <3>1, <3>5, <3>6
        <3>9. quoted \subseteq quoted' /\ quoted' \subseteq Quote(w)
            BY <1>3, <3>1, <3>4
        <3>10. {shown} \in SUBSET Ev(w)!Snapshot /\ \A x \in {shown} : x = shown
            BY <3>3
        <3> HIDE DEF with
        <3> DEFINE ss == {shown}
        <3>11. \A x \in ss : Ev(w)!isOkxMarketSnapshot(x) =>
                [token |-> x.token, chain |-> "home", value |-> x.value] \in quoted'
            BY <3>8, <3>10
        <3> QED BY <3>10, <3>7, <3>11, <3>9
    <2>2. CASE Ev(w)!priceChains(r) \/ Ev(w)!mockSnapshots(r)
        <3>1. PICK value \in {0, 1} : evRequest' = [evRequest EXCEPT ![r] = with({plain(value)})]
            BY <2>2 DEF Ev!priceChains, Ev!mockSnapshots, Ev!goes
        <3>2. plain(value) \in Ev(w)!Snapshot /\ ~Ev(w)!isOkxMarketSnapshot(plain(value))
            BY <1>3, <3>1 DEF Ev!snapshot, Ev!Snapshot, Ev!isOkxMarketSnapshot, Ev!EvidenceAssumption
        <3>3. quoted' = quoted
            BY <2>2 DEF Ev!priceChains, Ev!mockSnapshots
        <3> DEFINE ss == {plain(value)}
        <3>4. ss \in SUBSET Ev(w)!Snapshot /\ \A x \in ss : ~Ev(w)!isOkxMarketSnapshot(x)
            BY <3>2
        <3>5. evRequest' = [evRequest EXCEPT ![r] = with(ss)]
            BY <3>1
        <3> HIDE DEF with, plain, ss
        <3> QED BY <1>3, <3>3, <3>4, <3>5
    <2> QED BY <2>1, <2>2
<1>6. with(ss) \in Gathering(w) /\ Asks(w, with(ss)) /\ with(ss).snapshots = ss /\ with(ss).body = q.body
    BY <1>1 DEF Gathering, Asks
<1>7. PICK g \in Gathering(w) : g = with(ss)
    BY <1>6
<1>8. Asks(w, g) /\ g.snapshots = ss /\ Brings(w, g.body.proofHash) /\ evRequest' = [evRequest EXCEPT ![r] = g]
    BY <1>1, <1>5, <1>6, <1>7
<1> HIDE DEF with
<1>9. Grounded(w, g)'
    BY <1>5, <1>8 DEF Grounded, Ev!isOkxMarketSnapshot
<1>10. evCalls' \in 0 .. w.calls
    BY <1>2 DEF EvidenceInv, EvidenceTypes
<1> QED BY <1>2, <1>5, <1>8, <1>9, <1>10, GatheringGoes

(* The proof of what was gathered: a reveal has a price that was quoted, and a hash of what is stored unless it
   brought one. *)
LEMMA ProofFits ==
    ASSUME NEW w, Ev(w)!EvidenceAssumption, EvidenceInv(w), NEW r \in w.requests,
           evRequest[r].pc = "collected"
    PROVE  /\ Ev(w)!proofSnapshots(r) \in SUBSET Ev(w)!Snapshot
           /\ Ev(w)!proofHash(r) \in EvidenceHash(w)
           /\ \/ Ev(w)!proofHash(r) = Ev(w)!hashPayload(evRequest[r].body, Ev(w)!proofSnapshots(r))
              \/ evRequest[r].body.kind = "resolution_reveal" /\ Ev(w)!proofHash(r) = evRequest[r].body.proofHash
           /\ w.real /\ evRequest[r].body.kind = "resolution_reveal" /\ Ev(w)!allowed(r) =>
                 Ev(w)!shows(Ev(w)!proofSnapshots(r))
<1> DEFINE q == evRequest[r]
           trusted == {s \in q.snapshots : Ev(w)!isOkxMarketSnapshot(s)}
<1>1. q \in Gathering(w) /\ Grounded(w, q)
    BY DEF EvidenceInv, EvidenceTypes
<1>2. q.snapshots \in SUBSET Ev(w)!Snapshot /\ q.body \in Body(w) /\ trusted \subseteq q.snapshots
    BY <1>1 DEF Gathering
<1>3. q.body.sources \in SUBSET Ev(w)!Snapshot /\ q.body.kind \in w.kinds \cup {"none"}
      /\ q.body.proofHash \in EvidenceHash(w)
    BY <1>2 DEF Body
<1>4. Ev(w)!proofSnapshots(r) =
        CASE q.body.kind \in {"rule_draft", "public_challenge"} -> Ev(w)!mergeSnapshots(q.body.sources, q.snapshots)
          [] q.body.kind = "resolution_reveal" ->
                Ev(w)!mergeSnapshots(q.body.sources, IF w.real THEN trusted ELSE q.snapshots)
          [] OTHER -> q.snapshots
    BY DEF Ev!proofSnapshots
<1>5. Ev(w)!proofSnapshots(r) \in SUBSET Ev(w)!Snapshot
    BY <1>2, <1>3, <1>4 DEF Ev!mergeSnapshots
<1>6. Ev(w)!proofHash(r) = IF q.body.kind = "resolution_reveal"
      /\ q.body.proofHash # Ev(w)!NoHash THEN q.body.proofHash
                           ELSE Ev(w)!hashPayload(q.body, Ev(w)!proofSnapshots(r))
    BY DEF Ev!proofHash
<1>7. Ev(w)!hashPayload(q.body, Ev(w)!proofSnapshots(r)) \in EvidenceHash(w)
    BY <1>3, <1>5 DEF Ev!hashPayload, EvidenceHash
<1>8. ASSUME w.real, q.body.kind = "resolution_reveal", Ev(w)!allowed(r)
      PROVE  Ev(w)!shows(Ev(w)!proofSnapshots(r))
    <2>1. PICK s \in q.snapshots : Ev(w)!isOkxMarketSnapshot(s)
        BY <1>8 DEF Ev!allowed, Ev!assertOkxResolutionRevealSources, Ev!hasOkxMarketSnapshot
    <2>2. [token |-> s.token, chain |-> "home", value |-> s.value] \in quoted /\ s.provider = "okx-market-mcp"
        BY <1>1, <2>1 DEF Grounded, Ev!isOkxMarketSnapshot
    <2>3. Ev(w)!proofSnapshots(r) = Ev(w)!mergeSnapshots(q.body.sources, trusted) /\ s \in trusted
        BY <1>4, <1>8, <2>1
    <2>4. \E e \in Ev(w)!proofSnapshots(r) : e.provider = s.provider /\ e.value = s.value
        BY <2>3 DEF Ev!mergeSnapshots, Ev!sameKey
    <2> QED BY <2>2, <2>4 DEF Ev!shows
<1> QED BY <1>3, <1>5, <1>6, <1>7, <1>8

LEMMA GatheringEnds ==
    ASSUME NEW w, Ev(w)!EvidenceAssumption, EvidenceInv(w), NEW r \in w.requests,
           Ev(w)!prepareSubmissionArtifacts(r)
    PROVE  EvidenceInv(w)'
<1> DEFINE b == evRequest[r].body
           given == IF b.kind = "resolution_reveal" THEN [b EXCEPT !.proofHash = Ev(w)!proofHash(r)] ELSE b
           p == [kind |-> b.kind, payload |-> b.sources, snapshots |-> Ev(w)!proofSnapshots(r),
                 proofHash |-> IF b.kind = "resolution_commit" THEN Ev(w)!NoHash ELSE Ev(w)!proofHash(r)]
<1>1. /\ evRequest[r].pc = "collected" /\ evRequest' = [evRequest EXCEPT ![r] = Ev(w)!Idle]
      /\ UNCHANGED <<time, quoted, evCalls>>
    BY DEF Ev!prepareSubmissionArtifacts
<1>2. b \in Body(w) /\ Brings(w, b.proofHash) /\ evRequest[r].token \in w.tokens \cup {"none", "symbol"}
    BY DEF EvidenceInv, EvidenceTypes, Gathering
<1>3. \/ UNCHANGED <<prepared, evProofs, drafts>>
      \/ Ev(w)!allowed(r) /\ prepared' = prepared \cup {given} /\ UNCHANGED <<evProofs, drafts>>
      \/ /\ Ev(w)!allowed(r) /\ evProofs' = evProofs \cup {p} /\ UNCHANGED prepared
         /\ drafts' = IF b.kind = "rule_draft" /\ evRequest[r].token # "none"
                      THEN Append(drafts, evRequest[r].token) ELSE drafts
    BY DEF Ev!prepareSubmissionArtifacts
<1>4. p \in EvidenceProof(w)
    BY <1>1, <1>2, ProofFits, NothingGathered DEF EvidenceProof, Body
<1>15. PICK h \in EvidenceHash(w), ss \in SUBSET Ev(w)!Snapshot :
          /\ h = Ev(w)!proofHash(r) /\ ss = Ev(w)!proofSnapshots(r)
          /\ h = Ev(w)!hashPayload(b, ss) \/ (b.kind = "resolution_reveal" /\ h = b.proofHash)
          /\ w.real /\ b.kind = "resolution_reveal" /\ Ev(w)!allowed(r) => Ev(w)!shows(ss)
    BY <1>1, ProofFits
<1>16. h.snapshots = ss \/ Brings(w, h)
    BY <1>2, <1>15 DEF Ev!hashPayload
<1>5. Ev(w)!allowed(r) => GroundedProof(w, p)
    BY <1>15, <1>16 DEF GroundedProof, Brings
<1>6. Aligned(w, p)
    BY <1>2, <1>15, <1>16 DEF Aligned, Brings, Ev!hashPayload
<1>7. given \in Body(w) /\ (given = b \/ (b.kind = "resolution_reveal" /\ given.proofHash = h))
    BY <1>1, <1>2, <1>15 DEF Body
<1>9. PICK built : built = given
    OBVIOUS
<1>10. PICK proof : proof = p
    OBVIOUS
<1> HIDE DEF given, p
<1>11. EvidenceTypes(w)'
    <2>1. drafts' \in Seq(w.tokens \cup {"symbol"})
        <3>1. drafts \in Seq(w.tokens \cup {"symbol"})
            BY DEF EvidenceInv, EvidenceTypes
        <3>2. evRequest[r].token # "none" => Append(drafts, evRequest[r].token) \in Seq(w.tokens \cup {"symbol"})
            BY <1>2, <3>1
        <3> QED BY <1>3, <3>1, <3>2
    <2>2. prepared' \subseteq Body(w) /\ evProofs' \subseteq EvidenceProof(w)
        BY <1>3, <1>4, <1>7 DEF EvidenceInv, EvidenceTypes
    <2>3. evRequest' \in [w.requests -> Gathering(w)]
        BY <1>1, NothingGathered DEF EvidenceInv, EvidenceTypes
    <2> QED BY <1>1, <2>1, <2>2, <2>3 DEF EvidenceInv, EvidenceTypes
<1>17. quoted \subseteq quoted' /\ prepared \subseteq prepared'
    BY <1>1, <1>3
<1>12. ASSUME NEW s \in w.requests
       PROVE  (Asks(w, evRequest[s]) /\ Grounded(w, evRequest[s]) /\ Brings(w, evRequest[s].body.proofHash))'
    <2>1. evRequest'[s] = evRequest[s] \/ evRequest'[s] = Ev(w)!Idle
        BY <1>1 DEF EvidenceInv, EvidenceTypes
    <2>2. PICK g, k : g = evRequest'[s] /\ k = g.body.proofHash
        OBVIOUS
    <2>3. Asks(w, g) /\ Grounded(w, g) /\ Brings(w, k)
        BY <2>1, <2>2, NothingGathered DEF EvidenceInv
    <2>4. Grounded(w, g)' /\ Brings(w, k)'
        BY <1>1, <1>17, <2>3, EvidenceLasts DEF Grounded, Ev!isOkxMarketSnapshot
    <2> QED BY <2>2, <2>3, <2>4 DEF Asks, Grounded, Brings
<1>13. ASSUME NEW x \in prepared' PROVE Brings(w, x.proofHash)'
    <2>1. CASE Brings(w, x.proofHash)
        BY <1>17, <2>1, EvidenceLasts
    <2>2. CASE x = given /\ Ev(w)!allowed(r) /\ b.kind = "resolution_reveal" /\ given.proofHash = h /\ h.snapshots = ss
        <3>1. w.real => Ev(w)!shows(ss)
            BY <1>15, <2>2
        <3>2. w.real => Ev(w)!shows(ss)'
            BY <1>17, <3>1 DEF Ev!shows
        <3> QED BY <2>2, <3>2 DEF Brings, Ev!shows
    <2> QED BY <1>2, <1>3, <1>7, <1>16, <2>1, <2>2 DEF EvidenceInv
<1>14. ASSUME NEW x \in evProofs' PROVE (GroundedProof(w, x) /\ Aligned(w, x))'
    <2>1. x \in evProofs \/ (x = p /\ Ev(w)!allowed(r))
        BY <1>3
    <2>2. GroundedProof(w, x) /\ Aligned(w, x)
        BY <1>5, <1>6, <2>1 DEF EvidenceInv
    <2> QED BY <1>17, <2>2, EvidenceLasts
<1> QED BY <1>11, <1>12, <1>13, <1>14 DEF EvidenceInv

LEMMA EvidenceStays ==
    ASSUME NEW w, Ev(w)!EvidenceAssumption
    PROVE  EvidenceInv(w) /\ [Ev(w)!Next]_(Ev(w)!vars) => EvidenceInv(w)'
<1> SUFFICES ASSUME EvidenceInv(w), [Ev(w)!Next]_(Ev(w)!vars) PROVE EvidenceInv(w)'
    OBVIOUS
<1>1. CASE UNCHANGED Ev(w)!vars
    BY <1>1 DEF Ev!vars, EvidenceInv, EvidenceTypes, Asks, Grounded, Brings, GroundedProof, Aligned, Ev!shows,
             Ev!isOkxMarketSnapshot, Ev!hashPayload
<1>2. CASE Ev(w)!tick
    <2>1. time' \in 1 .. w.time /\ UNCHANGED <<drafts, evRequest, prepared, evProofs, quoted, evCalls>>
        BY <1>2 DEF Ev!tick, EvidenceInv, EvidenceTypes, Ev!EvidenceAssumption
    <2> QED BY <2>1 DEF EvidenceInv, EvidenceTypes, Asks, Grounded, Brings, GroundedProof, Aligned, Ev!shows,
                Ev!isOkxMarketSnapshot, Ev!hashPayload
<1>3. ASSUME NEW r \in w.requests, Ev(w)!prepare(r) PROVE EvidenceInv(w)'
    <2>1. PICK b \in Ev(w)!Bodies, given \in w.tokens \cup {"none", "symbol"} : Ev(w)!begin(r, "prepare", b, given)
        BY <1>3 DEF Ev!prepare, Ev!Own
    <2> QED BY <1>3, <2>1, Included, GatheringBegins DEF Ev!prepare
<1>4. ASSUME NEW r \in w.requests, Ev(w)!submit(r) PROVE EvidenceInv(w)'
    <2>1. CASE \E b \in prepared : Ev(w)!begin(r, "submit", b, "none")
        <3>1. PICK b \in prepared : Ev(w)!begin(r, "submit", b, "none")
            BY <2>1
        <3>2. b \in Body(w) /\ Brings(w, b.proofHash)
            BY DEF EvidenceInv, EvidenceTypes
        <3> QED BY <3>1, <3>2, GatheringBegins
    <2>2. CASE \E b \in Ev(w)!Bodies : \E given \in Ev(w)!Own(b.kind) : Ev(w)!begin(r, "submit", b, given)
        <3>1. PICK b \in Ev(w)!Bodies, given \in w.tokens \cup {"none", "symbol"} : Ev(w)!begin(r, "submit", b, given)
            BY <2>2 DEF Ev!Own
        <3> QED BY <3>1, Included, GatheringBegins
    <2> QED BY <1>4, <2>1, <2>2 DEF Ev!submit
<1>5. ASSUME NEW r \in w.requests, Ev(w)!progress(r) PROVE EvidenceInv(w)'
    BY <1>5, GatheringAsks, GatheringSearches, GatheringIsAnswered, GatheringEnds DEF Ev!progress
<1> QED BY <1>1, <1>2, <1>3, <1>4, <1>5 DEF Ev!Next

(* What such requests have trusted, stored and hashed. *)
LEMMA EvidenceGrounds ==
    ASSUME NEW w, EvidenceInv(w)
    PROVE  /\ Ev(w)!TypeOK /\ Ev(w)!TrustedIsQuoted /\ Ev(w)!RevealGrounded
           /\ Ev(w)!ProofAligned
<1>1. Ev(w)!TypeOK
    BY DEF EvidenceInv, EvidenceTypes, Ev!TypeOK, EvidenceProof, Gathering, Asks
<1>2. Ev(w)!TrustedIsQuoted
    BY DEF EvidenceInv, Grounded, Ev!TrustedIsQuoted
<1>3. Ev(w)!RevealGrounded
    BY DEF EvidenceInv, GroundedProof, Ev!RevealGrounded
<1>4. Ev(w)!ProofAligned
    BY DEF EvidenceInv, Aligned, Ev!ProofAligned
<1> QED BY <1>1, <1>2, <1>3, <1>4

(* However requests, time-outs and what OKX finds interleave: what the API trusts OKX quoted, and under the
   real policy a stored reveal shows such a price, whatever sources its client sent, and so does the evidence it is
   hashed over, if any; and every proof is hashed over what is stored with it unless a reveal brought its hash. *)
THEOREM RevealsStayGrounded ==
    ASSUME NEW w, Ev(w)!EvidenceAssumption
    PROVE  Ev(w)!Init /\ [][Ev(w)!Next]_(Ev(w)!vars) =>
              [](/\ Ev(w)!TypeOK /\ Ev(w)!TrustedIsQuoted /\ Ev(w)!RevealGrounded
                 /\ Ev(w)!ProofAligned)
<1> DEFINE good == /\ Ev(w)!TypeOK /\ Ev(w)!TrustedIsQuoted /\ Ev(w)!RevealGrounded
                   /\ Ev(w)!ProofAligned
<1>1. Ev(w)!Init => EvidenceInv(w)
    BY EvidenceStarts
<1>2. EvidenceInv(w) /\ [Ev(w)!Next]_(Ev(w)!vars) => EvidenceInv(w)'
    BY EvidenceStays
<1>3. EvidenceInv(w) => good
    BY EvidenceGrounds
<1> HIDE DEF good
<1>4. Ev(w)!Init /\ [][Ev(w)!Next]_(Ev(w)!vars) => []good
    BY <1>1, <1>2, <1>3, PTL
<1> QED BY <1>4 DEF good

-----------------------------------------------------------------------------
(* The records that the API stores, area by area. *)
LEMMA AreaStays == [RecordsNext]_recordVars => area' = area
  BY DEF RecordsNext, WorkflowNext, SubmissionsNext, EvidenceNext, recordVars

(* An area's component moves under the area's settings, or stays as it is. *)
LEMMA WorkflowSteps ==
  ASSUME [RecordsNext]_recordVars
  PROVE  /\ area = "workflow" => [Vault(VaultRace)!Next]_(Vault(VaultRace)!vars)
         /\ area = "workflow_alone" => [Vault(VaultAlone)!Next]_(Vault(VaultAlone)!vars)
         /\ area = "workflow_mock" => [Vault(VaultMock)!Next]_(Vault(VaultMock)!vars)
<1>1. CASE UNCHANGED workflowVars
  BY <1>1 DEF workflowVars, Vault!vars
<1>2. CASE WorkflowNext
  BY <1>2 DEF WorkflowNext
<1> QED BY <1>1, <1>2 DEF RecordsNext, SubmissionsNext, EvidenceNext, recordVars

LEMMA SubmissionSteps ==
  ASSUME [RecordsNext]_recordVars
  PROVE  /\ area = "submissions" => [Subs(SubsRace)!Next]_(Subs(SubsRace)!vars)
         /\ area = "submissions_real" => [Subs(SubsReal)!Next]_(Subs(SubsReal)!vars)
         /\ area = "submissions_reveal" => [Subs(SubsReveal)!Next]_(Subs(SubsReveal)!vars)
<1>1. CASE UNCHANGED submissionVars
  BY <1>1 DEF submissionVars, Subs!vars
<1>2. CASE SubmissionsNext
  BY <1>2 DEF SubmissionsNext
<1> QED BY <1>1, <1>2 DEF RecordsNext, WorkflowNext, EvidenceNext, recordVars

LEMMA EvidenceSteps ==
  ASSUME [RecordsNext]_recordVars
  PROVE  /\ area = "evidence" => [Ev(EvRace)!Next]_(Ev(EvRace)!vars)
         /\ area = "evidence_search" => [Ev(EvSearch)!Next]_(Ev(EvSearch)!vars)
         /\ area = "evidence_direct" => [Ev(EvDirect)!Next]_(Ev(EvDirect)!vars)
         /\ area = "evidence_mock" => [Ev(EvMock)!Next]_(Ev(EvMock)!vars)
<1>1. CASE UNCHANGED evidenceVars
  BY <1>1 DEF evidenceVars, Ev!vars
<1>2. CASE EvidenceNext
  BY <1>2 DEF EvidenceNext
<1> QED BY <1>1, <1>2 DEF RecordsNext, WorkflowNext, SubmissionsNext, recordVars

LEMMA OverlappingIsTraced ==
  RecordsSpec => [](area = "workflow" => Vault(VaultRace)!TypeOK /\ Vault(VaultRace)!VerifiedTraces)
<1> DEFINE here == area = "workflow"
           shown == Vault(VaultRace)!TypeOK /\ Vault(VaultRace)!VerifiedTraces
           kept == RecordInv(VaultRace) /\ Booked
<1>1. Vault(VaultRace)!VaultWorkflowAssumption
  BY RecordsAssumption DEF RecordsAssumption
<1>2. RecordsInit /\ here => kept
  <2>1. RecordsInit /\ here => Vault(VaultRace)!Init
    BY DEF RecordsInit
  <2>2. Vault(VaultRace)!Init => Booked
    BY DEF Vault!Init, Booked
  <2> QED BY <1>1, <2>1, <2>2, RecordStarts
<1>3. kept /\ [Vault(VaultRace)!Next]_(Vault(VaultRace)!vars) => kept'
  BY <1>1, RecordStays, BookedStays
<1>4. kept => shown
  BY <1>1, RecordVerifies
<1>5. here /\ [RecordsNext]_recordVars => here' /\ [Vault(VaultRace)!Next]_(Vault(VaultRace)!vars)
  BY AreaStays, WorkflowSteps
<1>6. ~here /\ [RecordsNext]_recordVars => ~here'
  BY AreaStays
<1> HIDE DEF here, shown, kept
<1>7. RecordsSpec => [](here => shown)
  BY <1>2, <1>3, <1>4, <1>5, <1>6, PTL DEF RecordsSpec
<1> QED BY <1>7 DEF here, shown

LEMMA AloneIsTraced ==
  RecordsSpec => [](area = "workflow_alone" => Vault(VaultAlone)!RegisteredOnce /\ Vault(VaultAlone)!TracesKept)
<1> DEFINE here == area = "workflow_alone"
           shown == Vault(VaultAlone)!RegisteredOnce /\ Vault(VaultAlone)!TracesKept
           kept == AloneSound(VaultAlone)
<1>1. Vault(VaultAlone)!VaultWorkflowAssumption /\ OneAtATime(VaultAlone)
      /\ "registerOnchain" \notin VaultAlone.ops
  BY RecordsAssumption DEF RecordsAssumption, OneAtATime
<1>2. RecordsInit /\ here => kept
  BY <1>1, SoundAtFirst DEF RecordsInit
<1>3. kept /\ [Vault(VaultAlone)!Next]_(Vault(VaultAlone)!vars) => kept'
  BY <1>1, SoundIsKept
<1>4. kept => shown
  BY <1>1, AloneIsOnce
<1>5. here /\ [RecordsNext]_recordVars => here' /\ [Vault(VaultAlone)!Next]_(Vault(VaultAlone)!vars)
  BY AreaStays, WorkflowSteps
<1>6. ~here /\ [RecordsNext]_recordVars => ~here'
  BY AreaStays
<1> HIDE DEF here, shown, kept
<1>7. RecordsSpec => [](here => shown)
  BY <1>2, <1>3, <1>4, <1>5, <1>6, PTL DEF RecordsSpec
<1> QED BY <1>7 DEF here, shown

LEMMA MockIsTraced == RecordsSpec => [](area = "workflow_mock" => Vault(VaultMock)!TracesKept)
<1> DEFINE here == area = "workflow_mock"
           shown == Vault(VaultMock)!TracesKept
           kept == AloneSound(VaultMock)
<1>1. Vault(VaultMock)!VaultWorkflowAssumption /\ OneAtATime(VaultMock)
      /\ "registerOnchain" \notin VaultMock.ops
  BY RecordsAssumption DEF RecordsAssumption, OneAtATime
<1>2. RecordsInit /\ here => kept
  BY <1>1, SoundAtFirst DEF RecordsInit
<1>3. kept /\ [Vault(VaultMock)!Next]_(Vault(VaultMock)!vars) => kept'
  BY <1>1, SoundIsKept
<1>4. kept => shown
  BY <1>1, AloneIsOnce
<1>5. here /\ [RecordsNext]_recordVars => here' /\ [Vault(VaultMock)!Next]_(Vault(VaultMock)!vars)
  BY AreaStays, WorkflowSteps
<1>6. ~here /\ [RecordsNext]_recordVars => ~here'
  BY AreaStays
<1> HIDE DEF here, shown, kept
<1>7. RecordsSpec => [](here => shown)
  BY <1>2, <1>3, <1>4, <1>5, <1>6, PTL DEF RecordsSpec
<1> QED BY <1>7 DEF here, shown

LEMMA OverlappingIsSound ==
  RecordsSpec => [](area = "submissions" => Subs(SubsRace)!SubmissionsAreSound)
<1> DEFINE here == area = "submissions"
           shown == Subs(SubsRace)!SubmissionsAreSound
           kept == WorkInv(SubsRace)
<1>1. Subs(SubsRace)!SubmissionsAssumption
  BY RecordsAssumption DEF RecordsAssumption
<1>2. RecordsInit /\ here => kept
  BY <1>1, WorkAtFirst DEF RecordsInit
<1>3. kept /\ [Subs(SubsRace)!Next]_(Subs(SubsRace)!vars) => kept'
  BY <1>1, WorkIsKept
<1>4. kept => shown
  BY <1>1, WorkIsSound
<1>5. here /\ [RecordsNext]_recordVars => here' /\ [Subs(SubsRace)!Next]_(Subs(SubsRace)!vars)
  BY AreaStays, SubmissionSteps
<1>6. ~here /\ [RecordsNext]_recordVars => ~here'
  BY AreaStays
<1> HIDE DEF here, shown, kept
<1>7. RecordsSpec => [](here => shown)
  BY <1>2, <1>3, <1>4, <1>5, <1>6, PTL DEF RecordsSpec
<1> QED BY <1>7 DEF here, shown

LEMMA RealIsSound ==
  RecordsSpec => [](area = "submissions_real" => Subs(SubsReal)!SubmissionsAreSound)
<1> DEFINE here == area = "submissions_real"
           shown == Subs(SubsReal)!SubmissionsAreSound
           kept == WorkInv(SubsReal)
<1>1. Subs(SubsReal)!SubmissionsAssumption
  BY RecordsAssumption DEF RecordsAssumption
<1>2. RecordsInit /\ here => kept
  BY <1>1, WorkAtFirst DEF RecordsInit
<1>3. kept /\ [Subs(SubsReal)!Next]_(Subs(SubsReal)!vars) => kept'
  BY <1>1, WorkIsKept
<1>4. kept => shown
  BY <1>1, WorkIsSound
<1>5. here /\ [RecordsNext]_recordVars => here' /\ [Subs(SubsReal)!Next]_(Subs(SubsReal)!vars)
  BY AreaStays, SubmissionSteps
<1>6. ~here /\ [RecordsNext]_recordVars => ~here'
  BY AreaStays
<1> HIDE DEF here, shown, kept
<1>7. RecordsSpec => [](here => shown)
  BY <1>2, <1>3, <1>4, <1>5, <1>6, PTL DEF RecordsSpec
<1> QED BY <1>7 DEF here, shown

LEMMA RevealingIsSound ==
  RecordsSpec => [](area = "submissions_reveal" => Subs(SubsReveal)!SubmissionsAreSound /\ Subs(SubsReveal)!RevealsMatch)
<1> DEFINE here == area = "submissions_reveal"
           shown == Subs(SubsReveal)!SubmissionsAreSound /\ Subs(SubsReveal)!RevealsMatch
           kept == PairInv(SubsReveal) /\ WorkInv(SubsReveal)
<1>1. Subs(SubsReveal)!SubmissionsAssumption /\ RealWork(SubsReveal)
  BY RecordsAssumption DEF RecordsAssumption, RealWork
<1>2. RecordsInit /\ here => kept
  BY <1>1, PairAtFirst, WorkAtFirst DEF RecordsInit
<1>3. kept /\ [Subs(SubsReveal)!Next]_(Subs(SubsReveal)!vars) => kept'
  BY <1>1, PairIsKept, WorkIsKept
<1>4. kept => shown
  BY <1>1, PairMatches, WorkIsSound
<1>5. here /\ [RecordsNext]_recordVars => here' /\ [Subs(SubsReveal)!Next]_(Subs(SubsReveal)!vars)
  BY AreaStays, SubmissionSteps
<1>6. ~here /\ [RecordsNext]_recordVars => ~here'
  BY AreaStays
<1> HIDE DEF here, shown, kept
<1>7. RecordsSpec => [](here => shown)
  BY <1>2, <1>3, <1>4, <1>5, <1>6, PTL DEF RecordsSpec
<1> QED BY <1>7 DEF here, shown

LEMMA OverlappingIsGrounded ==
  RecordsSpec => [](area = "evidence" => Ev(EvRace)!TypeOK /\ Ev(EvRace)!RevealGrounded /\ Ev(EvRace)!ProofAligned)
<1> DEFINE here == area = "evidence"
           shown == Ev(EvRace)!TypeOK /\ Ev(EvRace)!RevealGrounded /\ Ev(EvRace)!ProofAligned
           kept == EvidenceInv(EvRace)
<1>1. Ev(EvRace)!EvidenceAssumption
  BY RecordsAssumption DEF RecordsAssumption
<1>2. RecordsInit /\ here => kept
  BY <1>1, EvidenceStarts DEF RecordsInit
<1>3. kept /\ [Ev(EvRace)!Next]_(Ev(EvRace)!vars) => kept'
  BY <1>1, EvidenceStays
<1>4. kept => shown
  BY <1>1, EvidenceGrounds
<1>5. here /\ [RecordsNext]_recordVars => here' /\ [Ev(EvRace)!Next]_(Ev(EvRace)!vars)
  BY AreaStays, EvidenceSteps
<1>6. ~here /\ [RecordsNext]_recordVars => ~here'
  BY AreaStays
<1> HIDE DEF here, shown, kept
<1>7. RecordsSpec => [](here => shown)
  BY <1>2, <1>3, <1>4, <1>5, <1>6, PTL DEF RecordsSpec
<1> QED BY <1>7 DEF here, shown

LEMMA SearchingIsGrounded ==
  RecordsSpec => [](area = "evidence_search" => Ev(EvSearch)!TrustedIsQuoted /\ Ev(EvSearch)!RevealGrounded)
<1> DEFINE here == area = "evidence_search"
           shown == Ev(EvSearch)!TrustedIsQuoted /\ Ev(EvSearch)!RevealGrounded
           kept == EvidenceInv(EvSearch)
<1>1. Ev(EvSearch)!EvidenceAssumption
  BY RecordsAssumption DEF RecordsAssumption
<1>2. RecordsInit /\ here => kept
  BY <1>1, EvidenceStarts DEF RecordsInit
<1>3. kept /\ [Ev(EvSearch)!Next]_(Ev(EvSearch)!vars) => kept'
  BY <1>1, EvidenceStays
<1>4. kept => shown
  BY <1>1, EvidenceGrounds
<1>5. here /\ [RecordsNext]_recordVars => here' /\ [Ev(EvSearch)!Next]_(Ev(EvSearch)!vars)
  BY AreaStays, EvidenceSteps
<1>6. ~here /\ [RecordsNext]_recordVars => ~here'
  BY AreaStays
<1> HIDE DEF here, shown, kept
<1>7. RecordsSpec => [](here => shown)
  BY <1>2, <1>3, <1>4, <1>5, <1>6, PTL DEF RecordsSpec
<1> QED BY <1>7 DEF here, shown

LEMMA DirectIsGrounded == RecordsSpec => [](area = "evidence_direct" => Ev(EvDirect)!ProofAligned)
<1> DEFINE here == area = "evidence_direct"
           shown == Ev(EvDirect)!ProofAligned
           kept == EvidenceInv(EvDirect)
<1>1. Ev(EvDirect)!EvidenceAssumption
  BY RecordsAssumption DEF RecordsAssumption
<1>2. RecordsInit /\ here => kept
  BY <1>1, EvidenceStarts DEF RecordsInit
<1>3. kept /\ [Ev(EvDirect)!Next]_(Ev(EvDirect)!vars) => kept'
  BY <1>1, EvidenceStays
<1>4. kept => shown
  BY <1>1, EvidenceGrounds
<1>5. here /\ [RecordsNext]_recordVars => here' /\ [Ev(EvDirect)!Next]_(Ev(EvDirect)!vars)
  BY AreaStays, EvidenceSteps
<1>6. ~here /\ [RecordsNext]_recordVars => ~here'
  BY AreaStays
<1> HIDE DEF here, shown, kept
<1>7. RecordsSpec => [](here => shown)
  BY <1>2, <1>3, <1>4, <1>5, <1>6, PTL DEF RecordsSpec
<1> QED BY <1>7 DEF here, shown

LEMMA MockIsGrounded ==
  RecordsSpec => [](area = "evidence_mock" => Ev(EvMock)!RevealGrounded /\ Ev(EvMock)!ProofAligned)
<1> DEFINE here == area = "evidence_mock"
           shown == Ev(EvMock)!RevealGrounded /\ Ev(EvMock)!ProofAligned
           kept == EvidenceInv(EvMock)
<1>1. Ev(EvMock)!EvidenceAssumption
  BY RecordsAssumption DEF RecordsAssumption
<1>2. RecordsInit /\ here => kept
  BY <1>1, EvidenceStarts DEF RecordsInit
<1>3. kept /\ [Ev(EvMock)!Next]_(Ev(EvMock)!vars) => kept'
  BY <1>1, EvidenceStays
<1>4. kept => shown
  BY <1>1, EvidenceGrounds
<1>5. here /\ [RecordsNext]_recordVars => here' /\ [Ev(EvMock)!Next]_(Ev(EvMock)!vars)
  BY AreaStays, EvidenceSteps
<1>6. ~here /\ [RecordsNext]_recordVars => ~here'
  BY AreaStays
<1> HIDE DEF here, shown, kept
<1>7. RecordsSpec => [](here => shown)
  BY <1>2, <1>3, <1>4, <1>5, <1>6, PTL DEF RecordsSpec
<1> QED BY <1>7 DEF here, shown

(* Whatever requests, timers, setters and the finalizer do between them, a record's traces show no setter's
   decision that the factory refused or that is about another vault.  One request after another, a record is
   registered once, and every transaction whose outcome the API has read is in the traces, or in the hands of
   the request that is still to save it; a request lets go of one only when it ends in an error, or when it
   closed a challenge and then found the vault not ready.
   [vault-service.ts; workflow-service.ts] *)
THEOREM RecordsAreAlwaysTraced == RecordsSpec => []RecordsAreTraced
<1> DEFINE race == area = "workflow" => Vault(VaultRace)!TypeOK /\ Vault(VaultRace)!VerifiedTraces
           alone == area = "workflow_alone" =>
                        Vault(VaultAlone)!RegisteredOnce /\ Vault(VaultAlone)!TracesKept
           mocked == area = "workflow_mock" => Vault(VaultMock)!TracesKept
<1>1. RecordsSpec => []race /\ []alone /\ []mocked
  BY OverlappingIsTraced, AloneIsTraced, MockIsTraced, PTL
<1>2. race /\ alone /\ mocked => RecordsAreTraced
  BY DEF RecordsAreTraced
<1> QED BY <1>1, <1>2, PTL

(* However submissions overlap and fail, none is stored twice, a proof that names a transaction has
   its submission, and each is what the chain has; accepted reveals match their commits.
   [submission-service.ts; postgres-workflow-store.ts] *)
THEOREM SubmissionsAreAlwaysSound == RecordsSpec => []SubmissionsAreSound
<1> DEFINE race == area = "submissions" => Subs(SubsRace)!SubmissionsAreSound
           real == area = "submissions_real" => Subs(SubsReal)!SubmissionsAreSound
           reveals == area = "submissions_reveal" =>
                        Subs(SubsReveal)!SubmissionsAreSound /\ Subs(SubsReveal)!RevealsMatch
<1>1. RecordsSpec => []race /\ []real /\ []reveals
  BY OverlappingIsSound, RealIsSound, RevealingIsSound, PTL
<1>2. race /\ real /\ reveals => SubmissionsAreSound
  BY DEF SubmissionsAreSound
<1> QED BY <1>1, <1>2, PTL

(* A reveal stored under the real policy rests on a price that OKX quoted for the home chain, and its
   proof's hash is over what is stored with it, unless the reveal brought the hash: a client's own
   without snapshots, or one that was prepared from other snapshots.
   [submission-service.ts, prepareSubmissionArtifacts; okx-market-data-provider.ts] *)
THEOREM RevealsAreAlwaysGrounded == RecordsSpec => []RevealsAreGrounded
<1> DEFINE race == area = "evidence" => Ev(EvRace)!TypeOK /\ Ev(EvRace)!RevealGrounded /\ Ev(EvRace)!ProofAligned
           searched == area = "evidence_search" =>
                         Ev(EvSearch)!TrustedIsQuoted /\ Ev(EvSearch)!RevealGrounded
           direct == area = "evidence_direct" => Ev(EvDirect)!ProofAligned
           mocked == area = "evidence_mock" => Ev(EvMock)!RevealGrounded /\ Ev(EvMock)!ProofAligned
<1>1. RecordsSpec => []race /\ []searched /\ []direct /\ []mocked
  BY OverlappingIsGrounded, SearchingIsGrounded, DirectIsGrounded, MockIsGrounded, PTL
<1>2. race /\ searched /\ direct /\ mocked => RevealsAreGrounded
  BY DEF RevealsAreGrounded
<1> QED BY <1>1, <1>2, PTL

-----------------------------------------------------------------------------
(* The parts of the server (Server): what ServiceProofs proves of a component for any settings it
   proves of the component in each part, where that part's settings stand in for the constants.
   The constants and variables here are those that a part leaves as they are. *)
CONSTANTS
    Stakings, Owners, Txs, Vaults, WalletPostgres, Mock, MaySeed, MaxClaims, MaxWalletRestarts

OfFirst ==
    INSTANCE ServiceProofs WITH
       Calls <- SeedRace.calls, Writers <- SeedRace.writers, Stamps <- 1 .. SeedRace.stamps,
       Amount <- SeedRace.amount, OwnStakes <- SeedRace.own, MaxFaults <- SeedRace.faults,
       MaxCrashes <- SeedRace.crashes, MaxTxs <- SeedRace.txs, MaxRearms <- SeedRace.rearms,
       StoreFails <- SeedRace.crashes > 0, MaxRestakes <- SeedRace.restakes, Requests <- RegPostgres.requests,
       Wallets <- RegPostgres.wallets, DemoWallets <- RegPostgres.demo,
       Postgres <- RegPostgres.postgres, FixedSecret <- RegPostgres.fixed,
       MaxChallenges <- RegPostgres.challenges, MaxAsked <- RegPostgres.asked,
       MaxRestarts <- RegPostgres.restarts,
       MayExpire <- RegPostgres.asked = RegPostgres.challenges,
       Stakings <- WalletRace.requests, Owners <- WalletRace.agents, Txs <- WalletRace.txs,
       Vaults <- WalletRace.vaults, WalletPostgres <- WalletRace.postgres,
       Mock <- WalletRace.mock, MaySeed <- FALSE, MaxClaims <- WalletRace.claims,
       MaxWalletRestarts <- WalletRace.restarts, Uploads <- UploadPinned.requests,
       Signers <- UploadPinned.wallets, Contents <- UploadPinned.texts,
       UploadKinds <- UploadPinned.kinds, Gateways <- UploadPinned.gateways,
       Configured <- UploadPinned.configured, Defaults <- UploadPinned.defaults,
       Pinata <- UploadPinned.pinata, Steady <- UploadPinned.steady,
       Provider <- UploadPinned.provider,
       UploadProduction <- UploadPinned.provider = "ipfs",
       MaxUploadRounds <- UploadPinned.rounds, MaxSigned <- UploadPinned.signed,
       MaxUploads <- UploadPinned.calls
OfSecond ==
    INSTANCE ServiceProofs WITH
       Calls <- SeedCrash.calls, Writers <- SeedCrash.writers,
       Stamps <- 1 .. SeedCrash.stamps, Amount <- SeedCrash.amount,
       OwnStakes <- SeedCrash.own, MaxFaults <- SeedCrash.faults,
       MaxCrashes <- SeedCrash.crashes, MaxTxs <- SeedCrash.txs,
       MaxRearms <- SeedCrash.rearms, StoreFails <- SeedCrash.crashes > 0, MaxRestakes <- SeedCrash.restakes,
       Requests <- RegMemory.requests, Wallets <- RegMemory.wallets,
       DemoWallets <- RegMemory.demo, Postgres <- RegMemory.postgres,
       FixedSecret <- RegMemory.fixed, MaxChallenges <- RegMemory.challenges,
       MaxAsked <- RegMemory.asked, MaxRestarts <- RegMemory.restarts,
       MayExpire <- RegMemory.asked = RegMemory.challenges,
       Stakings <- WalletAlone.requests, Owners <- WalletAlone.agents,
       Txs <- WalletAlone.txs, Vaults <- WalletAlone.vaults,
       WalletPostgres <- WalletAlone.postgres, Mock <- WalletAlone.mock, MaySeed <- FALSE,
       MaxClaims <- WalletAlone.claims, MaxWalletRestarts <- WalletAlone.restarts,
       Uploads <- UploadLocal.requests, Signers <- UploadLocal.wallets,
       Contents <- UploadLocal.texts, UploadKinds <- UploadLocal.kinds,
       Gateways <- UploadLocal.gateways, Configured <- UploadLocal.configured,
       Defaults <- UploadLocal.defaults, Pinata <- UploadLocal.pinata,
       Steady <- UploadLocal.steady, Provider <- UploadLocal.provider,
       UploadProduction <- UploadLocal.provider = "ipfs",
       MaxUploadRounds <- UploadLocal.rounds, MaxSigned <- UploadLocal.signed,
       MaxUploads <- UploadLocal.calls
OfThird ==
    INSTANCE ServiceProofs WITH
       Calls <- SeedProfile.calls, Writers <- SeedProfile.writers,
       Stamps <- 1 .. SeedProfile.stamps, Amount <- SeedProfile.amount,
       OwnStakes <- SeedProfile.own, MaxFaults <- SeedProfile.faults,
       MaxCrashes <- SeedProfile.crashes, MaxTxs <- SeedProfile.txs,
       MaxRearms <- SeedProfile.rearms, StoreFails <- SeedProfile.crashes > 0, MaxRestakes <- SeedProfile.restakes,
       Requests <- RegAlone.requests, Wallets <- RegAlone.wallets,
       DemoWallets <- RegAlone.demo, Postgres <- RegAlone.postgres,
       FixedSecret <- RegAlone.fixed, MaxChallenges <- RegAlone.challenges,
       MaxAsked <- RegAlone.asked, MaxRestarts <- RegAlone.restarts,
       MayExpire <- RegAlone.asked = RegAlone.challenges, Uploads <- UploadServed.requests,
       Signers <- UploadServed.wallets, Contents <- UploadServed.texts,
       UploadKinds <- UploadServed.kinds, Gateways <- UploadServed.gateways,
       Configured <- UploadServed.configured, Defaults <- UploadServed.defaults,
       Pinata <- UploadServed.pinata, Steady <- UploadServed.steady,
       Provider <- UploadServed.provider,
       UploadProduction <- UploadServed.provider = "ipfs",
       MaxUploadRounds <- UploadServed.rounds, MaxSigned <- UploadServed.signed,
       MaxUploads <- UploadServed.calls

LEMMA PartStays == ASSUME [ServerNext]_serverVars PROVE part' = part
  BY DEF ServerNext, StartupNext, SeedNext, RegNext, WalletNext, OkxNext, UploadNext, serverVars

LEMMA RaceMoves ==
         /\ SR!Init <=> OfFirst!Init
         /\ SR!Next <=> OfFirst!Next
  BY DEF
     SR!Init, SR!Next, SR!NoEvidence, SR!NoPending, SR!NoLocals, SR!Request, SR!Fault,
     SR!broadcastAnswerLost, SR!Settle, SR!restake, SR!Crash, SR!readProfile, SR!saveProfile,
     SR!None, SR!ensureRegistrationStakeSeed, SR!prepareSeedTarget, SR!recoverPendingSeed,
     SR!recoverWithoutReceipt, SR!recoverOverdueSeed, SR!rearmPendingSeed, SR!checkStakeBefore,
     SR!ensureAllowance, SR!beginSeedBroadcast, SR!awaitReceipt, SR!persistSeed,
     SR!persistPending, SR!persistFailure, SR!markStakeSeedPending, SR!At, SR!ChainSteps,
     SR!GoTo, SR!AfterFault, SR!chainVars, SR!counters, SR!history, SR!MayBroadcast, SR!Go,
     SR!IsSeeded, SR!WithSeed, SR!HasPending, SR!WithPending, SR!PendingSeed, SR!Ready,
     SR!Receipt, SR!StakeReached, SR!RecoveredEvidence, SR!WithEvidence,
     SR!CanUseAwaitingLease, SR!FreshStamp, SR!Recovered, SR!TxWith, SR!ClearsPending,
     SR!StampsInUse, SR!WritesPending, SR!Displaced, SR!Counts, SR!InPlay, SR!Excuse,
     SR!Reasons, OfFirst!Init, OfFirst!Next, OfFirst!NoEvidence, OfFirst!NoPending,
     OfFirst!NoLocals, OfFirst!Request, OfFirst!Fault, OfFirst!broadcastAnswerLost,
     OfFirst!Settle, OfFirst!restake, OfFirst!Crash, OfFirst!readProfile, OfFirst!saveProfile,
     OfFirst!None, OfFirst!ensureRegistrationStakeSeed, OfFirst!prepareSeedTarget,
     OfFirst!recoverPendingSeed, OfFirst!recoverWithoutReceipt, OfFirst!recoverOverdueSeed,
     OfFirst!rearmPendingSeed, OfFirst!checkStakeBefore, OfFirst!ensureAllowance,
     OfFirst!beginSeedBroadcast, OfFirst!awaitReceipt, OfFirst!persistSeed,
     OfFirst!persistPending, OfFirst!persistFailure, OfFirst!markStakeSeedPending, OfFirst!At,
     OfFirst!ChainSteps, OfFirst!GoTo, OfFirst!AfterFault, OfFirst!chainVars, OfFirst!counters,
     OfFirst!history, OfFirst!MayBroadcast, OfFirst!Go, OfFirst!IsSeeded, OfFirst!WithSeed,
     OfFirst!HasPending, OfFirst!WithPending, OfFirst!PendingSeed, OfFirst!Ready,
     OfFirst!Receipt, OfFirst!StakeReached, OfFirst!RecoveredEvidence, OfFirst!WithEvidence,
     OfFirst!CanUseAwaitingLease, OfFirst!FreshStamp, OfFirst!Recovered, OfFirst!TxWith,
     OfFirst!ClearsPending, OfFirst!StampsInUse, OfFirst!WritesPending, OfFirst!Displaced,
     OfFirst!Counts, OfFirst!InPlay, OfFirst!Excuse, OfFirst!Reasons

LEMMA RaceMeans ==
         /\ SR!SeedAssumption <=> OfFirst!SeedAssumption
         /\ SR!TypeOK <=> OfFirst!TypeOK
         /\ SR!EvidenceBacked <=> OfFirst!EvidenceBacked
         /\ SR!OneBroadcastPerChance <=> OfFirst!OneBroadcastPerChance
         /\ SR!SeedsOnce <=> OfFirst!SeedsOnce
         /\ SR!EvidenceStays <=> OfFirst!EvidenceStays
  BY DEF
     SR!SeedAssumption, SR!TypeOK, SR!EvidenceBacked, SR!OneBroadcastPerChance, SR!SeedsOnce,
     SR!EvidenceStays, SR!Row, SR!Locals, SR!IsSeeded, SR!Evidence, SR!Pending, SR!Steps,
     SR!Hashes, SR!Recovered, SR!None, SR!NoPending, SR!Stages, SR!Reasons, SR!Counts,
     SR!InPlay, SR!Cardinality, SR!IsFiniteSet, OfFirst!SeedAssumption, OfFirst!TypeOK,
     OfFirst!EvidenceBacked, OfFirst!OneBroadcastPerChance, OfFirst!SeedsOnce,
     OfFirst!EvidenceStays, OfFirst!Row, OfFirst!Locals, OfFirst!IsSeeded, OfFirst!Evidence,
     OfFirst!Pending, OfFirst!Steps, OfFirst!Hashes, OfFirst!Recovered, OfFirst!None,
     OfFirst!NoPending, OfFirst!Stages, OfFirst!Reasons, OfFirst!Counts, OfFirst!InPlay,
     OfFirst!Cardinality, OfFirst!IsFiniteSet

LEMMA RaceSteps ==
  ASSUME part = "seed_race", [ServerNext]_serverVars
  PROVE  part' = "seed_race" /\ [OfFirst!Next]_OfFirst!vars
<1>1. CASE UNCHANGED serverVars
  BY <1>1 DEF serverVars, seedVars, OfFirst!vars, OfFirst!chainVars, OfFirst!counters, OfFirst!history
<1>2. CASE ServerNext
  <2>1. part' = "seed_race" /\ SR!Next
    BY <1>2 DEF ServerNext, StartupNext, SeedNext, RegNext, WalletNext, OkxNext, UploadNext
  <2> QED BY <2>1, RaceMoves
<1> QED BY <1>1, <1>2

LEMMA RaceKeeps ==
  ServerSpec => [](part = "seed_race" =>
     SR!TypeOK /\ SR!EvidenceBacked /\ SR!OneBroadcastPerChance /\ SR!SeedsOnce)
<1> DEFINE here == part = "seed_race"
           good == /\ OfFirst!TypeOK /\ OfFirst!EvidenceBacked
                   /\ OfFirst!OneBroadcastPerChance /\ OfFirst!SeedsOnce
           shown == SR!TypeOK /\ SR!EvidenceBacked /\ SR!OneBroadcastPerChance /\ SR!SeedsOnce
<1>1. OfFirst!SeedAssumption /\ SeedRace.writers = {}
  BY RaceMeans, ServerAssumption DEF ServerAssumption
<1>2. OfFirst!Init /\ [][OfFirst!Next]_OfFirst!vars => []OfFirst!TypeOK
  BY <1>1, OfFirst!SeedTypeIsInvariant, PTL DEF OfFirst!Spec
<1>3. OfFirst!Init /\ [][OfFirst!Next]_OfFirst!vars => []OfFirst!EvidenceBacked
  BY <1>1, OfFirst!EvidenceStaysBacked, PTL DEF OfFirst!Spec
<1>4. OfFirst!Init /\ [][OfFirst!Next]_OfFirst!vars => []OfFirst!OneBroadcastPerChance
  BY <1>1, OfFirst!BroadcastsAreShared, PTL DEF OfFirst!Spec
<1>5. OfFirst!Init /\ [][OfFirst!Next]_OfFirst!vars => []OfFirst!SeedsOnce
  BY <1>1, OfFirst!SeedsAreExplained, PTL DEF OfFirst!Spec
<1>6. ServerInit /\ here => OfFirst!Init
  BY RaceMoves DEF ServerInit
<1>7. here /\ [ServerNext]_serverVars => here' /\ [OfFirst!Next]_OfFirst!vars
  BY RaceSteps
<1>8. ~here /\ [ServerNext]_serverVars => ~here'
  BY PartStays
<1>9. good => shown
  BY RaceMeans
<1> HIDE DEF here, shown
<1>10. ServerSpec => [](here => shown)
  BY <1>2, <1>3, <1>4, <1>5, <1>6, <1>7, <1>8, <1>9, PTL DEF ServerSpec
<1> QED BY <1>10 DEF here, shown

LEMMA RaceIsFinal == ServerSpec => [][part = "seed_race" => SR!EvidenceStays]_seedVars
<1> DEFINE here == part = "seed_race"
           stays == SR!EvidenceStays
<1>1. OfFirst!SeedAssumption /\ SeedRace.writers = {}
  BY RaceMeans, ServerAssumption DEF ServerAssumption
<1>2. OfFirst!Init /\ [][OfFirst!Next]_OfFirst!vars => [][OfFirst!EvidenceStays]_OfFirst!vars
  BY <1>1, OfFirst!EvidenceIsFinal, PTL DEF OfFirst!Spec
<1>3. ServerInit /\ here => OfFirst!Init
  BY RaceMoves DEF ServerInit
<1>4. here /\ [ServerNext]_serverVars => here' /\ [OfFirst!Next]_OfFirst!vars
  BY RaceSteps
<1>5. ~here /\ [ServerNext]_serverVars => ~here'
  BY PartStays
<1>6. [OfFirst!EvidenceStays]_OfFirst!vars => [here => stays]_seedVars
  BY RaceMeans DEF seedVars, OfFirst!vars, OfFirst!chainVars, OfFirst!counters, OfFirst!history
<1>7. ~here => [here => stays]_seedVars
  OBVIOUS
<1> HIDE DEF here, stays
<1>8. ServerSpec => [][here => stays]_seedVars
  BY <1>2, <1>3, <1>4, <1>5, <1>6, <1>7, PTL DEF ServerSpec
<1> QED BY <1>8 DEF here, stays

LEMMA CrashMoves ==
         /\ SC!Init <=> OfSecond!Init
         /\ SC!Next <=> OfSecond!Next
  BY DEF
     SC!Init, SC!Next, SC!NoEvidence, SC!NoPending, SC!NoLocals, SC!Request, SC!Fault,
     SC!broadcastAnswerLost, SC!Settle, SC!restake, SC!Crash, SC!readProfile, SC!saveProfile,
     SC!None, SC!ensureRegistrationStakeSeed, SC!prepareSeedTarget, SC!recoverPendingSeed,
     SC!recoverWithoutReceipt, SC!recoverOverdueSeed, SC!rearmPendingSeed, SC!checkStakeBefore,
     SC!ensureAllowance, SC!beginSeedBroadcast, SC!awaitReceipt, SC!persistSeed,
     SC!persistPending, SC!persistFailure, SC!markStakeSeedPending, SC!At, SC!ChainSteps,
     SC!GoTo, SC!AfterFault, SC!chainVars, SC!counters, SC!history, SC!MayBroadcast, SC!Go,
     SC!IsSeeded, SC!WithSeed, SC!HasPending, SC!WithPending, SC!PendingSeed, SC!Ready,
     SC!Receipt, SC!StakeReached, SC!RecoveredEvidence, SC!WithEvidence,
     SC!CanUseAwaitingLease, SC!FreshStamp, SC!Recovered, SC!TxWith, SC!ClearsPending,
     SC!StampsInUse, SC!WritesPending, SC!Displaced, SC!Counts, SC!InPlay, SC!Excuse,
     SC!Reasons, OfSecond!Init, OfSecond!Next, OfSecond!NoEvidence, OfSecond!NoPending,
     OfSecond!NoLocals, OfSecond!Request, OfSecond!Fault, OfSecond!broadcastAnswerLost,
     OfSecond!Settle, OfSecond!restake, OfSecond!Crash, OfSecond!readProfile,
     OfSecond!saveProfile, OfSecond!None, OfSecond!ensureRegistrationStakeSeed,
     OfSecond!prepareSeedTarget, OfSecond!recoverPendingSeed, OfSecond!recoverWithoutReceipt,
     OfSecond!recoverOverdueSeed, OfSecond!rearmPendingSeed, OfSecond!checkStakeBefore,
     OfSecond!ensureAllowance, OfSecond!beginSeedBroadcast, OfSecond!awaitReceipt,
     OfSecond!persistSeed, OfSecond!persistPending, OfSecond!persistFailure,
     OfSecond!markStakeSeedPending, OfSecond!At, OfSecond!ChainSteps, OfSecond!GoTo,
     OfSecond!AfterFault, OfSecond!chainVars, OfSecond!counters, OfSecond!history,
     OfSecond!MayBroadcast, OfSecond!Go, OfSecond!IsSeeded, OfSecond!WithSeed,
     OfSecond!HasPending, OfSecond!WithPending, OfSecond!PendingSeed, OfSecond!Ready,
     OfSecond!Receipt, OfSecond!StakeReached, OfSecond!RecoveredEvidence,
     OfSecond!WithEvidence, OfSecond!CanUseAwaitingLease, OfSecond!FreshStamp,
     OfSecond!Recovered, OfSecond!TxWith, OfSecond!ClearsPending, OfSecond!StampsInUse,
     OfSecond!WritesPending, OfSecond!Displaced, OfSecond!Counts, OfSecond!InPlay,
     OfSecond!Excuse, OfSecond!Reasons

LEMMA CrashMeans ==
         /\ SC!SeedAssumption <=> OfSecond!SeedAssumption
         /\ SC!EvidenceBacked <=> OfSecond!EvidenceBacked
         /\ SC!SeedsOnce <=> OfSecond!SeedsOnce
         /\ SC!NoneOverwritten <=> OfSecond!NoneOverwritten
  BY DEF
     SC!SeedAssumption, SC!EvidenceBacked, SC!SeedsOnce, SC!NoneOverwritten, SC!IsSeeded,
     SC!None, SC!Reasons, SC!Counts, SC!InPlay, SC!Cardinality, SC!IsFiniteSet,
     OfSecond!SeedAssumption, OfSecond!EvidenceBacked, OfSecond!SeedsOnce,
     OfSecond!NoneOverwritten, OfSecond!IsSeeded, OfSecond!None, OfSecond!Reasons,
     OfSecond!Counts, OfSecond!InPlay, OfSecond!Cardinality, OfSecond!IsFiniteSet

LEMMA CrashSteps ==
  ASSUME part = "seed_crash", [ServerNext]_serverVars
  PROVE  part' = "seed_crash" /\ [OfSecond!Next]_OfSecond!vars
<1>1. CASE UNCHANGED serverVars
  BY <1>1 DEF serverVars, seedVars, OfSecond!vars, OfSecond!chainVars, OfSecond!counters, OfSecond!history
<1>2. CASE ServerNext
  <2>1. part' = "seed_crash" /\ SC!Next
    BY <1>2 DEF ServerNext, StartupNext, SeedNext, RegNext, WalletNext, OkxNext, UploadNext
  <2> QED BY <2>1, CrashMoves
<1> QED BY <1>1, <1>2

LEMMA CrashKeeps ==
  ServerSpec => [](part = "seed_crash" =>
     SC!EvidenceBacked /\ SC!SeedsOnce /\ SC!NoneOverwritten)
<1> DEFINE here == part = "seed_crash"
           good == OfSecond!EvidenceBacked /\ OfSecond!SeedsOnce /\ OfSecond!NoneOverwritten
           shown == SC!EvidenceBacked /\ SC!SeedsOnce /\ SC!NoneOverwritten
<1>1. OfSecond!SeedAssumption /\ SeedCrash.writers = {} /\ (\A c, d \in SeedCrash.calls : c = d)
  BY CrashMeans, ServerAssumption DEF ServerAssumption
<1>2. OfSecond!Init /\ [][OfSecond!Next]_OfSecond!vars => []OfSecond!EvidenceBacked
  BY <1>1, OfSecond!EvidenceStaysBacked, PTL DEF OfSecond!Spec
<1>3. OfSecond!Init /\ [][OfSecond!Next]_OfSecond!vars =>
        [](OfSecond!SeedsOnce /\ OfSecond!NoneOverwritten)
  BY <1>1, OfSecond!OneRequestSeedsOnce, PTL DEF OfSecond!Spec
<1>4. ServerInit /\ here => OfSecond!Init
  BY CrashMoves DEF ServerInit
<1>5. here /\ [ServerNext]_serverVars => here' /\ [OfSecond!Next]_OfSecond!vars
  BY CrashSteps
<1>6. ~here /\ [ServerNext]_serverVars => ~here'
  BY PartStays
<1>7. good => shown
  BY CrashMeans
<1> HIDE DEF here, shown
<1>8. ServerSpec => [](here => shown)
  BY <1>2, <1>3, <1>4, <1>5, <1>6, <1>7, PTL DEF ServerSpec
<1> QED BY <1>8 DEF here, shown

LEMMA ProfileMoves ==
         /\ SP!Init <=> OfThird!Init
         /\ SP!Next <=> OfThird!Next
  BY DEF
     SP!Init, SP!Next, SP!NoEvidence, SP!NoPending, SP!NoLocals, SP!Request, SP!Fault,
     SP!broadcastAnswerLost, SP!Settle, SP!restake, SP!Crash, SP!readProfile, SP!saveProfile,
     SP!None, SP!ensureRegistrationStakeSeed, SP!prepareSeedTarget, SP!recoverPendingSeed,
     SP!recoverWithoutReceipt, SP!recoverOverdueSeed, SP!rearmPendingSeed, SP!checkStakeBefore,
     SP!ensureAllowance, SP!beginSeedBroadcast, SP!awaitReceipt, SP!persistSeed,
     SP!persistPending, SP!persistFailure, SP!markStakeSeedPending, SP!At, SP!ChainSteps,
     SP!GoTo, SP!AfterFault, SP!chainVars, SP!counters, SP!history, SP!MayBroadcast, SP!Go,
     SP!IsSeeded, SP!WithSeed, SP!HasPending, SP!WithPending, SP!PendingSeed, SP!Ready,
     SP!Receipt, SP!StakeReached, SP!RecoveredEvidence, SP!WithEvidence,
     SP!CanUseAwaitingLease, SP!FreshStamp, SP!Recovered, SP!TxWith, SP!ClearsPending,
     SP!StampsInUse, SP!WritesPending, SP!Displaced, SP!Counts, SP!InPlay, SP!Excuse,
     SP!Reasons, OfThird!Init, OfThird!Next, OfThird!NoEvidence, OfThird!NoPending,
     OfThird!NoLocals, OfThird!Request, OfThird!Fault, OfThird!broadcastAnswerLost,
     OfThird!Settle, OfThird!restake, OfThird!Crash, OfThird!readProfile, OfThird!saveProfile,
     OfThird!None, OfThird!ensureRegistrationStakeSeed, OfThird!prepareSeedTarget,
     OfThird!recoverPendingSeed, OfThird!recoverWithoutReceipt, OfThird!recoverOverdueSeed,
     OfThird!rearmPendingSeed, OfThird!checkStakeBefore, OfThird!ensureAllowance,
     OfThird!beginSeedBroadcast, OfThird!awaitReceipt, OfThird!persistSeed,
     OfThird!persistPending, OfThird!persistFailure, OfThird!markStakeSeedPending, OfThird!At,
     OfThird!ChainSteps, OfThird!GoTo, OfThird!AfterFault, OfThird!chainVars, OfThird!counters,
     OfThird!history, OfThird!MayBroadcast, OfThird!Go, OfThird!IsSeeded, OfThird!WithSeed,
     OfThird!HasPending, OfThird!WithPending, OfThird!PendingSeed, OfThird!Ready,
     OfThird!Receipt, OfThird!StakeReached, OfThird!RecoveredEvidence, OfThird!WithEvidence,
     OfThird!CanUseAwaitingLease, OfThird!FreshStamp, OfThird!Recovered, OfThird!TxWith,
     OfThird!ClearsPending, OfThird!StampsInUse, OfThird!WritesPending, OfThird!Displaced,
     OfThird!Counts, OfThird!InPlay, OfThird!Excuse, OfThird!Reasons

LEMMA ProfileMeans ==
         /\ SP!SeedAssumption <=> OfThird!SeedAssumption
         /\ SP!EvidenceBacked <=> OfThird!EvidenceBacked
  BY DEF
     SP!SeedAssumption, SP!EvidenceBacked, SP!IsSeeded, SP!None, SP!Cardinality,
     SP!IsFiniteSet, OfThird!SeedAssumption, OfThird!EvidenceBacked, OfThird!IsSeeded,
     OfThird!None, OfThird!Cardinality, OfThird!IsFiniteSet

LEMMA ProfileSteps ==
  ASSUME part = "seed_profile", [ServerNext]_serverVars
  PROVE  part' = "seed_profile" /\ [OfThird!Next]_OfThird!vars
<1>1. CASE UNCHANGED serverVars
  BY <1>1 DEF serverVars, seedVars, OfThird!vars, OfThird!chainVars, OfThird!counters, OfThird!history
<1>2. CASE ServerNext
  <2>1. part' = "seed_profile" /\ SP!Next
    BY <1>2 DEF ServerNext, StartupNext, SeedNext, RegNext, WalletNext, OkxNext, UploadNext
  <2> QED BY <2>1, ProfileMoves
<1> QED BY <1>1, <1>2

LEMMA ProfileKeeps == ServerSpec => [](part = "seed_profile" => SP!EvidenceBacked)
<1> DEFINE here == part = "seed_profile"
           good == OfThird!EvidenceBacked
           shown == SP!EvidenceBacked
<1>1. OfThird!SeedAssumption
  BY ProfileMeans, ServerAssumption DEF ServerAssumption
<1>2. OfThird!Init /\ [][OfThird!Next]_OfThird!vars => []OfThird!EvidenceBacked
  BY <1>1, OfThird!EvidenceStaysBacked, PTL DEF OfThird!Spec
<1>3. ServerInit /\ here => OfThird!Init
  BY ProfileMoves DEF ServerInit
<1>4. here /\ [ServerNext]_serverVars => here' /\ [OfThird!Next]_OfThird!vars
  BY ProfileSteps
<1>5. ~here /\ [ServerNext]_serverVars => ~here'
  BY PartStays
<1>6. good => shown
  BY ProfileMeans
<1> HIDE DEF here, shown
<1>7. ServerSpec => [](here => shown)
  BY <1>2, <1>3, <1>4, <1>5, <1>6, PTL DEF ServerSpec
<1> QED BY <1>7 DEF here, shown

LEMMA PostgresMoves ==
         /\ RP!Init <=> OfFirst!Reg!Init
         /\ RP!Next <=> OfFirst!Reg!Next
  BY DEF
     RP!Init, RP!Next, RP!AllWallets, RP!None, RP!Idle, RP!createPreRegistrationChallenge,
     RP!createLoginChallenge, RP!seedJudgeListedAgent, RP!startRegister, RP!login,
     RP!startJoin, RP!createRegistration, RP!bootstrapRegistered, RP!signatureInvalid,
     RP!Handler, RP!expire, RP!restart, RP!getRegistrationByWallet, RP!Issue,
     RP!isJudgeListed, RP!saveRegistration, RP!Registration, RP!saveJudgeListEntry,
     RP!saveAgent, RP!auth, RP!register, RP!lockChallenge, RP!assertChallengeUsable,
     RP!Goto, RP!verify, RP!tables, RP!history, RP!joinJudgeList, RP!bootstrap, RP!Finish,
     RP!finishRegister, RP!registerConflict, RP!finishLogin, RP!finishJoin,
     RP!signedRegistration, RP!Challenge, RP!getJudgeListEntryByWallet, RP!HeldByOther,
     RP!registrationSaved, RP!UniqueWallet, RP!issue, RP!consumeChallenge, RP!admit,
     RP!alreadyAdmitted, OfFirst!Reg!Init, OfFirst!Reg!Next, OfFirst!Reg!AllWallets,
     OfFirst!Reg!None, OfFirst!Reg!Idle, OfFirst!Reg!createPreRegistrationChallenge,
     OfFirst!Reg!createLoginChallenge, OfFirst!Reg!seedJudgeListedAgent,
     OfFirst!Reg!startRegister, OfFirst!Reg!login, OfFirst!Reg!startJoin,
     OfFirst!Reg!createRegistration, OfFirst!Reg!bootstrapRegistered,
     OfFirst!Reg!signatureInvalid, OfFirst!Reg!Handler, OfFirst!Reg!expire,
     OfFirst!Reg!restart, OfFirst!Reg!getRegistrationByWallet, OfFirst!Reg!Issue,
     OfFirst!Reg!isJudgeListed, OfFirst!Reg!saveRegistration, OfFirst!Reg!Registration,
     OfFirst!Reg!saveJudgeListEntry, OfFirst!Reg!saveAgent, OfFirst!Reg!auth,
     OfFirst!Reg!register, OfFirst!Reg!lockChallenge, OfFirst!Reg!assertChallengeUsable,
     OfFirst!Reg!Goto, OfFirst!Reg!verify, OfFirst!Reg!tables, OfFirst!Reg!history,
     OfFirst!Reg!joinJudgeList, OfFirst!Reg!bootstrap, OfFirst!Reg!Finish,
     OfFirst!Reg!finishRegister, OfFirst!Reg!registerConflict, OfFirst!Reg!finishLogin,
     OfFirst!Reg!finishJoin, OfFirst!Reg!signedRegistration, OfFirst!Reg!Challenge,
     OfFirst!Reg!getJudgeListEntryByWallet, OfFirst!Reg!HeldByOther,
     OfFirst!Reg!registrationSaved, OfFirst!Reg!UniqueWallet, OfFirst!Reg!issue,
     OfFirst!Reg!consumeChallenge, OfFirst!Reg!admit, OfFirst!Reg!alreadyAdmitted

LEMMA PostgresMeans ==
         /\ RP!RegistrationAssumption <=> OfFirst!Reg!RegistrationAssumption
         /\ RP!RegistrationSound <=> OfFirst!Reg!RegistrationSound
  BY DEF
     RP!RegistrationAssumption, RP!RegistrationSound, RP!TypeOK, RP!OneUsePerChallenge,
     RP!OneRegistrationPerWallet, RP!ListsAgree, RP!SessionsAreEarned, RP!OneAtATime,
     RP!JoinedIsListed, RP!Locals, RP!verify, RP!AllWallets, RP!None, RP!isJudgeListed,
     RP!listJudgeListAgents, RP!register, RP!bootstrap, RP!login,
     RP!getJudgeListEntryByWallet, RP!judgeListed, RP!lockChallenge,
     RP!assertChallengeUsable, RP!getRegistrationByWallet, RP!Goto, RP!Idle, RP!tables,
     RP!auth, RP!history, RP!joinJudgeList, RP!saveAgent, RP!saveJudgeListEntry, RP!Finish,
     RP!HeldByOther, RP!Cardinality, OfFirst!Reg!RegistrationAssumption,
     OfFirst!Reg!RegistrationSound, OfFirst!Reg!TypeOK, OfFirst!Reg!OneUsePerChallenge,
     OfFirst!Reg!OneRegistrationPerWallet, OfFirst!Reg!ListsAgree,
     OfFirst!Reg!SessionsAreEarned, OfFirst!Reg!OneAtATime, OfFirst!Reg!JoinedIsListed,
     OfFirst!Reg!Locals, OfFirst!Reg!verify, OfFirst!Reg!AllWallets, OfFirst!Reg!None,
     OfFirst!Reg!isJudgeListed, OfFirst!Reg!listJudgeListAgents, OfFirst!Reg!register,
     OfFirst!Reg!bootstrap, OfFirst!Reg!login, OfFirst!Reg!getJudgeListEntryByWallet,
     OfFirst!Reg!judgeListed, OfFirst!Reg!lockChallenge, OfFirst!Reg!assertChallengeUsable,
     OfFirst!Reg!getRegistrationByWallet, OfFirst!Reg!Goto, OfFirst!Reg!Idle,
     OfFirst!Reg!tables, OfFirst!Reg!auth, OfFirst!Reg!history, OfFirst!Reg!joinJudgeList,
     OfFirst!Reg!saveAgent, OfFirst!Reg!saveJudgeListEntry, OfFirst!Reg!Finish,
     OfFirst!Reg!HeldByOther, OfFirst!Reg!Cardinality

LEMMA PostgresSteps ==
  ASSUME part = "registration", [ServerNext]_serverVars
  PROVE  part' = "registration" /\ [OfFirst!Reg!Next]_OfFirst!Reg!vars
<1>1. CASE UNCHANGED serverVars
  BY <1>1 DEF
     serverVars, regVars, OfFirst!Reg!vars, OfFirst!Reg!tables, OfFirst!Reg!auth,
     OfFirst!Reg!history
<1>2. CASE ServerNext
  <2>1. part' = "registration" /\ RP!Next
    BY <1>2 DEF ServerNext, StartupNext, SeedNext, RegNext, WalletNext, OkxNext, UploadNext
  <2> QED BY <2>1, PostgresMoves
<1> QED BY <1>1, <1>2

LEMMA PostgresKeeps == ServerSpec => [](part = "registration" => RP!RegistrationSound)
<1> DEFINE here == part = "registration"
           good == OfFirst!Reg!RegistrationSound
           shown == RP!RegistrationSound
<1>1. OfFirst!Reg!RegistrationAssumption
  BY PostgresMeans, ServerAssumption DEF ServerAssumption
<1>2. OfFirst!Reg!Init /\ [][OfFirst!Reg!Next]_OfFirst!Reg!vars => []OfFirst!Reg!RegistrationSound
  BY <1>1, OfFirst!RegistrationIsSound, PTL DEF OfFirst!Reg!Spec
<1>3. ServerInit /\ here => OfFirst!Reg!Init
  BY PostgresMoves DEF ServerInit
<1>4. here /\ [ServerNext]_serverVars => here' /\ [OfFirst!Reg!Next]_OfFirst!Reg!vars
  BY PostgresSteps
<1>5. ~here /\ [ServerNext]_serverVars => ~here'
  BY PartStays
<1>6. good => shown
  BY PostgresMeans
<1> HIDE DEF here, shown
<1>7. ServerSpec => [](here => shown)
  BY <1>2, <1>3, <1>4, <1>5, <1>6, PTL DEF ServerSpec
<1> QED BY <1>7 DEF here, shown

LEMMA MemoryMoves ==
         /\ RM!Init <=> OfSecond!Reg!Init
         /\ RM!Next <=> OfSecond!Reg!Next
  BY DEF
     RM!Init, RM!Next, RM!AllWallets, RM!None, RM!Idle, RM!createPreRegistrationChallenge,
     RM!createLoginChallenge, RM!seedJudgeListedAgent, RM!startRegister, RM!login,
     RM!startJoin, RM!createRegistration, RM!bootstrapRegistered, RM!signatureInvalid,
     RM!Handler, RM!expire, RM!restart, RM!getRegistrationByWallet, RM!Issue,
     RM!isJudgeListed, RM!saveRegistration, RM!Registration, RM!saveJudgeListEntry,
     RM!saveAgent, RM!auth, RM!register, RM!lockChallenge, RM!assertChallengeUsable,
     RM!Goto, RM!verify, RM!tables, RM!history, RM!joinJudgeList, RM!bootstrap, RM!Finish,
     RM!finishRegister, RM!registerConflict, RM!finishLogin, RM!finishJoin,
     RM!signedRegistration, RM!Challenge, RM!getJudgeListEntryByWallet, RM!HeldByOther,
     RM!registrationSaved, RM!UniqueWallet, RM!issue, RM!consumeChallenge, RM!admit,
     RM!alreadyAdmitted, OfSecond!Reg!Init, OfSecond!Reg!Next, OfSecond!Reg!AllWallets,
     OfSecond!Reg!None, OfSecond!Reg!Idle, OfSecond!Reg!createPreRegistrationChallenge,
     OfSecond!Reg!createLoginChallenge, OfSecond!Reg!seedJudgeListedAgent,
     OfSecond!Reg!startRegister, OfSecond!Reg!login, OfSecond!Reg!startJoin,
     OfSecond!Reg!createRegistration, OfSecond!Reg!bootstrapRegistered,
     OfSecond!Reg!signatureInvalid, OfSecond!Reg!Handler, OfSecond!Reg!expire,
     OfSecond!Reg!restart, OfSecond!Reg!getRegistrationByWallet, OfSecond!Reg!Issue,
     OfSecond!Reg!isJudgeListed, OfSecond!Reg!saveRegistration, OfSecond!Reg!Registration,
     OfSecond!Reg!saveJudgeListEntry, OfSecond!Reg!saveAgent, OfSecond!Reg!auth,
     OfSecond!Reg!register, OfSecond!Reg!lockChallenge, OfSecond!Reg!assertChallengeUsable,
     OfSecond!Reg!Goto, OfSecond!Reg!verify, OfSecond!Reg!tables, OfSecond!Reg!history,
     OfSecond!Reg!joinJudgeList, OfSecond!Reg!bootstrap, OfSecond!Reg!Finish,
     OfSecond!Reg!finishRegister, OfSecond!Reg!registerConflict, OfSecond!Reg!finishLogin,
     OfSecond!Reg!finishJoin, OfSecond!Reg!signedRegistration, OfSecond!Reg!Challenge,
     OfSecond!Reg!getJudgeListEntryByWallet, OfSecond!Reg!HeldByOther,
     OfSecond!Reg!registrationSaved, OfSecond!Reg!UniqueWallet, OfSecond!Reg!issue,
     OfSecond!Reg!consumeChallenge, OfSecond!Reg!admit, OfSecond!Reg!alreadyAdmitted

LEMMA MemoryMeans ==
         /\ RM!RegistrationAssumption <=> OfSecond!Reg!RegistrationAssumption
         /\ RM!RegistrationSound <=> OfSecond!Reg!RegistrationSound
  BY DEF
     RM!RegistrationAssumption, RM!RegistrationSound, RM!TypeOK, RM!OneUsePerChallenge,
     RM!OneRegistrationPerWallet, RM!ListsAgree, RM!SessionsAreEarned, RM!OneAtATime,
     RM!JoinedIsListed, RM!Locals, RM!verify, RM!AllWallets, RM!None, RM!isJudgeListed,
     RM!listJudgeListAgents, RM!register, RM!bootstrap, RM!login,
     RM!getJudgeListEntryByWallet, RM!judgeListed, RM!lockChallenge,
     RM!assertChallengeUsable, RM!getRegistrationByWallet, RM!Goto, RM!Idle, RM!tables,
     RM!auth, RM!history, RM!joinJudgeList, RM!saveAgent, RM!saveJudgeListEntry, RM!Finish,
     RM!HeldByOther, RM!Cardinality, OfSecond!Reg!RegistrationAssumption,
     OfSecond!Reg!RegistrationSound, OfSecond!Reg!TypeOK, OfSecond!Reg!OneUsePerChallenge,
     OfSecond!Reg!OneRegistrationPerWallet, OfSecond!Reg!ListsAgree,
     OfSecond!Reg!SessionsAreEarned, OfSecond!Reg!OneAtATime, OfSecond!Reg!JoinedIsListed,
     OfSecond!Reg!Locals, OfSecond!Reg!verify, OfSecond!Reg!AllWallets, OfSecond!Reg!None,
     OfSecond!Reg!isJudgeListed, OfSecond!Reg!listJudgeListAgents, OfSecond!Reg!register,
     OfSecond!Reg!bootstrap, OfSecond!Reg!login, OfSecond!Reg!getJudgeListEntryByWallet,
     OfSecond!Reg!judgeListed, OfSecond!Reg!lockChallenge,
     OfSecond!Reg!assertChallengeUsable, OfSecond!Reg!getRegistrationByWallet,
     OfSecond!Reg!Goto, OfSecond!Reg!Idle, OfSecond!Reg!tables, OfSecond!Reg!auth,
     OfSecond!Reg!history, OfSecond!Reg!joinJudgeList, OfSecond!Reg!saveAgent,
     OfSecond!Reg!saveJudgeListEntry, OfSecond!Reg!Finish, OfSecond!Reg!HeldByOther,
     OfSecond!Reg!Cardinality

LEMMA MemorySteps ==
  ASSUME part = "registration_memory", [ServerNext]_serverVars
  PROVE  part' = "registration_memory" /\ [OfSecond!Reg!Next]_OfSecond!Reg!vars
<1>1. CASE UNCHANGED serverVars
  BY <1>1 DEF
     serverVars, regVars, OfSecond!Reg!vars, OfSecond!Reg!tables, OfSecond!Reg!auth,
     OfSecond!Reg!history
<1>2. CASE ServerNext
  <2>1. part' = "registration_memory" /\ RM!Next
    BY <1>2 DEF ServerNext, StartupNext, SeedNext, RegNext, WalletNext, OkxNext, UploadNext
  <2> QED BY <2>1, MemoryMoves
<1> QED BY <1>1, <1>2

LEMMA MemoryKeeps == ServerSpec => [](part = "registration_memory" => RM!RegistrationSound)
<1> DEFINE here == part = "registration_memory"
           good == OfSecond!Reg!RegistrationSound
           shown == RM!RegistrationSound
<1>1. OfSecond!Reg!RegistrationAssumption
  BY MemoryMeans, ServerAssumption DEF ServerAssumption
<1>2. OfSecond!Reg!Init /\ [][OfSecond!Reg!Next]_OfSecond!Reg!vars =>
        []OfSecond!Reg!RegistrationSound
  BY <1>1, OfSecond!RegistrationIsSound, PTL DEF OfSecond!Reg!Spec
<1>3. ServerInit /\ here => OfSecond!Reg!Init
  BY MemoryMoves DEF ServerInit
<1>4. here /\ [ServerNext]_serverVars => here' /\ [OfSecond!Reg!Next]_OfSecond!Reg!vars
  BY MemorySteps
<1>5. ~here /\ [ServerNext]_serverVars => ~here'
  BY PartStays
<1>6. good => shown
  BY MemoryMeans
<1> HIDE DEF here, shown
<1>7. ServerSpec => [](here => shown)
  BY <1>2, <1>3, <1>4, <1>5, <1>6, PTL DEF ServerSpec
<1> QED BY <1>7 DEF here, shown

LEMMA OneMoves ==
         /\ RA!Init <=> OfThird!Reg!Init
         /\ RA!Next <=> OfThird!Reg!Next
  BY DEF
     RA!Init, RA!Next, RA!AllWallets, RA!None, RA!Idle, RA!createPreRegistrationChallenge,
     RA!createLoginChallenge, RA!seedJudgeListedAgent, RA!startRegister, RA!login,
     RA!startJoin, RA!createRegistration, RA!bootstrapRegistered, RA!signatureInvalid,
     RA!Handler, RA!expire, RA!restart, RA!getRegistrationByWallet, RA!Issue,
     RA!isJudgeListed, RA!saveRegistration, RA!Registration, RA!saveJudgeListEntry,
     RA!saveAgent, RA!auth, RA!register, RA!lockChallenge, RA!assertChallengeUsable,
     RA!Goto, RA!verify, RA!tables, RA!history, RA!joinJudgeList, RA!bootstrap, RA!Finish,
     RA!finishRegister, RA!registerConflict, RA!finishLogin, RA!finishJoin,
     RA!signedRegistration, RA!Challenge, RA!getJudgeListEntryByWallet, RA!HeldByOther,
     RA!registrationSaved, RA!UniqueWallet, RA!issue, RA!consumeChallenge, RA!admit,
     RA!alreadyAdmitted, OfThird!Reg!Init, OfThird!Reg!Next, OfThird!Reg!AllWallets,
     OfThird!Reg!None, OfThird!Reg!Idle, OfThird!Reg!createPreRegistrationChallenge,
     OfThird!Reg!createLoginChallenge, OfThird!Reg!seedJudgeListedAgent,
     OfThird!Reg!startRegister, OfThird!Reg!login, OfThird!Reg!startJoin,
     OfThird!Reg!createRegistration, OfThird!Reg!bootstrapRegistered,
     OfThird!Reg!signatureInvalid, OfThird!Reg!Handler, OfThird!Reg!expire,
     OfThird!Reg!restart, OfThird!Reg!getRegistrationByWallet, OfThird!Reg!Issue,
     OfThird!Reg!isJudgeListed, OfThird!Reg!saveRegistration, OfThird!Reg!Registration,
     OfThird!Reg!saveJudgeListEntry, OfThird!Reg!saveAgent, OfThird!Reg!auth,
     OfThird!Reg!register, OfThird!Reg!lockChallenge, OfThird!Reg!assertChallengeUsable,
     OfThird!Reg!Goto, OfThird!Reg!verify, OfThird!Reg!tables, OfThird!Reg!history,
     OfThird!Reg!joinJudgeList, OfThird!Reg!bootstrap, OfThird!Reg!Finish,
     OfThird!Reg!finishRegister, OfThird!Reg!registerConflict, OfThird!Reg!finishLogin,
     OfThird!Reg!finishJoin, OfThird!Reg!signedRegistration, OfThird!Reg!Challenge,
     OfThird!Reg!getJudgeListEntryByWallet, OfThird!Reg!HeldByOther,
     OfThird!Reg!registrationSaved, OfThird!Reg!UniqueWallet, OfThird!Reg!issue,
     OfThird!Reg!consumeChallenge, OfThird!Reg!admit, OfThird!Reg!alreadyAdmitted

LEMMA OneMeans ==
         /\ RA!RegistrationAssumption <=> OfThird!Reg!RegistrationAssumption
         /\ RA!RegistrationSound <=> OfThird!Reg!RegistrationSound
  BY DEF
     RA!RegistrationAssumption, RA!RegistrationSound, RA!TypeOK, RA!OneUsePerChallenge,
     RA!OneRegistrationPerWallet, RA!ListsAgree, RA!SessionsAreEarned, RA!OneAtATime,
     RA!JoinedIsListed, RA!Locals, RA!verify, RA!AllWallets, RA!None, RA!isJudgeListed,
     RA!listJudgeListAgents, RA!register, RA!bootstrap, RA!login,
     RA!getJudgeListEntryByWallet, RA!judgeListed, RA!lockChallenge,
     RA!assertChallengeUsable, RA!getRegistrationByWallet, RA!Goto, RA!Idle, RA!tables,
     RA!auth, RA!history, RA!joinJudgeList, RA!saveAgent, RA!saveJudgeListEntry, RA!Finish,
     RA!HeldByOther, RA!Cardinality, OfThird!Reg!RegistrationAssumption,
     OfThird!Reg!RegistrationSound, OfThird!Reg!TypeOK, OfThird!Reg!OneUsePerChallenge,
     OfThird!Reg!OneRegistrationPerWallet, OfThird!Reg!ListsAgree,
     OfThird!Reg!SessionsAreEarned, OfThird!Reg!OneAtATime, OfThird!Reg!JoinedIsListed,
     OfThird!Reg!Locals, OfThird!Reg!verify, OfThird!Reg!AllWallets, OfThird!Reg!None,
     OfThird!Reg!isJudgeListed, OfThird!Reg!listJudgeListAgents, OfThird!Reg!register,
     OfThird!Reg!bootstrap, OfThird!Reg!login, OfThird!Reg!getJudgeListEntryByWallet,
     OfThird!Reg!judgeListed, OfThird!Reg!lockChallenge, OfThird!Reg!assertChallengeUsable,
     OfThird!Reg!getRegistrationByWallet, OfThird!Reg!Goto, OfThird!Reg!Idle,
     OfThird!Reg!tables, OfThird!Reg!auth, OfThird!Reg!history, OfThird!Reg!joinJudgeList,
     OfThird!Reg!saveAgent, OfThird!Reg!saveJudgeListEntry, OfThird!Reg!Finish,
     OfThird!Reg!HeldByOther, OfThird!Reg!Cardinality

LEMMA OneSteps ==
  ASSUME part = "registration_alone", [ServerNext]_serverVars
  PROVE  part' = "registration_alone" /\ [OfThird!Reg!Next]_OfThird!Reg!vars
<1>1. CASE UNCHANGED serverVars
  BY <1>1 DEF
     serverVars, regVars, OfThird!Reg!vars, OfThird!Reg!tables, OfThird!Reg!auth,
     OfThird!Reg!history
<1>2. CASE ServerNext
  <2>1. part' = "registration_alone" /\ RA!Next
    BY <1>2 DEF ServerNext, StartupNext, SeedNext, RegNext, WalletNext, OkxNext, UploadNext
  <2> QED BY <2>1, OneMoves
<1> QED BY <1>1, <1>2

LEMMA OneKeeps == ServerSpec => [](part = "registration_alone" => RA!RegistrationSound)
<1> DEFINE here == part = "registration_alone"
           good == OfThird!Reg!RegistrationSound
           shown == RA!RegistrationSound
<1>1. OfThird!Reg!RegistrationAssumption
  BY OneMeans, ServerAssumption DEF ServerAssumption
<1>2. OfThird!Reg!Init /\ [][OfThird!Reg!Next]_OfThird!Reg!vars => []OfThird!Reg!RegistrationSound
  BY <1>1, OfThird!RegistrationIsSound, PTL DEF OfThird!Reg!Spec
<1>3. ServerInit /\ here => OfThird!Reg!Init
  BY OneMoves DEF ServerInit
<1>4. here /\ [ServerNext]_serverVars => here' /\ [OfThird!Reg!Next]_OfThird!Reg!vars
  BY OneSteps
<1>5. ~here /\ [ServerNext]_serverVars => ~here'
  BY PartStays
<1>6. good => shown
  BY OneMeans
<1> HIDE DEF here, shown
<1>7. ServerSpec => [](here => shown)
  BY <1>2, <1>3, <1>4, <1>5, <1>6, PTL DEF ServerSpec
<1> QED BY <1>7 DEF here, shown

LEMMA StakesMoves ==
         /\ WR!Init <=> OfFirst!Wal!Init
         /\ WR!Next <=> OfFirst!Wal!Next
  BY DEF
     WR!Init, WR!Next, WR!Nobody, WR!FallbackProfile, WR!Idle, WR!beginSeed, WR!persistSeed,
     WR!stakeOnChain, WR!stakeForAgent, WR!claimRewards, WR!ensureAgent, WR!verified,
     WR!rejected, WR!readProfile, WR!recordAgentStakeTransaction, WR!bookStake,
     WR!readVault, WR!saveVault, WR!restart, WR!stakedOnChain, WR!saveAgent, WR!begin,
     WR!ensureWallet, WR!Goto, WR!verifyExecution, WR!Finish, WR!insertedByOther,
     WR!nextStake, WR!appended, WR!addIntegerString, WR!Cardinality, OfFirst!Wal!Init,
     OfFirst!Wal!Next, OfFirst!Wal!Nobody, OfFirst!Wal!FallbackProfile, OfFirst!Wal!Idle,
     OfFirst!Wal!beginSeed, OfFirst!Wal!persistSeed, OfFirst!Wal!stakeOnChain,
     OfFirst!Wal!stakeForAgent, OfFirst!Wal!claimRewards, OfFirst!Wal!ensureAgent,
     OfFirst!Wal!verified, OfFirst!Wal!rejected, OfFirst!Wal!readProfile,
     OfFirst!Wal!recordAgentStakeTransaction, OfFirst!Wal!bookStake, OfFirst!Wal!readVault,
     OfFirst!Wal!saveVault, OfFirst!Wal!restart, OfFirst!Wal!stakedOnChain,
     OfFirst!Wal!saveAgent, OfFirst!Wal!begin, OfFirst!Wal!ensureWallet, OfFirst!Wal!Goto,
     OfFirst!Wal!verifyExecution, OfFirst!Wal!Finish, OfFirst!Wal!insertedByOther,
     OfFirst!Wal!nextStake, OfFirst!Wal!appended, OfFirst!Wal!addIntegerString,
     OfFirst!Wal!Cardinality

LEMMA StakesMeans ==
         /\ WR!AgentWalletAssumption <=> OfFirst!Wal!AgentWalletAssumption
         /\ WR!TypeOK <=> OfFirst!Wal!TypeOK
         /\ WR!NeverOverstated <=> OfFirst!Wal!NeverOverstated
  BY DEF
     WR!AgentWalletAssumption, WR!TypeOK, WR!NeverOverstated, WR!Nobody, WR!stakedOnChain,
     WR!Cardinality, WR!IsFiniteSet, OfFirst!Wal!AgentWalletAssumption, OfFirst!Wal!TypeOK,
     OfFirst!Wal!NeverOverstated, OfFirst!Wal!Nobody, OfFirst!Wal!stakedOnChain,
     OfFirst!Wal!Cardinality, OfFirst!Wal!IsFiniteSet

LEMMA StakesSteps ==
  ASSUME part = "agent_wallet", [ServerNext]_serverVars
  PROVE  part' = "agent_wallet" /\ [OfFirst!Wal!Next]_OfFirst!Wal!vars
<1>1. CASE UNCHANGED serverVars
  BY <1>1 DEF serverVars, walletVars, OfFirst!Wal!vars
<1>2. CASE ServerNext
  <2>1. part' = "agent_wallet" /\ WR!Next
    BY <1>2 DEF ServerNext, StartupNext, SeedNext, RegNext, WalletNext, OkxNext, UploadNext
  <2> QED BY <2>1, StakesMoves
<1> QED BY <1>1, <1>2

LEMMA StakesKeeps == ServerSpec => [](part = "agent_wallet" => WR!TypeOK /\ WR!NeverOverstated)
<1> DEFINE here == part = "agent_wallet"
           good == OfFirst!Wal!TypeOK /\ OfFirst!Wal!NeverOverstated
           shown == WR!TypeOK /\ WR!NeverOverstated
<1>1. OfFirst!Wal!AgentWalletAssumption /\ OfFirst!Trusted
  BY StakesMeans, ServerAssumption DEF ServerAssumption, OfFirst!Trusted
<1>2. OfFirst!Wal!Init /\ [][OfFirst!Wal!Next]_OfFirst!Wal!vars =>
        [](OfFirst!Wal!TypeOK /\ OfFirst!Wal!NeverOverstated)
  BY <1>1, OfFirst!StakesAreNeverOverstated, PTL DEF OfFirst!Wal!Spec
<1>3. ServerInit /\ here => OfFirst!Wal!Init
  BY StakesMoves DEF ServerInit
<1>4. here /\ [ServerNext]_serverVars => here' /\ [OfFirst!Wal!Next]_OfFirst!Wal!vars
  BY StakesSteps
<1>5. ~here /\ [ServerNext]_serverVars => ~here'
  BY PartStays
<1>6. good => shown
  BY StakesMeans
<1> HIDE DEF here, shown
<1>7. ServerSpec => [](here => shown)
  BY <1>2, <1>3, <1>4, <1>5, <1>6, PTL DEF ServerSpec
<1> QED BY <1>7 DEF here, shown

LEMMA OneStakeMoves ==
         /\ WA!Init <=> OfSecond!Wal!Init
         /\ WA!Next <=> OfSecond!Wal!Next
  BY DEF
     WA!Init, WA!Next, WA!Nobody, WA!FallbackProfile, WA!Idle, WA!beginSeed, WA!persistSeed,
     WA!stakeOnChain, WA!stakeForAgent, WA!claimRewards, WA!ensureAgent, WA!verified,
     WA!rejected, WA!readProfile, WA!recordAgentStakeTransaction, WA!bookStake,
     WA!readVault, WA!saveVault, WA!restart, WA!stakedOnChain, WA!saveAgent, WA!begin,
     WA!ensureWallet, WA!Goto, WA!verifyExecution, WA!Finish, WA!insertedByOther,
     WA!nextStake, WA!appended, WA!addIntegerString, WA!Cardinality, OfSecond!Wal!Init,
     OfSecond!Wal!Next, OfSecond!Wal!Nobody, OfSecond!Wal!FallbackProfile,
     OfSecond!Wal!Idle, OfSecond!Wal!beginSeed, OfSecond!Wal!persistSeed,
     OfSecond!Wal!stakeOnChain, OfSecond!Wal!stakeForAgent, OfSecond!Wal!claimRewards,
     OfSecond!Wal!ensureAgent, OfSecond!Wal!verified, OfSecond!Wal!rejected,
     OfSecond!Wal!readProfile, OfSecond!Wal!recordAgentStakeTransaction,
     OfSecond!Wal!bookStake, OfSecond!Wal!readVault, OfSecond!Wal!saveVault,
     OfSecond!Wal!restart, OfSecond!Wal!stakedOnChain, OfSecond!Wal!saveAgent,
     OfSecond!Wal!begin, OfSecond!Wal!ensureWallet, OfSecond!Wal!Goto,
     OfSecond!Wal!verifyExecution, OfSecond!Wal!Finish, OfSecond!Wal!insertedByOther,
     OfSecond!Wal!nextStake, OfSecond!Wal!appended, OfSecond!Wal!addIntegerString,
     OfSecond!Wal!Cardinality

LEMMA OneStakeMeans ==
         /\ WA!AgentWalletAssumption <=> OfSecond!Wal!AgentWalletAssumption
         /\ WA!NeverOverstated <=> OfSecond!Wal!NeverOverstated
         /\ WA!StakeBooked <=> OfSecond!Wal!StakeBooked
         /\ WA!ClaimsTraced <=> OfSecond!Wal!ClaimsTraced
  BY DEF
     WA!AgentWalletAssumption, WA!NeverOverstated, WA!StakeBooked, WA!ClaimsTraced,
     WA!stakedOnChain, WA!Cardinality, WA!IsFiniteSet, OfSecond!Wal!AgentWalletAssumption,
     OfSecond!Wal!NeverOverstated, OfSecond!Wal!StakeBooked, OfSecond!Wal!ClaimsTraced,
     OfSecond!Wal!stakedOnChain, OfSecond!Wal!Cardinality, OfSecond!Wal!IsFiniteSet

LEMMA OneStakeSteps ==
  ASSUME part = "agent_wallet_alone", [ServerNext]_serverVars
  PROVE  part' = "agent_wallet_alone" /\ [OfSecond!Wal!Next]_OfSecond!Wal!vars
<1>1. CASE UNCHANGED serverVars
  BY <1>1 DEF serverVars, walletVars, OfSecond!Wal!vars
<1>2. CASE ServerNext
  <2>1. part' = "agent_wallet_alone" /\ WA!Next
    BY <1>2 DEF ServerNext, StartupNext, SeedNext, RegNext, WalletNext, OkxNext, UploadNext
  <2> QED BY <2>1, OneStakeMoves
<1> QED BY <1>1, <1>2

LEMMA OneStakeKeeps ==
  ServerSpec => [](part = "agent_wallet_alone" =>
     WA!NeverOverstated /\ WA!StakeBooked /\ WA!ClaimsTraced)
<1> DEFINE here == part = "agent_wallet_alone"
           good == OfSecond!Wal!NeverOverstated /\ OfSecond!Wal!StakeBooked /\
                   OfSecond!Wal!ClaimsTraced
           shown == WA!NeverOverstated /\ WA!StakeBooked /\ WA!ClaimsTraced
<1>1. OfSecond!Wal!AgentWalletAssumption /\ OfSecond!Trusted /\ OfSecond!Single
  BY OneStakeMeans, ServerAssumption DEF ServerAssumption, OfSecond!Trusted, OfSecond!Single
<1>2. OfSecond!Wal!Init /\ [][OfSecond!Wal!Next]_OfSecond!Wal!vars =>
        [](OfSecond!Wal!NeverOverstated /\ OfSecond!Wal!StakeBooked /\ OfSecond!Wal!ClaimsTraced)
  BY <1>1, OfSecond!StakesAreBookedOneByOne, PTL DEF OfSecond!Wal!Spec
<1>3. ServerInit /\ here => OfSecond!Wal!Init
  BY OneStakeMoves DEF ServerInit
<1>4. here /\ [ServerNext]_serverVars => here' /\ [OfSecond!Wal!Next]_OfSecond!Wal!vars
  BY OneStakeSteps
<1>5. ~here /\ [ServerNext]_serverVars => ~here'
  BY PartStays
<1>6. good => shown
  BY OneStakeMeans
<1> HIDE DEF here, shown
<1>7. ServerSpec => [](here => shown)
  BY <1>2, <1>3, <1>4, <1>5, <1>6, PTL DEF ServerSpec
<1> QED BY <1>7 DEF here, shown

LEMMA PinnedMoves ==
         /\ UP!Init <=> OfFirst!Up!Init
         /\ UP!Next <=> OfFirst!Up!Next
  BY DEF
     UP!Init, UP!Next, UP!Idle, UP!nextRound, UP!sign, UP!post, UP!progress, UP!NoMessage,
     UP!NoUpload, UP!Payload, UP!buildPayloadUploadMessage, UP!authorize,
     UP!normalizePayloadUploadInput, UP!storePayload, UP!pinToIpfs, UP!verifyPinnedPayload,
     UP!NoPayload, UP!authorizedBy, UP!refused, UP!goes, UP!normalizePayloadRound, UP!put,
     UP!fetchPinnedPayload, UP!gateways, UP!verified, UP!fails, UP!matches, UP!after,
     UP!IPFS_VERIFICATION_MAX_ATTEMPTS, UP!resolveVerificationGateways, UP!Cardinality,
     OfFirst!Up!Init, OfFirst!Up!Next, OfFirst!Up!Idle, OfFirst!Up!nextRound,
     OfFirst!Up!sign, OfFirst!Up!post, OfFirst!Up!progress, OfFirst!Up!NoMessage,
     OfFirst!Up!NoUpload, OfFirst!Up!Payload, OfFirst!Up!buildPayloadUploadMessage,
     OfFirst!Up!authorize, OfFirst!Up!normalizePayloadUploadInput, OfFirst!Up!storePayload,
     OfFirst!Up!pinToIpfs, OfFirst!Up!verifyPinnedPayload, OfFirst!Up!NoPayload,
     OfFirst!Up!authorizedBy, OfFirst!Up!refused, OfFirst!Up!goes,
     OfFirst!Up!normalizePayloadRound, OfFirst!Up!put, OfFirst!Up!fetchPinnedPayload,
     OfFirst!Up!gateways, OfFirst!Up!verified, OfFirst!Up!fails, OfFirst!Up!matches,
     OfFirst!Up!after, OfFirst!Up!IPFS_VERIFICATION_MAX_ATTEMPTS,
     OfFirst!Up!resolveVerificationGateways, OfFirst!Up!Cardinality

LEMMA PinnedMeans ==
         /\ UP!PayloadUploadAssumption <=> OfFirst!Up!PayloadUploadAssumption
         /\ UP!TypeOK <=> OfFirst!Up!TypeOK
         /\ UP!SignedAsStored <=> OfFirst!Up!SignedAsStored
         /\ UP!StoredIsPinned <=> OfFirst!Up!StoredIsPinned
         /\ UP!UploadIsFound <=> OfFirst!Up!UploadIsFound
  BY DEF
     UP!PayloadUploadAssumption, UP!TypeOK, UP!SignedAsStored, UP!StoredIsPinned,
     UP!UploadIsFound, UP!Payload, UP!IPFS_VERIFICATION_MAX_ATTEMPTS,
     UP!resolveVerificationGateways, UP!buildPayloadUploadMessage, UP!gateways,
     UP!Cardinality, OfFirst!Up!PayloadUploadAssumption, OfFirst!Up!TypeOK,
     OfFirst!Up!SignedAsStored, OfFirst!Up!StoredIsPinned, OfFirst!Up!UploadIsFound,
     OfFirst!Up!Payload, OfFirst!Up!IPFS_VERIFICATION_MAX_ATTEMPTS,
     OfFirst!Up!resolveVerificationGateways, OfFirst!Up!buildPayloadUploadMessage,
     OfFirst!Up!gateways, OfFirst!Up!Cardinality

LEMMA PinnedSteps ==
  ASSUME part = "upload", [ServerNext]_serverVars
  PROVE  part' = "upload" /\ [OfFirst!Up!Next]_OfFirst!Up!vars
<1>1. CASE UNCHANGED serverVars
  BY <1>1 DEF serverVars, uploadVars, OfFirst!Up!vars
<1>2. CASE ServerNext
  <2>1. part' = "upload" /\ UP!Next
    BY <1>2 DEF ServerNext, StartupNext, SeedNext, RegNext, WalletNext, OkxNext, UploadNext
  <2> QED BY <2>1, PinnedMoves
<1> QED BY <1>1, <1>2

LEMMA PinnedKeeps ==
  ServerSpec => [](part = "upload" =>
     UP!TypeOK /\ UP!SignedAsStored /\ UP!StoredIsPinned /\ UP!UploadIsFound)
<1> DEFINE here == part = "upload"
           good == OfFirst!Up!TypeOK /\ OfFirst!Up!SignedAsStored /\
                   OfFirst!Up!StoredIsPinned /\ OfFirst!Up!UploadIsFound
           shown == UP!TypeOK /\ UP!SignedAsStored /\ UP!StoredIsPinned /\ UP!UploadIsFound
<1>1. OfFirst!Up!PayloadUploadAssumption
  BY PinnedMeans, ServerAssumption DEF ServerAssumption
<1>2. OfFirst!Up!Init /\ [][OfFirst!Up!Next]_OfFirst!Up!vars =>
        [](OfFirst!Up!TypeOK /\ OfFirst!Up!SignedAsStored /\ OfFirst!Up!StoredIsPinned /\
           OfFirst!Up!UploadIsFound /\ OfFirst!Up!ServedIsVerified)
  BY <1>1, OfFirst!UploadsStayFound
<1>3. ServerInit /\ here => OfFirst!Up!Init
  BY PinnedMoves DEF ServerInit
<1>4. here /\ [ServerNext]_serverVars => here' /\ [OfFirst!Up!Next]_OfFirst!Up!vars
  BY PinnedSteps
<1>5. ~here /\ [ServerNext]_serverVars => ~here'
  BY PartStays
<1>6. good => shown
  BY PinnedMeans
<1> HIDE DEF here, shown
<1>7. ServerSpec => [](here => shown)
  BY <1>2, <1>3, <1>4, <1>5, <1>6, PTL DEF ServerSpec
<1> QED BY <1>7 DEF here, shown

LEMMA LocalMoves ==
         /\ UL!Init <=> OfSecond!Up!Init
         /\ UL!Next <=> OfSecond!Up!Next
  BY DEF
     UL!Init, UL!Next, UL!Idle, UL!nextRound, UL!sign, UL!post, UL!progress, UL!NoMessage,
     UL!NoUpload, UL!Payload, UL!buildPayloadUploadMessage, UL!authorize,
     UL!normalizePayloadUploadInput, UL!storePayload, UL!pinToIpfs, UL!verifyPinnedPayload,
     UL!NoPayload, UL!authorizedBy, UL!refused, UL!goes, UL!normalizePayloadRound, UL!put,
     UL!fetchPinnedPayload, UL!gateways, UL!verified, UL!fails, UL!matches, UL!after,
     UL!IPFS_VERIFICATION_MAX_ATTEMPTS, UL!resolveVerificationGateways, UL!Cardinality,
     OfSecond!Up!Init, OfSecond!Up!Next, OfSecond!Up!Idle, OfSecond!Up!nextRound,
     OfSecond!Up!sign, OfSecond!Up!post, OfSecond!Up!progress, OfSecond!Up!NoMessage,
     OfSecond!Up!NoUpload, OfSecond!Up!Payload, OfSecond!Up!buildPayloadUploadMessage,
     OfSecond!Up!authorize, OfSecond!Up!normalizePayloadUploadInput,
     OfSecond!Up!storePayload, OfSecond!Up!pinToIpfs, OfSecond!Up!verifyPinnedPayload,
     OfSecond!Up!NoPayload, OfSecond!Up!authorizedBy, OfSecond!Up!refused, OfSecond!Up!goes,
     OfSecond!Up!normalizePayloadRound, OfSecond!Up!put, OfSecond!Up!fetchPinnedPayload,
     OfSecond!Up!gateways, OfSecond!Up!verified, OfSecond!Up!fails, OfSecond!Up!matches,
     OfSecond!Up!after, OfSecond!Up!IPFS_VERIFICATION_MAX_ATTEMPTS,
     OfSecond!Up!resolveVerificationGateways, OfSecond!Up!Cardinality

LEMMA LocalMeans ==
         /\ UL!PayloadUploadAssumption <=> OfSecond!Up!PayloadUploadAssumption
         /\ UL!UploadIsFound <=> OfSecond!Up!UploadIsFound
  BY DEF
     UL!PayloadUploadAssumption, UL!UploadIsFound, OfSecond!Up!PayloadUploadAssumption,
     OfSecond!Up!UploadIsFound

LEMMA LocalSteps ==
  ASSUME part = "upload_local", [ServerNext]_serverVars
  PROVE  part' = "upload_local" /\ [OfSecond!Up!Next]_OfSecond!Up!vars
<1>1. CASE UNCHANGED serverVars
  BY <1>1 DEF serverVars, uploadVars, OfSecond!Up!vars
<1>2. CASE ServerNext
  <2>1. part' = "upload_local" /\ UL!Next
    BY <1>2 DEF ServerNext, StartupNext, SeedNext, RegNext, WalletNext, OkxNext, UploadNext
  <2> QED BY <2>1, LocalMoves
<1> QED BY <1>1, <1>2

LEMMA LocalKeeps == ServerSpec => [](part = "upload_local" => UL!UploadIsFound)
<1> DEFINE here == part = "upload_local"
           good == OfSecond!Up!UploadIsFound
           shown == UL!UploadIsFound
<1>1. OfSecond!Up!PayloadUploadAssumption
  BY LocalMeans, ServerAssumption DEF ServerAssumption
<1>2. OfSecond!Up!Init /\ [][OfSecond!Up!Next]_OfSecond!Up!vars =>
        [](OfSecond!Up!TypeOK /\ OfSecond!Up!SignedAsStored /\ OfSecond!Up!StoredIsPinned /\
           OfSecond!Up!UploadIsFound /\ OfSecond!Up!ServedIsVerified)
  BY <1>1, OfSecond!UploadsStayFound
<1>3. ServerInit /\ here => OfSecond!Up!Init
  BY LocalMoves DEF ServerInit
<1>4. here /\ [ServerNext]_serverVars => here' /\ [OfSecond!Up!Next]_OfSecond!Up!vars
  BY LocalSteps
<1>5. ~here /\ [ServerNext]_serverVars => ~here'
  BY PartStays
<1>6. good => shown
  BY LocalMeans
<1> HIDE DEF here, shown
<1>7. ServerSpec => [](here => shown)
  BY <1>2, <1>3, <1>4, <1>5, <1>6, PTL DEF ServerSpec
<1> QED BY <1>7 DEF here, shown

LEMMA ServedMoves ==
         /\ US!Init <=> OfThird!Up!Init
         /\ US!Next <=> OfThird!Up!Next
  BY DEF
     US!Init, US!Next, US!Idle, US!nextRound, US!sign, US!post, US!progress, US!NoMessage,
     US!NoUpload, US!Payload, US!buildPayloadUploadMessage, US!authorize,
     US!normalizePayloadUploadInput, US!storePayload, US!pinToIpfs, US!verifyPinnedPayload,
     US!NoPayload, US!authorizedBy, US!refused, US!goes, US!normalizePayloadRound, US!put,
     US!fetchPinnedPayload, US!gateways, US!verified, US!fails, US!matches, US!after,
     US!IPFS_VERIFICATION_MAX_ATTEMPTS, US!resolveVerificationGateways, US!Cardinality,
     OfThird!Up!Init, OfThird!Up!Next, OfThird!Up!Idle, OfThird!Up!nextRound,
     OfThird!Up!sign, OfThird!Up!post, OfThird!Up!progress, OfThird!Up!NoMessage,
     OfThird!Up!NoUpload, OfThird!Up!Payload, OfThird!Up!buildPayloadUploadMessage,
     OfThird!Up!authorize, OfThird!Up!normalizePayloadUploadInput, OfThird!Up!storePayload,
     OfThird!Up!pinToIpfs, OfThird!Up!verifyPinnedPayload, OfThird!Up!NoPayload,
     OfThird!Up!authorizedBy, OfThird!Up!refused, OfThird!Up!goes,
     OfThird!Up!normalizePayloadRound, OfThird!Up!put, OfThird!Up!fetchPinnedPayload,
     OfThird!Up!gateways, OfThird!Up!verified, OfThird!Up!fails, OfThird!Up!matches,
     OfThird!Up!after, OfThird!Up!IPFS_VERIFICATION_MAX_ATTEMPTS,
     OfThird!Up!resolveVerificationGateways, OfThird!Up!Cardinality

LEMMA ServedMeans ==
         /\ US!PayloadUploadAssumption <=> OfThird!Up!PayloadUploadAssumption
         /\ US!ServedIsVerified <=> OfThird!Up!ServedIsVerified
  BY DEF
     US!PayloadUploadAssumption, US!ServedIsVerified, US!resolveVerificationGateways,
     US!gateways, OfThird!Up!PayloadUploadAssumption, OfThird!Up!ServedIsVerified,
     OfThird!Up!resolveVerificationGateways, OfThird!Up!gateways

LEMMA ServedSteps ==
  ASSUME part = "upload_served", [ServerNext]_serverVars
  PROVE  part' = "upload_served" /\ [OfThird!Up!Next]_OfThird!Up!vars
<1>1. CASE UNCHANGED serverVars
  BY <1>1 DEF serverVars, uploadVars, OfThird!Up!vars
<1>2. CASE ServerNext
  <2>1. part' = "upload_served" /\ US!Next
    BY <1>2 DEF ServerNext, StartupNext, SeedNext, RegNext, WalletNext, OkxNext, UploadNext
  <2> QED BY <2>1, ServedMoves
<1> QED BY <1>1, <1>2

LEMMA ServedKeeps == ServerSpec => [](part = "upload_served" => US!ServedIsVerified)
<1> DEFINE here == part = "upload_served"
           good == OfThird!Up!ServedIsVerified
           shown == US!ServedIsVerified
<1>1. OfThird!Up!PayloadUploadAssumption
  BY ServedMeans, ServerAssumption DEF ServerAssumption
<1>2. OfThird!Up!Init /\ [][OfThird!Up!Next]_OfThird!Up!vars =>
        [](OfThird!Up!TypeOK /\ OfThird!Up!SignedAsStored /\ OfThird!Up!StoredIsPinned /\
           OfThird!Up!UploadIsFound /\ OfThird!Up!ServedIsVerified)
  BY <1>1, OfThird!UploadsStayFound
<1>3. ServerInit /\ here => OfThird!Up!Init
  BY ServedMoves DEF ServerInit
<1>4. here /\ [ServerNext]_serverVars => here' /\ [OfThird!Up!Next]_OfThird!Up!vars
  BY ServedSteps
<1>5. ~here /\ [ServerNext]_serverVars => ~here'
  BY PartStays
<1>6. good => shown
  BY ServedMeans
<1> HIDE DEF here, shown
<1>7. ServerSpec => [](here => shown)
  BY <1>2, <1>3, <1>4, <1>5, <1>6, PTL DEF ServerSpec
<1> QED BY <1>7 DEF here, shown

-----------------------------------------------------------------------------
(* Seeding, in every part and for any settings of the parts: evidence of a seed is of an agent who had
   the stake, requests that share a chance share one broadcast, a second transfer has one of four
   reasons however many requests race, one request at a time displaces no record of a seed, and
   evidence stays.  [agent-stake-seed-service.ts] *)
THEOREM SeedsAreSeededOnce == ServerSpec => SeedsOnce
<1>1. ServerSpec => [](part = "seed_race" =>
                          /\ SR!TypeOK /\ SR!EvidenceBacked
                          /\ SR!OneBroadcastPerChance /\ SR!SeedsOnce)
  BY RaceKeeps, PTL
<1> QED BY <1>1, CrashKeeps, ProfileKeeps, RaceIsFinal DEF SeedsOnce

(* Registrations, in either store and for any number of requests: a challenge is used once, the
   judge lists agree, every session was earned, and what was admitted one at a time stays listed.
   [agent-registration-service.ts, agent-session-service.ts] *)
THEOREM RegistrationStaysSound == ServerSpec => []RegistrationSound
<1> DEFINE inPostgres == part = "registration" => RP!RegistrationSound
           inMemory == part = "registration_memory" => RM!RegistrationSound
           alone == part = "registration_alone" => RA!RegistrationSound
<1>1. ServerSpec => []inPostgres /\ []inMemory /\ []alone
  BY PostgresKeeps, MemoryKeeps, OneKeeps
<1>2. inPostgres /\ inMemory /\ alone => RegistrationSound
  BY DEF RegistrationSound
<1> HIDE DEF inPostgres, inMemory, alone
<1> QED BY <1>1, <1>2, PTL

(* Stakes, however they overlap: no profile shows more than the agent put on the chain, and one
   request after another loses neither stakes nor claims.  [agent-wallet-service.ts] *)
THEOREM StakesAreBookedOnce == ServerSpec => []StakesBookedOnce
<1> DEFINE overlapping == part = "agent_wallet" => WR!TypeOK /\ WR!NeverOverstated
           alone == part = "agent_wallet_alone" =>
                        WA!NeverOverstated /\ WA!StakeBooked /\ WA!ClaimsTraced
<1>1. ServerSpec => []overlapping /\ []alone
  BY StakesKeeps, OneStakeKeeps
<1>2. overlapping /\ alone => StakesBookedOnce
  BY DEF StakesBookedOnce
<1> HIDE DEF overlapping, alone
<1> QED BY <1>1, <1>2, PTL

(* Uploads, for any gateways, rounds and requests: what is stored is as it was signed, under its own
   address and found as it was sent, and is not given up while a gateway serves it.
   [payload-storage-service.ts, payloads.ts] *)
THEOREM UploadsAreAlwaysFound == ServerSpec => []UploadsAreFound
<1> DEFINE pinned == part = "upload" =>
                         UP!TypeOK /\ UP!SignedAsStored /\ UP!StoredIsPinned /\ UP!UploadIsFound
           local == part = "upload_local" => UL!UploadIsFound
           served == part = "upload_served" => US!ServedIsVerified
<1>1. ServerSpec => []pinned /\ []local /\ []served
  BY PinnedKeeps, LocalKeeps, ServedKeeps
<1>2. pinned /\ local /\ served => UploadsAreFound
  BY DEF UploadsAreFound
<1> HIDE DEF pinned, local, served
<1> QED BY <1>1, <1>2, PTL
=============================================================================
