---------------------------- MODULE ServiceProofs ----------------------------
(***************************************************************************)
(* Theorems about the services of the API server, each for any number of   *)
(* requests, any settings and any bounds: seeding an agent's stake (the    *)
(* module extends StakeSeed), registering (Reg), submitting (Sub), staking *)
(* and claiming (Wal) and uploading a payload (Up).  ServerProofs takes    *)
(* them over to the parts of the server.                                   *)
(***************************************************************************)
EXTENDS StakeSeed, FiniteSetTheorems, SequenceTheorems, FunctionTheorems, WellFoundedInduction,
        TLAPS

Statuses == {"inflight", "mined", "reverted", "dropped"}

-----------------------------------------------------------------------------
(* The chain. *)

LEMMA StakeIsNat == TypeOK => onchainStake \in Nat
BY DEF TypeOK

LEMMA SeedsAreNumbered ==
    ASSUME TypeOK
    PROVE  /\ DOMAIN txs = 1 .. Len(txs) /\ Len(txs) \in Nat /\ txs \in Seq(Statuses)
           /\ DOMAIN txs \subseteq Nat /\ TxWith("mined") \subseteq Nat /\ None \notin DOMAIN txs
<1>1. DOMAIN txs = 1 .. Len(txs) /\ Len(txs) \in Nat /\ txs \in Seq(Statuses)
    BY LenProperties DEF TypeOK, Statuses
<1> QED BY <1>1 DEF TxWith, None

(* What is excused stays excused. *)
LEMMA ExcusesAreTyped ==
    ASSUME excused \in [Reasons -> SUBSET Nat], NEW reason \in Reasons, NEW seeds \in SUBSET Nat,
           Excuse(reason, seeds)
    PROVE  /\ excused' \in [Reasons -> SUBSET Nat]
           /\ excused'[reason] = excused[reason] \cup seeds
           /\ \A other \in Reasons \ {reason} : excused'[other] = excused[other]
BY DEF Excuse

-----------------------------------------------------------------------------
(* Types. *)

(* There is a stamp nobody uses. *)
LEMMA StampIsFresh == ASSUME SeedAssumption PROVE FreshStamp \in Stamps
<1> DEFINE stored == {row.pending.at}
           seen == {call[c].seen.at : c \in Calls}
           kept == {held[w].pending.at : w \in Writers}
           f == [c \in Calls |-> call[c].seen.at]
           g == [w \in Writers |-> held[w].pending.at]
<1>1. f \in Surjection(Calls, seen) /\ g \in Surjection(Writers, kept)
    BY DEF Surjection
<1>2. /\ IsFiniteSet(Calls) /\ IsFiniteSet(Writers) /\ IsFiniteSet(Stamps)
      /\ Cardinality(Stamps) > 1 + Cardinality(Calls) + Cardinality(Writers)
    BY DEF SeedAssumption
<1>3. StampsInUse = (stored \cup seen) \cup kept
    BY DEF StampsInUse
<1> HIDE DEF f, g, stored, seen, kept
<1>4. IsFiniteSet(seen) /\ Cardinality(seen) <= Cardinality(Calls)
    BY <1>1, <1>2, FS_Surjection
<1>5. IsFiniteSet(kept) /\ Cardinality(kept) <= Cardinality(Writers)
    BY <1>1, <1>2, FS_Surjection
<1>6. IsFiniteSet(stored) /\ Cardinality(stored) = 1
    BY FS_Singleton DEF stored
<1>7. /\ IsFiniteSet(stored \cup seen)
      /\ Cardinality(stored \cup seen)
             = Cardinality(stored) + Cardinality(seen) - Cardinality(stored \cap seen)
    BY <1>4, <1>6, FS_Union
<1>8. /\ IsFiniteSet((stored \cup seen) \cup kept)
      /\ Cardinality((stored \cup seen) \cup kept)
             = Cardinality(stored \cup seen) + Cardinality(kept)
               - Cardinality((stored \cup seen) \cap kept)
    BY <1>5, <1>7, FS_Union
<1>9. IsFiniteSet(stored \cap seen) /\ IsFiniteSet((stored \cup seen) \cap kept)
    BY <1>4, <1>5, FS_Intersection
<1>10. /\ Cardinality(Calls) \in Nat /\ Cardinality(Writers) \in Nat
       /\ Cardinality(seen) \in Nat /\ Cardinality(kept) \in Nat
       /\ Cardinality(stored \cap seen) \in Nat
       /\ Cardinality((stored \cup seen) \cap kept) \in Nat
       /\ Cardinality(Stamps) \in Nat /\ Cardinality(StampsInUse) \in Nat
    BY <1>2, <1>3, <1>4, <1>5, <1>8, <1>9, FS_CardinalityType
<1>11. Cardinality(StampsInUse) <= 1 + Cardinality(Calls) + Cardinality(Writers)
    BY <1>3, <1>4, <1>5, <1>6, <1>7, <1>8, <1>10
<1>12. \E s \in Stamps : s \notin StampsInUse
    <2> SUFFICES ASSUME Stamps \subseteq StampsInUse PROVE FALSE
        OBVIOUS
    <2>1. IsFiniteSet(StampsInUse)
        BY <1>3, <1>8
    <2>2. Cardinality(Stamps) <= Cardinality(StampsInUse)
        BY <2>1, FS_Subset
    <2> QED BY <1>2, <1>10, <1>11, <2>2
<1> QED BY <1>12 DEF FreshStamp

LEMMA PendingIsPending ==
    ASSUME SeedAssumption, NEW stage \in Stages, NEW amount \in {0, Amount},
           NEW tx \in Hashes \ {Recovered}
    PROVE  PendingSeed(stage, amount, tx) \in Pending
BY StampIsFresh DEF PendingSeed, Pending

LEMMA NothingIsTyped ==
    ASSUME SeedAssumption
    PROVE  /\ NoEvidence \in Evidence /\ NoPending \in Pending /\ NoLocals \in Locals
           /\ None \in Hashes \ {Recovered} /\ Amount \in Nat /\ 0 \in Nat
<1>1. None \in Hashes \ {Recovered} /\ Amount \in Nat /\ 0 \in Nat
    BY DEF SeedAssumption, Hashes, None, Recovered
<1> QED BY <1>1 DEF NoEvidence, Evidence, NoPending, Pending, NoLocals, Locals, Steps

LEMMA TypesAtFirst == SeedAssumption /\ Init => TypeOK
<1> SUFFICES ASSUME SeedAssumption, Init PROVE TypeOK
    OBVIOUS
<1>1. <<>> \in Seq(Statuses)
    BY EmptySeq
<1>2. /\ 0 \in 0 .. MaxFaults /\ 0 \in 0 .. MaxCrashes /\ 0 \in 0 .. MaxRearms
      /\ 0 \in 0 .. MaxRestakes
    BY DEF SeedAssumption
<1>3. onchainStake \in Nat /\ reached \in BOOLEAN /\ excused \in [Reasons -> SUBSET Nat]
    BY DEF Init, SeedAssumption
<1>4. row \in Row /\ call \in [Calls -> Locals] /\ held \in [Writers -> Row]
    BY NothingIsTyped DEF Init, Row
<1>5. lease \in BOOLEAN /\ allowance \in BOOLEAN /\ txs \in Seq(Statuses)
    BY <1>1 DEF Init
<1> QED BY <1>2, <1>3, <1>4, <1>5 DEF Init, TypeOK, Statuses

(* A request changes its own locals only, and the row only in place of the *)
(* old one.                                                                *)
RowStep ==
    /\ row' \in Row
    /\ \E c \in Calls, locals \in Locals : call' = [call EXCEPT ![c] = locals]

LEMMA ReasonsAreFour ==
    "lost" \in Reasons /\ "overdue" \in Reasons /\ "overwritten" \in Reasons /\ "spent" \in Reasons
BY DEF Reasons

(* Every step of a request, but for its counters, keeps the types. *)
LEMMA RequestKeepsTypes ==
    ASSUME SeedAssumption, TypeOK, NEW c \in Calls, Request(c)
    PROVE  /\ RowStep /\ lease' \in BOOLEAN /\ allowance' \in BOOLEAN
           /\ txs' = txs \/ txs' = Append(txs, "inflight")
           /\ UNCHANGED <<onchainStake, held, crashes, restakes, reached>>
<1> USE DEF RowStep, chainVars, counters, history, Go, GoTo, Steps, WritesPending
<1>0. /\ call[c] \in Locals /\ row \in Row /\ call \in [Calls -> Locals]
      /\ lease \in BOOLEAN /\ allowance \in BOOLEAN
    BY DEF TypeOK
<1>a. ASSUME NEW pc \in Steps PROVE [call[c] EXCEPT !.pc = pc] \in Locals
    BY <1>0 DEF Locals
<1>b. ASSUME NEW pc \in Steps, NEW pending \in Pending
      PROVE  WithPending(c, pc, pending) \in Locals
    BY <1>0 DEF Locals, WithPending
<1>c. WithSeed(c, row) \in Locals
    BY <1>0 DEF Locals, Row, WithSeed
<1>d. ASSUME NEW pending \in Pending PROVE Ready(c, pending) \in Locals
    BY <1>0 DEF Locals, Ready
<1>e. row.pending \in Pending /\ [row EXCEPT !.pending = NoPending] \in Row
    BY <1>0, NothingIsTyped DEF Row
<1>f. ASSUME NEW pending \in Pending PROVE [row EXCEPT !.pending = pending] \in Row
    BY <1>0 DEF Row
<1>g. /\ call[c].seen \in Pending /\ call[c].ev \in Evidence
      /\ call[c].tx \in Hashes \ {Recovered} /\ call[c].stake \in Nat /\ onchainStake \in Nat
    BY <1>0, StakeIsNat DEF Locals
<1>1. CASE ensureRegistrationStakeSeed(c)
    BY <1>0, <1>1, NothingIsTyped DEF ensureRegistrationStakeSeed, Locals
<1>2. CASE prepareSeedTarget(c)
    <2>1. ASSUME NEW stage \in {"failed", "awaiting_tx_hash"}
          PROVE  PendingSeed(stage, Amount, None) \in Pending
        BY NothingIsTyped, PendingIsPending DEF Stages
    <2> QED BY <1>0, <1>2, <1>b, <1>c, <1>d, <1>e, <1>f, <2>1 DEF prepareSeedTarget
<1>3. CASE recoverPendingSeed(c)
    <2>1. call[c].seen.amount \in {0, Amount} /\ call[c].seen.tx \in Hashes
        BY <1>g, NothingIsTyped DEF Pending, NoPending
    <2>2. RecoveredEvidence(c) \in Locals
        BY <1>0, <1>g, <2>1 DEF RecoveredEvidence, Locals, Evidence, Hashes
    <2> QED BY <1>0, <1>3, <1>a, <2>2 DEF recoverPendingSeed
<1>4. CASE recoverOverdueSeed(c)
    BY <1>0, <1>4, <1>a DEF recoverOverdueSeed
<1>14. CASE recoverWithoutReceipt(c)
    <2>1. call[c].seen.amount \in {0, Amount} /\ call[c].seen.tx \in Hashes
        BY <1>g, NothingIsTyped DEF Pending, NoPending
    <2>2. RecoveredEvidence(c) \in Locals
        BY <1>0, <1>g, <2>1 DEF RecoveredEvidence, Locals, Evidence, Hashes
    <2> QED BY <1>0, <1>14, <1>a, <2>2 DEF recoverWithoutReceipt
<1>5. CASE rearmPendingSeed(c)
    BY <1>0, <1>5, <1>b, <1>c, <1>d, <1>e, NothingIsTyped DEF rearmPendingSeed
<1>6. CASE checkStakeBefore(c)
    BY <1>0, <1>6, <1>g DEF checkStakeBefore, Locals
<1>7. CASE ensureAllowance(c)
    BY <1>0, <1>7, <1>a DEF ensureAllowance
<1>8. CASE beginSeedBroadcast(c)
    <2>1. CASE MayBroadcast(c) /\ Len(txs) < MaxTxs
        <3> DEFINE pending == PendingSeed("broadcasted", Amount, Len(txs'))
        <3>1. /\ txs' = Append(txs, "inflight") /\ txs \in Seq(Statuses)
              /\ row' = [row EXCEPT !.pending = pending]
              /\ call' = [call EXCEPT ![c] =
                     [call[c] EXCEPT !.pc = "receipt", !.tx = Len(txs'), !.seen = pending]]
              /\ UNCHANGED <<lease, allowance, onchainStake, held, crashes, restakes, reached>>
            <4>1. txs \in Seq(Statuses) /\ Len(txs) \in Nat /\ MaxTxs \in Nat
                BY LenProperties DEF TypeOK, Statuses, SeedAssumption
            <4>2. Len(txs) # MaxTxs /\ ~IsSeeded(row)
                BY <2>1, <4>1 DEF MayBroadcast
            <4> QED BY <1>8, <2>1, <4>1, <4>2 DEF beginSeedBroadcast
        <3>2. Len(txs') \in 1 .. MaxTxs
            BY <2>1, <3>1, AppendProperties, LenProperties DEF SeedAssumption, Statuses
        <3>3. Len(txs') \in Hashes \ {Recovered}
            BY <3>2 DEF Hashes, Recovered
        <3>4. pending \in Pending
            BY <3>3, PendingIsPending DEF Stages
        <3> HIDE DEF pending
        <3>5. [call[c] EXCEPT !.pc = "receipt", !.tx = Len(txs'), !.seen = pending] \in Locals
            BY <1>0, <3>3, <3>4 DEF Locals
        <3> QED BY <1>0, <1>f, <3>1, <3>4, <3>5
    <2>2. CASE ~(MayBroadcast(c) /\ Len(txs) < MaxTxs)
        BY <1>0, <1>8, <1>a, <1>b, <1>c, <1>e, <2>2 DEF beginSeedBroadcast
    <2> QED BY <2>1, <2>2
<1>9. CASE awaitReceipt(c)
    <2> DEFINE evidence == [amount |-> Amount, tx |-> call[c].tx]
    <2>1. evidence \in Evidence
        BY <1>g DEF Evidence
    <2> HIDE DEF evidence
    <2>2. [call[c] EXCEPT !.pc = "recordSeed", !.stake = onchainStake, !.ev = evidence] \in Locals
        BY <1>0, <1>g, <2>1 DEF Locals
    <2>3. \/ Go(c, [call[c] EXCEPT !.pc = "recordSeed", !.stake = onchainStake, !.ev = evidence])
          \/ GoTo(c, "recordFailure")
        BY <1>9, Zenon DEF awaitReceipt, evidence
    <2> QED BY <1>0, <1>9, <1>a, <2>2, <2>3 DEF awaitReceipt
<1>10. CASE persistSeed(c)
    <2>1. WithEvidence(c) \in Row
        BY <1>0, <1>g, NothingIsTyped DEF WithEvidence, Row
    <2> QED BY <1>0, <1>10, <1>a, <2>1 DEF persistSeed
<1>11. CASE persistPending(c)
    BY <1>0, <1>11, <1>a, <1>f, <1>g DEF persistPending
<1>12. CASE persistFailure(c)
    <2>1. PendingSeed("failed", Amount, call[c].tx) \in Pending
        BY <1>g, PendingIsPending DEF Stages
    <2> QED BY <1>0, <1>12, <1>a, <1>f, <2>1 DEF persistFailure
<1>13. CASE markStakeSeedPending(c)
    <2>1. PendingSeed("failed", 0, None) \in Pending
        BY NothingIsTyped, PendingIsPending DEF Stages
    <2>2. HasPending(row) => [row.pending EXCEPT !.stage = "failed"] \in Pending
        BY <1>e DEF HasPending, Pending, Stages
    <2>3. row' = row \/ \E pending \in Pending : row' = [row EXCEPT !.pending = pending]
        BY <1>13, <1>e, <2>1, <2>2 DEF markStakeSeedPending
    <2> QED BY <1>0, <1>13, <1>a, <1>f, <2>3 DEF markStakeSeedPending
<1> QED BY <1>1, <1>2, <1>3, <1>4, <1>5, <1>6, <1>7, <1>8, <1>9, <1>10, <1>11, <1>12, <1>13, <1>14
        DEF Request

(* What the steps of a request count, and that they only ever send.        *)
LEMMA RequestCounts ==
    ASSUME NEW c \in Calls, Request(c)
    PROVE  /\ faults' = faults \/ (faults < MaxFaults /\ faults' = faults + 1)
           /\ rearms' = rearms \/ (rearms < MaxRearms /\ rearms' = rearms + 1)
<1> USE DEF counters, history
<1>1. CASE recoverOverdueSeed(c) \/ recoverWithoutReceipt(c)
    BY <1>1 DEF recoverOverdueSeed, recoverWithoutReceipt
<1>2. CASE rearmPendingSeed(c)
    BY <1>2 DEF rearmPendingSeed
<1>3. CASE ~recoverOverdueSeed(c) /\ ~recoverWithoutReceipt(c) /\ ~rearmPendingSeed(c)
    <2>1. UNCHANGED counters
        BY <1>3 DEF Request, ensureRegistrationStakeSeed, prepareSeedTarget, recoverPendingSeed,
           checkStakeBefore, ensureAllowance, beginSeedBroadcast, awaitReceipt, persistSeed,
           persistPending, persistFailure, markStakeSeedPending, WritesPending
    <2> QED BY <2>1
<1> QED BY <1>1, <1>2, <1>3

(* The seeds a request excuses: the one it gives up while it is under way, *)
(* the one whose record it replaces.                                       *)
LEMMA RequestExcuses ==
    ASSUME SeedAssumption, TypeOK, NEW c \in Calls, Request(c)
    PROVE  \/ excused' = excused
           \/ /\ recoverOverdueSeed(c)
              /\ Excuse("overdue", {i \in {call[c].seen.tx} : InPlay(i)})
              /\ {i \in {call[c].seen.tx} : InPlay(i)} \in SUBSET Nat
           \/ \E tx : Excuse("overwritten", Displaced(tx)) /\ Displaced(tx) \in SUBSET Nat
           \/ Excuse("overwritten", {})
<1> USE DEF history
<1>0. call[c].seen.tx \in Nat
    <2>1. call[c].seen \in Pending
        BY DEF TypeOK, Locals
    <2>2. MaxTxs \in Nat
        BY DEF SeedAssumption
    <2> QED BY <2>1, <2>2 DEF Pending, NoPending, Hashes, None, Recovered
<1>1. CASE recoverOverdueSeed(c)
    BY <1>0, <1>1 DEF recoverOverdueSeed
<1>2. CASE persistPending(c) \/ persistFailure(c)
    <2>1. \A tx : Displaced(tx) \in SUBSET Nat
        BY SeedsAreNumbered DEF Displaced
    <2> QED BY <1>2, <2>1 DEF persistPending, persistFailure, WritesPending
<1>3. CASE ~recoverOverdueSeed(c) /\ ~persistPending(c) /\ ~persistFailure(c)
    BY <1>3 DEF Request, ensureRegistrationStakeSeed, prepareSeedTarget, recoverPendingSeed,
       recoverWithoutReceipt, rearmPendingSeed, checkStakeBefore, ensureAllowance,
       beginSeedBroadcast, awaitReceipt, persistSeed, markStakeSeedPending
<1> QED BY <1>1, <1>2, <1>3

LEMMA RequestExcusesTyped ==
    ASSUME SeedAssumption, TypeOK, NEW c \in Calls, Request(c)
    PROVE  excused' \in [Reasons -> SUBSET Nat]
<1>1. excused \in [Reasons -> SUBSET Nat]
    BY DEF TypeOK
<1> QED BY <1>1, RequestExcuses, ExcusesAreTyped, ReasonsAreFour

LEMMA CountStays ==
    ASSUME NEW n \in Nat, NEW k \in 0 .. n, NEW next,
           next = k \/ (k < n /\ next = k + 1)
    PROVE  next \in 0 .. n
<1>1. CASE next = k
    BY <1>1
<1>2. CASE k < n /\ next = k + 1
    <2>1. k \in Int /\ 0 <= k
        OBVIOUS
    <2>2. next \in Int /\ 0 <= next /\ next <= n
        BY <1>2, <2>1
    <2> QED BY <2>2
<1> QED BY <1>1, <1>2

LEMMA SentIsTyped ==
    ASSUME txs \in Seq(Statuses), txs' = txs \/ txs' = Append(txs, "inflight")
    PROVE  txs' \in Seq(Statuses)
BY AppendProperties DEF Statuses

LEMMA TypesAreKept ==
    ASSUME SeedAssumption, TypeOK, [Next]_vars
    PROVE  TypeOK'
<1> USE DEF chainVars, counters, history
<1> DEFINE rowTyped == row' \in Row /\ lease' \in BOOLEAN /\ allowance' \in BOOLEAN
           chainTyped == txs' \in Seq(Statuses) /\ onchainStake' \in Nat
           callsTyped == call' \in [Calls -> Locals] /\ held' \in [Writers -> Row]
           counted == /\ faults' \in 0 .. MaxFaults /\ crashes' \in 0 .. MaxCrashes
                      /\ rearms' \in 0 .. MaxRearms /\ restakes' \in 0 .. MaxRestakes
           noted == reached' \in BOOLEAN /\ excused' \in [Reasons -> SUBSET Nat]
<1>0. /\ row \in Row /\ lease \in BOOLEAN /\ allowance \in BOOLEAN /\ reached \in BOOLEAN
      /\ txs \in Seq(Statuses) /\ onchainStake \in Nat
      /\ call \in [Calls -> Locals] /\ held \in [Writers -> Row]
      /\ faults \in 0 .. MaxFaults /\ crashes \in 0 .. MaxCrashes /\ rearms \in 0 .. MaxRearms
      /\ restakes \in 0 .. MaxRestakes /\ excused \in [Reasons -> SUBSET Nat]
    BY DEF TypeOK, Statuses
<1>n. /\ MaxFaults \in Nat /\ MaxCrashes \in Nat /\ MaxRearms \in Nat /\ MaxRestakes \in Nat
      /\ Amount \in Nat /\ OwnStakes \subseteq Nat
    BY DEF SeedAssumption
<1> SUFFICES rowTyped /\ chainTyped /\ callsTyped /\ counted /\ noted
    BY DEF TypeOK, Statuses
<1>s. ASSUME txs' = Append(txs, "inflight"), Excuse("lost", {Len(txs')})
      PROVE  txs' \in Seq(Statuses) /\ excused' \in [Reasons -> SUBSET Nat]
    <2>1. txs' \in Seq(Statuses)
        BY <1>0, <1>s, SentIsTyped
    <2>2. Len(txs') \in Nat
        BY <2>1, LenProperties
    <2> QED BY <1>0, <1>s, <2>1, <2>2, ExcusesAreTyped, ReasonsAreFour
<1>1. ASSUME NEW c \in Calls, Request(c)
      PROVE  rowTyped /\ chainTyped /\ callsTyped /\ counted /\ noted
    <2>1. /\ RowStep /\ lease' \in BOOLEAN /\ allowance' \in BOOLEAN
          /\ txs' = txs \/ txs' = Append(txs, "inflight")
          /\ UNCHANGED <<onchainStake, held, crashes, restakes, reached>>
        BY <1>1, RequestKeepsTypes
    <2>2. /\ faults' = faults \/ (faults < MaxFaults /\ faults' = faults + 1)
          /\ rearms' = rearms \/ (rearms < MaxRearms /\ rearms' = rearms + 1)
        BY <1>1, RequestCounts
    <2>3. faults' \in 0 .. MaxFaults /\ rearms' \in 0 .. MaxRearms
        BY <1>0, <1>n, CountStays, <2>2
    <2>4. txs' \in Seq(Statuses)
        BY <1>0, <2>1, SentIsTyped
    <2>5. row' \in Row /\ call' \in [Calls -> Locals]
        BY <1>0, <2>1 DEF RowStep
    <2>6. excused' \in [Reasons -> SUBSET Nat]
        BY <1>1, RequestExcusesTyped
    <2> QED BY <1>0, <2>1, <2>3, <2>4, <2>5, <2>6
<1>2. ASSUME NEW c \in Calls, Fault(c)
      PROVE  rowTyped /\ chainTyped /\ callsTyped /\ counted /\ noted
    <2>1. AfterFault(call[c].pc) \in Steps
        BY DEF AfterFault, Steps
    <2>2. [call[c] EXCEPT !.pc = AfterFault(call[c].pc)] \in Locals
        BY <1>0, <2>1 DEF Locals
    <2>3. faults' \in 0 .. MaxFaults
        BY <1>0, <1>n, <1>2, CountStays DEF Fault
    <2> QED BY <1>0, <1>2, <2>2, <2>3 DEF Fault, GoTo, Go
<1>3. ASSUME NEW c \in Calls, broadcastAnswerLost(c)
      PROVE  rowTyped /\ chainTyped /\ callsTyped /\ counted /\ noted
    <2>1. [call[c] EXCEPT !.pc = "recordFailure"] \in Locals
        BY <1>0 DEF Locals, Steps
    <2>2. faults' \in 0 .. MaxFaults
        BY <1>0, <1>n, <1>3, CountStays DEF broadcastAnswerLost
    <2> QED BY <1>0, <1>3, <1>s, <2>1, <2>2 DEF broadcastAnswerLost, GoTo, Go
<1>4. ASSUME NEW i \in DOMAIN txs, NEW status \in {"mined", "reverted", "dropped"},
             Settle(i, status)
      PROVE  rowTyped /\ chainTyped /\ callsTyped /\ counted /\ noted
    <2>1. faults' \in 0 .. MaxFaults
        BY <1>0, <1>n, <1>4, CountStays DEF Settle
    <2>2. txs' \in Seq(Statuses)
        BY <1>0, <1>4, ExceptSeq DEF Settle, Statuses
    <2>3. onchainStake' \in Nat /\ reached' \in BOOLEAN
        BY <1>0, <1>n, <1>4 DEF Settle
    <2> QED BY <1>0, <1>4, <2>1, <2>2, <2>3 DEF Settle
<1>5. ASSUME NEW stake \in OwnStakes, restake(stake)
      PROVE  rowTyped /\ chainTyped /\ callsTyped /\ counted /\ noted
    <2>1. restakes' \in 0 .. MaxRestakes
        BY <1>0, <1>n, <1>5, CountStays DEF restake
    <2>2. (IF stake = 0 THEN TxWith("mined") ELSE {}) \in SUBSET Nat
        BY SeedsAreNumbered
    <2>3. excused' \in [Reasons -> SUBSET Nat]
        BY <1>0, <1>5, <2>2, ExcusesAreTyped, ReasonsAreFour DEF restake
    <2> QED BY <1>0, <1>n, <1>5, <2>1, <2>3 DEF restake
<1>6. ASSUME Crash PROVE rowTyped /\ chainTyped /\ callsTyped /\ counted /\ noted
    <2>1. crashes' \in 0 .. MaxCrashes
        BY <1>0, <1>n, <1>6, CountStays DEF Crash
    <2>2. txs' \in Seq(Statuses) /\ excused' \in [Reasons -> SUBSET Nat]
        BY <1>0, <1>6, <1>s DEF Crash
    <2> QED BY <1>0, <1>6, <2>1, <2>2, NothingIsTyped DEF Crash
<1>7. CASE \E w \in Writers : readProfile(w) \/ saveProfile(w)
    BY <1>0, <1>7 DEF readProfile, saveProfile
<1>8. CASE UNCHANGED vars
    BY <1>0, <1>8 DEF vars
<1> QED BY <1>1, <1>2, <1>3, <1>4, <1>5, <1>6, <1>7, <1>8 DEF Next

(* Every variable of a seeding keeps its type. *)
THEOREM SeedTypeIsInvariant ==
    ASSUME SeedAssumption
    PROVE  Spec => []TypeOK
<1>1. Init => TypeOK
    BY TypesAtFirst
<1>2. TypeOK /\ [Next]_vars => TypeOK'
    BY TypesAreKept
<1> QED BY <1>1, <1>2, PTL DEF Spec

-----------------------------------------------------------------------------
(* Evidence. *)

(* A seed is sent or settled, and nothing else happens to it. *)
LEMMA SentStays ==
    ASSUME SeedAssumption, TypeOK, [Next]_vars
    PROVE  \/ txs' = txs
           \/ txs' = Append(txs, "inflight")
           \/ \E i \in DOMAIN txs, status \in {"mined", "reverted", "dropped"} :
                  txs[i] = "inflight" /\ txs' = [txs EXCEPT ![i] = status]
<1> USE DEF chainVars
<1>1. CASE \E c \in Calls : Request(c)
    BY <1>1, RequestKeepsTypes
<1>2. CASE \E c \in Calls : Fault(c) \/ broadcastAnswerLost(c)
    BY <1>2 DEF Fault, broadcastAnswerLost
<1>3. CASE \E i \in DOMAIN txs, status \in {"mined", "reverted", "dropped"} : Settle(i, status)
    BY <1>3 DEF Settle
<1>4. CASE Crash
    BY <1>4 DEF Crash
<1>5. CASE \E w \in Writers : readProfile(w) \/ saveProfile(w)
    BY <1>5 DEF readProfile, saveProfile
<1>6. CASE \E stake \in OwnStakes : restake(stake)
    BY <1>6 DEF restake
<1>7. CASE UNCHANGED vars
    BY <1>7 DEF vars
<1> QED BY <1>1, <1>2, <1>3, <1>4, <1>5, <1>6, <1>7 DEF Next

(* Stake that was reached once was reached, also when it is withdrawn.     *)
LEMMA ReachStays ==
    ASSUME SeedAssumption, TypeOK, onchainStake >= Amount => reached, [Next]_vars
    PROVE  (reached => reached') /\ (onchainStake' >= Amount => reached')
<1> USE DEF chainVars, counters, history
<1>1. CASE \E c \in Calls : Request(c)
    BY <1>1, RequestKeepsTypes
<1>2. CASE \E c \in Calls : Fault(c) \/ broadcastAnswerLost(c)
    BY <1>2 DEF Fault, broadcastAnswerLost
<1>3. CASE \E i \in DOMAIN txs, status \in {"mined", "reverted", "dropped"} : Settle(i, status)
    BY <1>3 DEF Settle
<1>4. CASE Crash
    BY <1>4 DEF Crash
<1>5. CASE \E w \in Writers : readProfile(w) \/ saveProfile(w)
    BY <1>5 DEF readProfile, saveProfile
<1>6. CASE \E stake \in OwnStakes : restake(stake)
    BY <1>6 DEF restake
<1>7. CASE UNCHANGED vars
    BY <1>7 DEF vars
<1> QED BY <1>1, <1>2, <1>3, <1>4, <1>5, <1>6, <1>7 DEF Next

(* The evidence in the row, in every copy of it that waits to be saved and *)
(* in the hands of every request is for stake that once was on chain.      *)
Backed(ev) == reached \/ ev.amount = 0

EvidenceInv ==
    /\ onchainStake >= Amount => reached
    /\ Backed(row.seed)
    /\ \A w \in Writers : Backed(held[w].seed)
    /\ \A c \in Calls : Backed(call[c].ev)

LEMMA EvidenceAtFirst == SeedAssumption /\ Init => EvidenceInv
<1> SUFFICES ASSUME SeedAssumption, Init PROVE EvidenceInv
    OBVIOUS
<1>1. onchainStake >= Amount => reached
    BY DEF Init
<1>2. Backed(NoEvidence) /\ row.seed = NoEvidence /\ NoLocals.ev = NoEvidence
    BY DEF Init, Backed, NoEvidence, NoLocals
<1>3. (\A w \in Writers : held[w] = row) /\ \A c \in Calls : call[c] = NoLocals
    BY DEF Init
<1> QED BY <1>1, <1>2, <1>3 DEF EvidenceInv

LEMMA EvidenceIsKept ==
    ASSUME SeedAssumption, TypeOK, TypeOK', EvidenceInv, [Next]_vars
    PROVE  EvidenceInv'
<1> DEFINE ok(ev) == reached \/ ev.amount = 0
<1>0. /\ row \in Row /\ call \in [Calls -> Locals] /\ held \in [Writers -> Row]
      /\ row' \in Row /\ call' \in [Calls -> Locals] /\ held' \in [Writers -> Row]
      /\ onchainStake \in Nat /\ Amount \in Nat
    BY DEF TypeOK, SeedAssumption
<1>1. /\ ok(row.seed)
      /\ \A w \in Writers : ok(held[w].seed)
      /\ \A c \in Calls : ok(call[c].ev)
    BY DEF EvidenceInv, Backed
<1>h. onchainStake >= Amount => reached
    BY DEF EvidenceInv
<1>s. ok(NoEvidence) /\ ok(NoLocals.ev)
    BY DEF NoEvidence, NoLocals
<1>k. /\ reached => reached'
      /\ onchainStake' >= Amount => reached'
    BY <1>h, ReachStays
<1>v. ASSUME NEW amount, NEW tx, reached \/ amount = 0 PROVE ok([amount |-> amount, tx |-> tx])
    BY <1>v
<1>w. \A ev : ok(ev) => Backed(ev)'
    BY <1>k DEF Backed
<1> HIDE DEF ok
<1> SUFFICES /\ ok(row'.seed)
             /\ \A w \in Writers : ok(held'[w].seed)
             /\ \A c \in Calls : ok(call'[c].ev)
    <2>1. /\ Backed(row.seed)'
          /\ \A w \in Writers : Backed(held[w].seed)'
          /\ \A c \in Calls : Backed(call[c].ev)'
        BY <1>k DEF ok, Backed
    <2> QED BY <1>k, <2>1 DEF EvidenceInv
<1> USE DEF chainVars, counters, history, Go, GoTo
<1>2. ASSUME NEW c \in Calls, Request(c)
      PROVE  /\ ok(row'.seed) /\ held' = held
             /\ \E locals \in Locals : call' = [call EXCEPT ![c] = locals] /\ ok(locals.ev)
    <2>0. call[c] \in Locals /\ RowStep /\ held' = held
        BY <1>0, <1>2, RequestKeepsTypes
    <2>a. ok(call[c].ev) /\ ok(row.seed)
        BY <1>1
    <2>b. ASSUME NEW locals, call' = [call EXCEPT ![c] = locals], ok(locals.ev)
          PROVE  \E l \in Locals : call' = [call EXCEPT ![c] = l] /\ ok(l.ev)
        BY <1>0, <2>b
    <2> SUFFICES /\ ok(row'.seed)
                 /\ \E locals : call' = [call EXCEPT ![c] = locals] /\ ok(locals.ev)
        BY <2>0, <2>b
    <2>c. ASSUME NEW pc, GoTo(c, pc)
          PROVE  \E locals : call' = [call EXCEPT ![c] = locals] /\ ok(locals.ev)
        <3> WITNESS [call[c] EXCEPT !.pc = pc]
        <3> QED BY <2>0, <2>a, <2>c DEF Locals
    <2>d. ASSUME row' = row \/ row'.seed = row.seed PROVE ok(row'.seed)
        BY <2>a, <2>d
    <2>1. CASE ensureRegistrationStakeSeed(c)
        <3> DEFINE locals == [NoLocals EXCEPT !.pc = "prepare"]
        <3>1. call' = [call EXCEPT ![c] = locals] /\ locals.ev = NoLocals.ev /\ row' = row
            BY <2>1 DEF ensureRegistrationStakeSeed, NoLocals
        <3> QED BY <1>s, <2>d, <3>1
    <2>2. CASE prepareSeedTarget(c)
        BY <1>0, <2>0, <2>2, <2>a DEF prepareSeedTarget, WithSeed, WithPending, Ready, Row, Locals
    <2>e. StakeReached(c) => ok(RecoveredEvidence(c).ev)
        <3>1. call[c].seen.amount \in {0, Amount}
            BY <2>0 DEF Locals, Pending, NoPending
        <3>2. StakeReached(c) => reached \/ call[c].seen.amount = 0
            BY <1>0, <1>h, <3>1 DEF StakeReached
        <3>3. RecoveredEvidence(c).ev
                  = [amount |-> call[c].seen.amount,
                     tx |-> IF call[c].seen.tx = None THEN Recovered ELSE call[c].seen.tx]
            BY <2>0 DEF RecoveredEvidence, Locals
        <3> QED BY <1>v, <3>2, <3>3
    <2>3. CASE recoverPendingSeed(c)
        <3>1. row' = row /\ \/ Go(c, RecoveredEvidence(c)) /\ StakeReached(c)
                            \/ GoTo(c, "rearm") \/ GoTo(c, "recordPending")
            BY <2>3, Zenon DEF recoverPendingSeed
        <3> QED BY <2>c, <2>d, <2>e, <3>1
    <2>14. CASE recoverWithoutReceipt(c)
        <3>1. row' = row /\ \/ Go(c, RecoveredEvidence(c)) /\ StakeReached(c)
                            \/ GoTo(c, "recordPending")
            BY <2>14, Zenon DEF recoverWithoutReceipt
        <3> QED BY <2>c, <2>d, <2>e, <3>1
    <2>4. CASE recoverOverdueSeed(c)
        BY <2>4, <2>c, <2>d DEF recoverOverdueSeed
    <2>5. CASE rearmPendingSeed(c)
        BY <1>0, <2>0, <2>5, <2>a DEF rearmPendingSeed, WithSeed, WithPending, Ready, Row, Locals
    <2>6. CASE checkStakeBefore(c)
        <3> DEFINE pc == IF onchainStake > 0 THEN "recordFailure" ELSE "allowance"
                   locals == [call[c] EXCEPT !.before = onchainStake, !.pc = pc]
        <3>1. call' = [call EXCEPT ![c] = locals] /\ row' = row
            BY <2>6 DEF checkStakeBefore
        <3> HIDE DEF pc
        <3>2. ok(locals.ev)
            BY <2>0, <2>a DEF Locals
        <3> QED BY <2>d, <3>1, <3>2
    <2>7. CASE ensureAllowance(c)
        BY <2>7, <2>c, <2>d DEF ensureAllowance
    <2>8. CASE beginSeedBroadcast(c)
        BY <1>0, <2>0, <2>8, <2>a DEF beginSeedBroadcast, WithSeed, WithPending, Row, Locals
    <2>9. CASE awaitReceipt(c)
        <3> DEFINE ev == [amount |-> Amount, tx |-> call[c].tx]
                   stake == onchainStake
        <3>1. onchainStake >= call[c].before + Amount => ok(ev)
            BY <1>0, <1>h, <1>v, <2>0 DEF Locals
        <3>2. /\ row' = row
              /\ \/ /\ onchainStake >= call[c].before + Amount
                    /\ Go(c, [call[c] EXCEPT !.pc = "recordSeed", !.stake = stake, !.ev = ev])
                 \/ GoTo(c, "recordFailure")
            BY <2>9, Zenon DEF awaitReceipt
        <3> HIDE DEF ev, stake
        <3>3. [call[c] EXCEPT !.pc = "recordSeed", !.stake = stake, !.ev = ev].ev = ev
            BY <2>0 DEF Locals
        <3> QED BY <2>c, <2>d, <3>1, <3>2, <3>3
    <2>10. CASE persistSeed(c)
        BY <2>10, <2>a, <2>c DEF persistSeed, WithEvidence
    <2>11. CASE persistPending(c)
        BY <1>0, <2>11, <2>c, <2>d DEF persistPending, WritesPending, Row
    <2>12. CASE persistFailure(c)
        BY <1>0, <2>12, <2>c, <2>d DEF persistFailure, WritesPending, Row
    <2>13. CASE markStakeSeedPending(c)
        BY <1>0, <2>13, <2>c, <2>d DEF markStakeSeedPending, Row
    <2> QED BY <1>2, <2>1, <2>2, <2>3, <2>4, <2>5, <2>6, <2>7, <2>8, <2>9, <2>10, <2>11, <2>12,
               <2>13, <2>14 DEF Request
<1>3. CASE \E c \in Calls : Request(c)
    BY <1>0, <1>1, <1>2, <1>3
<1>4. CASE \E c \in Calls : Fault(c) \/ broadcastAnswerLost(c)
    <2>1. PICK c \in Calls : \E pc : GoTo(c, pc)
        <3>1. ASSUME NEW c \in Calls, Fault(c) PROVE \E pc : GoTo(c, pc)
            BY <3>1, Zenon DEF Fault
        <3>2. ASSUME NEW c \in Calls, broadcastAnswerLost(c) PROVE \E pc : GoTo(c, pc)
            BY <3>2, Zenon DEF broadcastAnswerLost
        <3> QED BY <1>4, <3>1, <3>2
    <2>2. row' = row /\ held' = held
        BY <1>4 DEF Fault, broadcastAnswerLost
    <2> QED BY <1>0, <1>1, <2>1, <2>2 DEF Locals
<1>5. CASE \E i \in DOMAIN txs, status \in {"mined", "reverted", "dropped"} : Settle(i, status)
    BY <1>1, <1>5 DEF Settle
<1>6. CASE Crash
    BY <1>1, <1>s, <1>6 DEF Crash
<1>7. CASE \E w \in Writers : readProfile(w) \/ saveProfile(w)
    BY <1>0, <1>1, <1>7 DEF readProfile, saveProfile
<1>8. CASE \E stake \in OwnStakes : restake(stake)
    BY <1>1, <1>8 DEF restake
<1>9. CASE UNCHANGED vars
    BY <1>1, <1>9 DEF vars
<1> QED BY <1>3, <1>4, <1>5, <1>6, <1>7, <1>8, <1>9 DEF Next

(* AgentStakeSeedService never records a seed for an agent who has not had *)
(* the stake on chain: not after a crash, a lost answer or a late receipt, *)
(* not when the agent withdraws on the way, and not when a request without *)
(* a lock saves the row it had read before.                                *)
THEOREM EvidenceStaysBacked ==
    ASSUME SeedAssumption
    PROVE  Spec => []EvidenceBacked
<1>1. Init => TypeOK /\ EvidenceInv
    BY TypesAtFirst, EvidenceAtFirst
<1>2. TypeOK /\ EvidenceInv /\ [Next]_vars => (TypeOK /\ EvidenceInv)'
    BY TypesAreKept, EvidenceIsKept
<1>3. EvidenceInv => EvidenceBacked
    BY DEF EvidenceInv, Backed, EvidenceBacked
<1> QED BY <1>1, <1>2, <1>3, PTL DEF Spec

LEMMA SeedRests ==
    ASSUME Writers = {}, TypeOK, [Next]_vars, IsSeeded(row)
    PROVE  row' = row \/ row'.seed = row.seed
<1> USE DEF MayBroadcast
<1>1. CASE \E c \in Calls : Request(c)
    BY <1>1 DEF Request, ensureRegistrationStakeSeed, prepareSeedTarget, recoverPendingSeed,
       recoverWithoutReceipt, recoverOverdueSeed, rearmPendingSeed, checkStakeBefore,
       ensureAllowance, beginSeedBroadcast, awaitReceipt, persistSeed, persistPending,
       persistFailure, WritesPending, markStakeSeedPending
<1>2. CASE \E c \in Calls : Fault(c) \/ broadcastAnswerLost(c)
    BY <1>2 DEF Fault, broadcastAnswerLost
<1>3. CASE \E i \in DOMAIN txs, status \in {"mined", "reverted", "dropped"} : Settle(i, status)
    BY <1>3 DEF Settle
<1>4. CASE Crash
    BY <1>4 DEF Crash
<1>5. CASE \E stake \in OwnStakes : restake(stake)
    BY <1>5 DEF restake
<1>6. CASE UNCHANGED vars
    BY <1>6 DEF vars
<1> QED BY <1>1, <1>2, <1>3, <1>4, <1>5, <1>6 DEF Next

(* Evidence is rewritten by nobody but a request that saves a whole row    *)
(* without a lock: with no such request around, no step of a seeding, a    *)
(* retry, a late failure or a restart changes evidence already recorded.   *)
THEOREM EvidenceIsFinal ==
    ASSUME SeedAssumption, Writers = {}
    PROVE  Spec => [][EvidenceStays]_vars
<1>1. Init => TypeOK
    BY TypesAtFirst
<1>2. TypeOK /\ [Next]_vars => TypeOK'
    BY TypesAreKept
<1>3. TypeOK /\ [Next]_vars => [EvidenceStays]_vars
    BY SeedRests DEF EvidenceStays
<1> QED BY <1>1, <1>2, <1>3, PTL DEF Spec

-----------------------------------------------------------------------------
(* What a request carries. *)

Attempting == {"checkStake", "allowance", "broadcast"}

LocalsFit(l) ==
    /\ l.pc \in {"recover", "rearm", "recordPending"} => l.seen # NoPending
    /\ l.pc \in Attempting => l.seen = NoPending \/ l.seen.stage = "awaiting_tx_hash"
    /\ l.pc = "recordSeed" => l.ev.tx # None
    /\ l.pc = "receipt" => l.tx # None
LocalsInv == \A c \in Calls : LocalsFit(call[c])

LEMMA OthersRest ==
    ASSUME call \in [Calls -> Locals], NEW c \in Calls,
           Request(c) \/ Fault(c) \/ broadcastAnswerLost(c)
    PROVE  /\ \A d \in Calls \ {c} : call'[d] = call[d]
           /\ DOMAIN call' = Calls
<1>1. PICK locals : call' = [call EXCEPT ![c] = locals]
    <2> USE DEF Go, GoTo
    <2>1. ASSUME Request(c) PROVE \E locals : call' = [call EXCEPT ![c] = locals]
        BY <2>1, Zenon DEF Request, ensureRegistrationStakeSeed, prepareSeedTarget,
           recoverPendingSeed, recoverWithoutReceipt, recoverOverdueSeed, rearmPendingSeed,
           checkStakeBefore, ensureAllowance, beginSeedBroadcast, awaitReceipt, persistSeed,
           persistPending, persistFailure, markStakeSeedPending
    <2>2. ASSUME Fault(c) \/ broadcastAnswerLost(c)
          PROVE  \E locals : call' = [call EXCEPT ![c] = locals]
        BY <2>2, Zenon DEF Fault, broadcastAnswerLost
    <2> QED BY <2>1, <2>2
<1> QED BY <1>1

LEMMA RequestFits ==
    ASSUME SeedAssumption, TypeOK, NEW c \in Calls, LocalsFit(call[c]), Request(c)
    PROVE  LocalsFit(call'[c])
<1> USE DEF Go, GoTo, LocalsFit, Attempting
<1>0. call[c] \in Locals /\ call \in [Calls -> Locals]
    BY DEF TypeOK
<1>a. IsSeeded(row) => LocalsFit(WithSeed(c, row))
    BY <1>0 DEF WithSeed, Locals, IsSeeded
<1>b. ASSUME NEW pc \in {"recover", "recordPending"}, NEW pending, pending # NoPending
      PROVE  LocalsFit(WithPending(c, pc, pending))
    BY <1>0, <1>b DEF WithPending, Locals
<1>d. ASSUME NEW pending, pending = NoPending \/ pending.stage = "awaiting_tx_hash"
      PROVE  LocalsFit(Ready(c, pending))
    BY <1>0, <1>d DEF Ready, Locals
<1>e. LocalsFit(RecoveredEvidence(c))
    <2> DEFINE tx == IF call[c].seen.tx = None THEN Recovered ELSE call[c].seen.tx
               ev == [amount |-> call[c].seen.amount, tx |-> tx]
    <2>1. tx # None
        BY DEF Recovered, None
    <2>2. ev.tx = tx
        BY Zenon
    <2>3. RecoveredEvidence(c)
              = [call[c] EXCEPT !.pc = "recordSeed", !.stake = onchainStake, !.ev = ev]
        BY Zenon DEF RecoveredEvidence
    <2> HIDE DEF tx, ev
    <2> QED BY <1>0, <2>1, <2>2, <2>3 DEF Locals
<1>f. ASSUME NEW stage \in {"failed", "awaiting_tx_hash", "broadcasted"}, NEW amount, NEW tx
      PROVE  /\ PendingSeed(stage, amount, tx) # NoPending
             /\ PendingSeed(stage, amount, tx).stage = stage
    BY DEF PendingSeed, NoPending
<1>1. CASE ensureRegistrationStakeSeed(c)
    BY <1>0, <1>1 DEF ensureRegistrationStakeSeed, NoLocals
<1>2. CASE prepareSeedTarget(c)
    <2>1. CASE IsSeeded(row)
        BY <1>0, <1>2, <1>a, <2>1 DEF prepareSeedTarget
    <2>2. CASE ~IsSeeded(row) /\ HasPending(row)
        BY <1>0, <1>2, <1>b, <2>2 DEF prepareSeedTarget, HasPending
    <2>3. CASE ~IsSeeded(row) /\ ~HasPending(row)
        BY <1>0, <1>2, <1>b, <1>d, <1>f, <2>3 DEF prepareSeedTarget
    <2> QED BY <2>1, <2>2, <2>3
<1>3. CASE recoverPendingSeed(c)
    <2>1. CASE Go(c, RecoveredEvidence(c))
        BY <1>0, <1>e, <2>1
    <2>2. CASE GoTo(c, "rearm") \/ GoTo(c, "recordPending")
        BY <1>0, <1>3, <2>2 DEF recoverPendingSeed, At, Locals
    <2> QED BY <1>3, <2>1, <2>2 DEF recoverPendingSeed
<1>11. CASE recoverWithoutReceipt(c)
    <2>1. CASE Go(c, RecoveredEvidence(c))
        BY <1>0, <1>e, <2>1
    <2>2. CASE GoTo(c, "recordPending")
        BY <1>0, <1>11, <2>2 DEF recoverWithoutReceipt, At, Locals
    <2> QED BY <1>11, <2>1, <2>2 DEF recoverWithoutReceipt
<1>4. CASE recoverOverdueSeed(c)
    BY <1>0, <1>4 DEF recoverOverdueSeed, At, Locals
<1>5. CASE rearmPendingSeed(c)
    <2>1. CASE IsSeeded(row)
        BY <1>0, <1>5, <1>a, <2>1 DEF rearmPendingSeed
    <2>2. CASE ~IsSeeded(row)
        BY <1>0, <1>5, <1>b, <1>d, <2>2 DEF rearmPendingSeed, HasPending
    <2> QED BY <2>1, <2>2
<1>6. CASE checkStakeBefore(c)
    <2> DEFINE pc == IF onchainStake > 0 THEN "recordFailure" ELSE "allowance"
    <2>1. call'[c] = [call[c] EXCEPT !.before = onchainStake, !.pc = pc] /\ At(c, "checkStake")
        BY <1>0, <1>6 DEF checkStakeBefore
    <2>2. pc \in {"recordFailure", "allowance"}
        OBVIOUS
    <2> HIDE DEF pc
    <2> QED BY <1>0, <2>1, <2>2 DEF At, Locals
<1>7. CASE ensureAllowance(c)
    BY <1>0, <1>7 DEF ensureAllowance, At, Locals
<1>8. CASE beginSeedBroadcast(c)
    <2>1. CASE IsSeeded(row)
        BY <1>0, <1>8, <1>a, <2>1 DEF beginSeedBroadcast, MayBroadcast
    <2>2. CASE ~IsSeeded(row) /\ ~MayBroadcast(c)
        BY <1>0, <1>8, <2>2 DEF beginSeedBroadcast, MayBroadcast, WithPending, Locals, HasPending
    <2>3. CASE MayBroadcast(c) /\ Len(txs) = MaxTxs
        BY <1>0, <1>8, <2>3 DEF beginSeedBroadcast, MayBroadcast, Locals, SeedAssumption
    <2>4. CASE MayBroadcast(c) /\ Len(txs) < MaxTxs
        <3>1. txs \in Seq(Statuses) /\ txs' = Append(txs, "inflight")
            BY <1>8, <2>4 DEF beginSeedBroadcast, MayBroadcast, TypeOK, Statuses, SeedAssumption
        <3>2. Len(txs') # None
            BY <3>1, AppendProperties, LenProperties DEF Statuses, None
        <3> DEFINE pending == PendingSeed("broadcasted", Amount, Len(txs'))
                   locals == [call[c] EXCEPT !.pc = "receipt", !.tx = Len(txs'), !.seen = pending]
        <3>3. Len(txs) # MaxTxs /\ ~IsSeeded(row)
            BY <2>4, LenProperties DEF MayBroadcast, SeedAssumption, TypeOK
        <3>4. call' = [call EXCEPT ![c] = locals]
            BY <1>8, <2>4, <3>3 DEF beginSeedBroadcast
        <3> HIDE DEF pending
        <3> QED BY <1>0, <3>2, <3>4 DEF Locals
    <2> QED BY <1>8, <2>1, <2>2, <2>3, <2>4 DEF beginSeedBroadcast
<1>9. CASE awaitReceipt(c)
    <2> DEFINE ev == [amount |-> Amount, tx |-> call[c].tx]
    <2>2. ev.tx = call[c].tx
        BY Zenon
    <2>3. \/ Go(c, [call[c] EXCEPT !.pc = "recordSeed", !.stake = onchainStake, !.ev = ev])
          \/ GoTo(c, "recordFailure")
        BY <1>9, Zenon DEF awaitReceipt
    <2> HIDE DEF ev
    <2>1. \/ call'[c].pc = "recordFailure"
          \/ call'[c].pc = "recordSeed" /\ call'[c].ev.tx = call[c].tx
        BY <1>0, <2>2, <2>3 DEF Locals
    <2> QED BY <1>9, <2>1 DEF awaitReceipt, At
<1>10. CASE persistSeed(c) \/ persistPending(c) \/ persistFailure(c) \/ markStakeSeedPending(c)
    <2>1. call'[c].pc \in {"idle", "mark"}
        BY <1>0, <1>10 DEF persistSeed, persistPending, persistFailure, markStakeSeedPending, Locals
    <2> QED BY <2>1
<1> QED BY <1>1, <1>2, <1>3, <1>4, <1>5, <1>6, <1>7, <1>8, <1>9, <1>10, <1>11 DEF Request

LEMMA LocalsAreKept ==
    ASSUME SeedAssumption, TypeOK, LocalsInv, [Next]_vars
    PROVE  LocalsInv'
<1> USE DEF chainVars, counters, history, Go, GoTo
<1>0. call \in [Calls -> Locals] /\ \A c \in Calls : LocalsFit(call[c])
    BY DEF TypeOK, LocalsInv
<1>1. ASSUME NEW c \in Calls, Request(c) PROVE LocalsInv'
    BY <1>0, <1>1, OthersRest, RequestFits DEF LocalsInv
<1>2. ASSUME NEW c \in Calls, Fault(c) \/ broadcastAnswerLost(c) PROVE LocalsInv'
    <2>1. call'[c].pc \in {"recordFailure", "mark", "idle"}
        BY <1>0, <1>2 DEF Fault, broadcastAnswerLost, AfterFault, Locals
    <2>2. LocalsFit(call'[c])
        BY <2>1 DEF LocalsFit, Attempting
    <2> QED BY <1>0, <1>2, <2>2, OthersRest DEF LocalsInv
<1>3. CASE \E i \in DOMAIN txs, status \in {"mined", "reverted", "dropped"} : Settle(i, status)
    BY <1>0, <1>3 DEF Settle, LocalsInv
<1>4. CASE Crash
    BY <1>4 DEF Crash, LocalsInv, LocalsFit, NoLocals, Attempting
<1>5. CASE \E w \in Writers : readProfile(w) \/ saveProfile(w)
    BY <1>0, <1>5 DEF readProfile, saveProfile, LocalsInv
<1>6. CASE \E stake \in OwnStakes : restake(stake)
    BY <1>0, <1>6 DEF restake, LocalsInv
<1>7. CASE UNCHANGED vars
    BY <1>0, <1>7 DEF vars, LocalsInv
<1> QED BY <1>1, <1>2, <1>3, <1>4, <1>5, <1>6, <1>7 DEF Next

-----------------------------------------------------------------------------
(* Broadcasts. *)

(* The one request that claimed the lock key holds a chance to broadcast   *)
(* until it has used it, and so does a row whose pending record was given  *)
(* up.                                                                     *)
Claiming(c) == call[c].pc \in Attempting /\ call[c].seen.stage = "awaiting_tx_hash"
SomeClaim == \E c \in Calls : Claiming(c)
Explained == IsSeeded(row) \/ HasPending(row) \/ rearms > 0
Retry == ~IsSeeded(row) /\ ~HasPending(row) /\ rearms > 0
One(condition) == IF condition THEN 1 ELSE 0

RetriesAfterRearm ==
    /\ \A c \in Calls : call[c].pc \in Attempting /\ call[c].seen = NoPending => rearms > 0
    /\ \A c \in Calls : call[c].pc \in {"recover", "rearm"} => Explained
OneClaim ==
    /\ SomeClaim => lease
    /\ \A c, d \in Calls : Claiming(c) /\ Claiming(d) => c = d
Answered == DOMAIN txs \ excused["lost"]
ChancesCounted == Cardinality(Answered) + One(SomeClaim) + One(Retry) <= One(lease) + rearms

ChancesShared == RetriesAfterRearm /\ OneClaim /\ ChancesCounted
ChanceInv == rearms < MaxRearms => ChancesShared

LEMMA AnsweredIsFinite ==
    ASSUME TypeOK
    PROVE  IsFiniteSet(Answered) /\ Cardinality(Answered) \in Nat
<1>1. DOMAIN txs = 1 .. Len(txs) /\ Len(txs) \in Nat
    BY SeedsAreNumbered
<1>2. IsFiniteSet(1 .. Len(txs))
    BY <1>1, FS_Interval
<1>3. Answered \subseteq 1 .. Len(txs)
    BY <1>1 DEF Answered
<1> QED BY <1>2, <1>3, FS_Subset, FS_CardinalityType

(* A pending record given up is never taken back. *)
LEMMA RearmsGrow ==
    ASSUME SeedAssumption, TypeOK, [Next]_vars, rearms' < MaxRearms
    PROVE  rearms < MaxRearms
<1> USE DEF counters, history
<1>0. rearms \in Nat /\ MaxRearms \in Nat
    BY DEF TypeOK, SeedAssumption
<1>1. ASSUME NEW c \in Calls, Request(c)
      PROVE  rearms' = rearms \/ rearms < MaxRearms
    BY <1>1, RequestCounts
<1>2. CASE \E c \in Calls : Fault(c) \/ broadcastAnswerLost(c)
    BY <1>2 DEF Fault, broadcastAnswerLost
<1>3. CASE \E i \in DOMAIN txs, status \in {"mined", "reverted", "dropped"} : Settle(i, status)
    BY <1>3 DEF Settle
<1>4. CASE Crash
    BY <1>4 DEF Crash
<1>5. CASE \E w \in Writers : readProfile(w) \/ saveProfile(w)
    BY <1>5 DEF readProfile, saveProfile
<1>6. CASE \E stake \in OwnStakes : restake(stake)
    BY <1>6 DEF restake
<1>7. CASE UNCHANGED vars
    BY <1>7 DEF vars
<1> QED BY <1>0, <1>1, <1>2, <1>3, <1>4, <1>5, <1>6, <1>7 DEF Next

(* Only a broadcast without an answer is lost. *)
LEMMA RequestLosesNone ==
    ASSUME SeedAssumption, TypeOK, NEW c \in Calls, Request(c)
    PROVE  excused'["lost"] = excused["lost"]
<1>1. excused \in [Reasons -> SUBSET Nat]
    BY DEF TypeOK
<1>2. "lost" \in Reasons \ {"overdue"} /\ "lost" \in Reasons \ {"overwritten"}
    BY DEF Reasons
<1>3. {} \in SUBSET Nat
    OBVIOUS
<1> QED BY <1>1, <1>2, <1>3, RequestExcuses, ExcusesAreTyped, ReasonsAreFour

LEMMA LostIsNotAnswered ==
    ASSUME TypeOK, txs' = Append(txs, "inflight"), Excuse("lost", {Len(txs')})
    PROVE  Answered' = Answered
<1>1. DOMAIN txs = 1 .. Len(txs) /\ Len(txs) \in Nat /\ txs \in Seq(Statuses)
    BY SeedsAreNumbered
<1>2. Len(txs') = Len(txs) + 1 /\ DOMAIN txs' = 1 .. Len(txs) + 1
    BY <1>1, AppendProperties, LenProperties DEF Statuses
<1>3. excused'["lost"] = excused["lost"] \cup {Len(txs) + 1}
    BY <1>2, ExcusesAreTyped, ReasonsAreFour DEF TypeOK
<1> QED BY <1>1, <1>2, <1>3 DEF Answered

(* A step that sends nothing and opens no chance. *)
LEMMA CalmChances ==
    ASSUME SeedAssumption, TypeOK, ChancesCounted, UNCHANGED <<lease, rearms>>,
           Answered' = Answered, SomeClaim' => SomeClaim, Retry' => Retry
    PROVE  ChancesCounted'
<1> DEFINE n == Cardinality(Answered)  m == Cardinality(Answered)'
           x == One(SomeClaim)  y == One(Retry)  l == One(lease)
           nx == One(SomeClaim)'  ny == One(Retry)'
<1>1. n \in Nat /\ m = n /\ rearms \in Nat
    BY AnsweredIsFinite DEF TypeOK, SeedAssumption
<1>2. /\ x \in 0 .. 1 /\ y \in 0 .. 1 /\ l \in 0 .. 1 /\ nx \in 0 .. 1 /\ ny \in 0 .. 1
      /\ nx <= x /\ ny <= y
    BY DEF One
<1>3. n + x + y <= l + rearms
    BY DEF ChancesCounted
<1>4. ChancesCounted' <=> m + nx + ny <= l + rearms
    BY DEF ChancesCounted, One
<1> HIDE DEF n, m, x, y, l, nx, ny
<1> QED BY <1>1, <1>2, <1>3, <1>4

(* The step of one request, when it claims nothing new. *)
CalmStep(c) ==
    /\ UNCHANGED <<lease, rearms>> /\ Answered' = Answered
    /\ \A d \in Calls \ {c} : call'[d] = call[d]
    /\ call'[c].pc \in Attempting /\ call'[c].seen = NoPending => rearms > 0
    /\ call'[c].pc \in {"recover", "rearm"} => Explained'
    /\ Claiming(c)' => Claiming(c)
    /\ Explained => Explained'
    /\ Retry' => Retry

LEMMA CalmStepKeepsChances ==
    ASSUME SeedAssumption, TypeOK, ChancesShared, NEW c \in Calls, CalmStep(c)
    PROVE  ChancesShared'
<1>1. \A d \in Calls : Claiming(d)' => Claiming(d)
    BY DEF CalmStep, Claiming
<1>2. SomeClaim' => SomeClaim
    BY <1>1 DEF SomeClaim
<1>3. OneClaim'
    BY <1>1, <1>2 DEF CalmStep, OneClaim, ChancesShared
<1>4. RetriesAfterRearm'
    <2>1. ASSUME NEW d \in Calls \ {c}
          PROVE  /\ call'[d].pc \in Attempting /\ call'[d].seen = NoPending => rearms' > 0
                 /\ call'[d].pc \in {"recover", "rearm"} => Explained'
        BY DEF CalmStep, ChancesShared, RetriesAfterRearm
    <2>2. /\ call'[c].pc \in Attempting /\ call'[c].seen = NoPending => rearms' > 0
          /\ call'[c].pc \in {"recover", "rearm"} => Explained'
        BY DEF CalmStep
    <2> QED BY <2>1, <2>2 DEF RetriesAfterRearm
<1>5. ChancesCounted'
    BY <1>2, CalmChances DEF CalmStep, ChancesShared
<1> QED BY <1>3, <1>4, <1>5 DEF ChancesShared

(* The three steps that do count: the lock key is claimed, a pending       *)
(* record is given up, a transaction is sent.                              *)
Claims(c) == prepareSeedTarget(c) /\ ~IsSeeded(row) /\ ~HasPending(row) /\ ~lease
GivesUp(c) == rearmPendingSeed(c) /\ ~IsSeeded(row) /\ row.pending = call[c].seen
Sends(c) == beginSeedBroadcast(c) /\ MayBroadcast(c) /\ Len(txs) < MaxTxs

RowRests == row' = row \/ IsSeeded(row') \/ HasPending(row')

LEMMA CalmRow ==
    ASSUME UNCHANGED rearms, RowRests
    PROVE  (Explained => Explained') /\ (Retry' => Retry)
BY DEF RowRests, Explained, Retry, IsSeeded, HasPending

LEMMA LocalsOf ==
    ASSUME NEW c \in Calls, call[c] \in Locals
    PROVE  /\ \A pc : /\ [call[c] EXCEPT !.pc = pc].pc = pc
                     /\ [call[c] EXCEPT !.pc = pc].seen = call[c].seen
                     /\ [call[c] EXCEPT !.pc = pc].tx = call[c].tx
           /\ WithSeed(c, row).pc = "recordSeed" /\ WithSeed(c, row).seen = row.pending
           /\ WithSeed(c, row).tx = call[c].tx
           /\ \A pc, pending : /\ WithPending(c, pc, pending).pc = pc
                               /\ WithPending(c, pc, pending).seen = pending
                               /\ WithPending(c, pc, pending).tx = call[c].tx
           /\ \A pending : /\ Ready(c, pending).pc = "checkStake"
                           /\ Ready(c, pending).seen = pending /\ Ready(c, pending).tx = call[c].tx
           /\ RecoveredEvidence(c).pc = "recordSeed"
           /\ RecoveredEvidence(c).seen = call[c].seen /\ RecoveredEvidence(c).tx = call[c].tx
<1>1. /\ RecoveredEvidence(c).pc = "recordSeed"
      /\ RecoveredEvidence(c).seen = call[c].seen /\ RecoveredEvidence(c).tx = call[c].tx
    <2> DEFINE ev == [amount |-> call[c].seen.amount,
                      tx |-> IF call[c].seen.tx = None THEN Recovered ELSE call[c].seen.tx]
    <2>1. RecoveredEvidence(c)
              = [call[c] EXCEPT !.pc = "recordSeed", !.stake = onchainStake, !.ev = ev]
        BY Zenon DEF RecoveredEvidence
    <2> HIDE DEF ev
    <2> QED BY <2>1 DEF Locals
<1>2. \A pc : /\ [call[c] EXCEPT !.pc = pc].pc = pc
              /\ [call[c] EXCEPT !.pc = pc].seen = call[c].seen
              /\ [call[c] EXCEPT !.pc = pc].tx = call[c].tx
    BY DEF Locals
<1>3. /\ WithSeed(c, row).pc = "recordSeed" /\ WithSeed(c, row).seen = row.pending
      /\ WithSeed(c, row).tx = call[c].tx
    BY DEF Locals, WithSeed
<1>4. \A pc, pending : /\ WithPending(c, pc, pending).pc = pc
                       /\ WithPending(c, pc, pending).seen = pending
                       /\ WithPending(c, pc, pending).tx = call[c].tx
    BY DEF Locals, WithPending
<1>5. \A pending : /\ Ready(c, pending).pc = "checkStake"
                   /\ Ready(c, pending).seen = pending /\ Ready(c, pending).tx = call[c].tx
    BY DEF Locals, Ready
<1> QED BY <1>1, <1>2, <1>3, <1>4, <1>5

LEMMA RequestIsCalm ==
    ASSUME SeedAssumption, TypeOK, NEW c \in Calls, LocalsFit(call[c]), RetriesAfterRearm,
           Request(c), ~Claims(c), ~GivesUp(c), ~Sends(c)
    PROVE  CalmStep(c)
<1> USE DEF chainVars, counters, history, Go, GoTo, At
<1>0. /\ call[c] \in Locals /\ call \in [Calls -> Locals] /\ row \in Row
      /\ Len(txs) \in Nat /\ MaxTxs \in Nat /\ lease \in BOOLEAN
    BY LenProperties DEF TypeOK, SeedAssumption
<1>1. \A d \in Calls \ {c} : call'[d] = call[d]
    BY <1>0, OthersRest
<1>l. txs' = txs => Answered' = Answered
    BY RequestLosesNone DEF Answered
<1>n. NoPending.stage = "none"
    BY DEF NoPending
<1>p. ASSUME NEW stage \in Stages, NEW amount, NEW tx
      PROVE  PendingSeed(stage, amount, tx) # NoPending
    BY DEF PendingSeed, NoPending, Stages
<1>q. ASSUME call'[c].pc \notin Attempting \cup {"recover", "rearm"},
             UNCHANGED <<lease, rearms, txs>>, RowRests
      PROVE  CalmStep(c)
    BY <1>1, <1>l, <1>q, CalmRow DEF CalmStep, Claiming
<1>r. ASSUME call'[c].pc \in {"recover", "rearm"}, Explained',
             UNCHANGED <<lease, rearms, txs>>, RowRests
      PROVE  CalmStep(c)
    BY <1>1, <1>l, <1>r, CalmRow DEF CalmStep, Claiming, Attempting
<1>s. ASSUME call'[c].pc \in Attempting, call'[c].seen = NoPending => rearms > 0,
             Claiming(c)' => Claiming(c), UNCHANGED <<lease, rearms, txs, row>>
      PROVE  CalmStep(c)
    <2>1. RowRests
        BY <1>s DEF RowRests
    <2>2. call'[c].pc \notin {"recover", "rearm"}
        BY <1>s DEF Attempting
    <2> QED BY <1>1, <1>l, <1>s, <2>1, <2>2, CalmRow DEF CalmStep
<1>t. call[c].pc \in {"recover", "rearm"} => Explained
    BY DEF RetriesAfterRearm
<1>u. call[c].pc \in Attempting /\ call[c].seen = NoPending => rearms > 0
    BY DEF RetriesAfterRearm
<1>2. CASE ensureRegistrationStakeSeed(c)
    BY <1>0, <1>2, <1>q DEF ensureRegistrationStakeSeed, NoLocals, Attempting, RowRests
<1>3. CASE prepareSeedTarget(c)
    <2>1. CASE IsSeeded(row)
        BY <1>0, <1>3, <1>q, <2>1, LocalsOf DEF prepareSeedTarget, Attempting, RowRests
    <2>2. CASE ~IsSeeded(row) /\ HasPending(row)
        BY <1>0, <1>3, <1>r, <2>2, LocalsOf DEF prepareSeedTarget, RowRests, Explained, HasPending
    <2>3. CASE ~IsSeeded(row) /\ ~HasPending(row)
        <3> DEFINE pending == PendingSeed("failed", Amount, None)
        <3>1. /\ row' = [row EXCEPT !.pending = pending] /\ lease' = lease
              /\ call' = [call EXCEPT ![c] = WithPending(c, "recover", pending)]
              /\ UNCHANGED <<txs, rearms>>
            BY <1>0, <1>3, <2>3 DEF prepareSeedTarget, Claims
        <3>2. pending # NoPending
            BY <1>p DEF Stages
        <3> HIDE DEF pending
        <3>3. HasPending(row')
            BY <1>0, <3>1, <3>2 DEF HasPending, Row
        <3> QED BY <1>0, <1>r, <3>1, <3>3, LocalsOf DEF RowRests, Explained, HasPending
    <2> QED BY <2>1, <2>2, <2>3
<1>4. CASE recoverPendingSeed(c) \/ recoverWithoutReceipt(c) \/ recoverOverdueSeed(c)
    <2>1. /\ UNCHANGED <<row, lease, txs, rearms>> /\ Explained /\ RowRests
          /\ \/ call'[c].pc \in {"recordSeed", "recordPending"}
             \/ call'[c].pc = "rearm"
        <3>1. UNCHANGED <<row, lease, txs, rearms>> /\ call[c].pc = "recover"
            BY <1>4 DEF recoverPendingSeed, recoverWithoutReceipt, recoverOverdueSeed
        <3>2. CASE recoverOverdueSeed(c)
            BY <1>0, <1>t, <3>1, <3>2, LocalsOf DEF recoverOverdueSeed, RowRests
        <3>3. CASE recoverPendingSeed(c) \/ recoverWithoutReceipt(c)
            <4>1. \/ call' = [call EXCEPT ![c] = RecoveredEvidence(c)]
                  \/ GoTo(c, "rearm") \/ GoTo(c, "recordPending")
                BY <3>3, Zenon DEF recoverPendingSeed, recoverWithoutReceipt
            <4>2. CASE call' = [call EXCEPT ![c] = RecoveredEvidence(c)]
                BY <1>0, <1>t, <3>1, <4>2, LocalsOf DEF RowRests
            <4>3. CASE GoTo(c, "rearm")
                BY <1>0, <1>t, <3>1, <4>3, LocalsOf DEF RowRests
            <4>4. CASE GoTo(c, "recordPending")
                BY <1>0, <1>t, <3>1, <4>4, LocalsOf DEF RowRests
            <4> QED BY <4>1, <4>2, <4>3, <4>4
        <3> QED BY <1>4, <3>2, <3>3
    <2>2. Explained'
        BY <2>1 DEF Explained, IsSeeded, HasPending
    <2> QED BY <1>q, <1>r, <2>1, <2>2 DEF Attempting
<1>5. CASE rearmPendingSeed(c)
    <2>1. CASE IsSeeded(row)
        BY <1>0, <1>5, <1>q, <2>1, LocalsOf DEF rearmPendingSeed, Attempting, RowRests
    <2>2. CASE ~IsSeeded(row) /\ HasPending(row)
        BY <1>0, <1>5, <1>q, <2>2, LocalsOf DEF rearmPendingSeed, Attempting, RowRests, GivesUp
    <2>3. CASE ~IsSeeded(row) /\ ~HasPending(row)
        <3>1. /\ call' = [call EXCEPT ![c] = Ready(c, NoPending)]
              /\ UNCHANGED <<row, lease, txs, rearms>>
            BY <1>0, <1>5, <2>3 DEF rearmPendingSeed, GivesUp
        <3>2. rearms > 0
            BY <1>5, <1>t, <2>3 DEF rearmPendingSeed, Explained
        <3> QED BY <1>0, <1>n, <1>s, <3>1, <3>2, LocalsOf DEF Attempting, Claiming
    <2> QED BY <2>1, <2>2, <2>3
<1>6. CASE checkStakeBefore(c)
    <2> DEFINE pc == IF onchainStake > 0 THEN "recordFailure" ELSE "allowance"
    <2>1. /\ call' = [call EXCEPT ![c] = [call[c] EXCEPT !.before = onchainStake, !.pc = pc]]
          /\ At(c, "checkStake") /\ UNCHANGED <<row, lease, txs, rearms>>
        BY <1>6 DEF checkStakeBefore
    <2>2. pc \in {"recordFailure", "allowance"}
        OBVIOUS
    <2> HIDE DEF pc
    <2>3. call'[c].pc = pc /\ call'[c].seen = call[c].seen
        BY <1>0, <2>1 DEF Locals
    <2>4. CASE pc = "recordFailure"
        BY <1>q, <2>1, <2>3, <2>4 DEF Attempting, RowRests
    <2>5. CASE pc = "allowance"
        BY <1>s, <1>u, <2>1, <2>3, <2>5 DEF Attempting, Claiming
    <2> QED BY <2>2, <2>4, <2>5
<1>7. CASE ensureAllowance(c)
    <2>1. /\ call'[c].pc = "broadcast" /\ call'[c].seen = call[c].seen /\ call[c].pc = "allowance"
          /\ UNCHANGED <<row, lease, txs, rearms>>
        BY <1>0, <1>7, LocalsOf DEF ensureAllowance
    <2> QED BY <1>s, <1>u, <2>1 DEF Attempting, Claiming
<1>8. CASE beginSeedBroadcast(c)
    <2>1. /\ UNCHANGED <<row, lease, txs, rearms>>
          /\ call'[c].pc \in {"recordSeed", "recordPending", "recordFailure"}
        <3>1. \/ Go(c, WithSeed(c, row)) /\ row' = row /\ txs' = txs
              \/ Go(c, WithPending(c, "recordPending", row.pending)) /\ row' = row /\ txs' = txs
              \/ GoTo(c, "recordFailure") /\ row' = row /\ txs' = txs
            BY <1>8 DEF beginSeedBroadcast, Sends
        <3>2. call'[c].pc \in {"recordSeed", "recordPending", "recordFailure"}
            <4>1. CASE Go(c, WithSeed(c, row))
                BY <1>0, <4>1, LocalsOf
            <4>2. CASE Go(c, WithPending(c, "recordPending", row.pending))
                BY <1>0, <4>2, LocalsOf
            <4>3. CASE GoTo(c, "recordFailure")
                BY <1>0, <4>3, LocalsOf
            <4> QED BY <3>1, <4>1, <4>2, <4>3
        <3>3. UNCHANGED <<lease, rearms>>
            BY <1>8 DEF beginSeedBroadcast
        <3> QED BY <3>1, <3>2, <3>3
    <2> QED BY <1>q, <2>1 DEF Attempting, RowRests
<1>9. CASE awaitReceipt(c)
    <2> DEFINE ev == [amount |-> Amount, tx |-> call[c].tx]
    <2>1. \/ Go(c, [call[c] EXCEPT !.pc = "recordSeed", !.stake = onchainStake, !.ev = ev])
          \/ GoTo(c, "recordFailure")
        BY <1>9, Zenon DEF awaitReceipt
    <2> HIDE DEF ev
    <2>2. call'[c].pc \in {"recordSeed", "recordFailure"}
        <3>1. CASE GoTo(c, "recordFailure")
            BY <1>0, <3>1, LocalsOf
        <3>2. CASE Go(c, [call[c] EXCEPT !.pc = "recordSeed", !.stake = onchainStake, !.ev = ev])
            <4> DEFINE stake == onchainStake
            <4> HIDE DEF stake
            <4>1. [call[c] EXCEPT !.pc = "recordSeed", !.stake = stake, !.ev = ev].pc = "recordSeed"
                BY <1>0 DEF Locals
            <4> QED BY <1>0, <3>2, <4>1 DEF stake
        <3> QED BY <2>1, <3>1, <3>2
    <2> QED BY <1>9, <1>q, <2>2 DEF awaitReceipt, Attempting, RowRests
<1>10. CASE persistSeed(c)
    <2>1. call[c].ev.tx # None
        BY <1>10 DEF persistSeed, LocalsFit
    <2>2. IsSeeded(WithEvidence(c))
        BY <2>1 DEF IsSeeded, WithEvidence
    <2>3. RowRests /\ call'[c].pc = "idle"
        BY <1>0, <1>10, <2>2, LocalsOf DEF persistSeed, RowRests
    <2> QED BY <1>10, <1>q, <2>3 DEF persistSeed, Attempting
<1>11. CASE persistPending(c)
    <2>1. call[c].seen # NoPending
        BY <1>11 DEF persistPending, LocalsFit
    <2>2. RowRests /\ call'[c].pc = "idle"
        BY <1>0, <1>11, <2>1, LocalsOf DEF persistPending, WritesPending, RowRests, HasPending, Row
    <2> QED BY <1>11, <1>q, <2>2 DEF persistPending, WritesPending, Attempting
<1>12. CASE persistFailure(c)
    <2>1. PendingSeed("failed", Amount, call[c].tx) # NoPending
        BY <1>p DEF Stages
    <2>2. RowRests /\ call'[c].pc = "mark"
        BY <1>0, <1>12, <2>1, LocalsOf DEF persistFailure, WritesPending, RowRests, HasPending, Row
    <2> QED BY <1>12, <1>q, <2>2 DEF persistFailure, WritesPending, Attempting
<1>13. CASE markStakeSeedPending(c)
    <2> DEFINE pending == IF ~HasPending(row) THEN PendingSeed("failed", 0, None)
                          ELSE IF row.pending.stage = "awaiting_tx_hash"
                               THEN [row.pending EXCEPT !.stage = "failed"] ELSE row.pending
    <2>1. row' = row \/ row' = [row EXCEPT !.pending = pending]
        BY <1>0, <1>13 DEF markStakeSeedPending
    <2>2. pending # NoPending
        <3>1. CASE ~HasPending(row)
            BY <1>p, <3>1 DEF Stages
        <3>2. CASE HasPending(row) /\ row.pending.stage = "awaiting_tx_hash"
            <4>1. row.pending \in Pending
                BY <1>0 DEF Row
            <4>2. [row.pending EXCEPT !.stage = "failed"].stage = "failed"
                BY <3>2, <4>1 DEF Pending, HasPending
            <4> QED BY <1>n, <3>2, <4>2
        <3>3. CASE HasPending(row) /\ row.pending.stage # "awaiting_tx_hash"
            BY <3>3 DEF HasPending
        <3> QED BY <3>1, <3>2, <3>3
    <2> HIDE DEF pending
    <2>3. RowRests /\ call'[c].pc = "idle"
        BY <1>0, <1>13, <2>1, <2>2, LocalsOf DEF markStakeSeedPending, RowRests, HasPending, Row
    <2> QED BY <1>13, <1>q, <2>3 DEF markStakeSeedPending, Attempting
<1> QED BY <1>2, <1>3, <1>4, <1>5, <1>6, <1>7, <1>8, <1>9, <1>10, <1>11, <1>12, <1>13
        DEF Request

LEMMA ClaimKeepsChances ==
    ASSUME SeedAssumption, TypeOK, ChancesShared, NEW c \in Calls, Claims(c)
    PROVE  ChancesShared'
<1> USE DEF chainVars, counters, history, Go
<1> DEFINE pending == PendingSeed("awaiting_tx_hash", Amount, None)
           n == Cardinality(Answered)  y == One(Retry)
<1>0. /\ call[c] \in Locals /\ call \in [Calls -> Locals] /\ row \in Row /\ n \in Nat
      /\ rearms \in Nat
    BY AnsweredIsFinite DEF TypeOK, SeedAssumption
<1>1. /\ row' = [row EXCEPT !.pending = pending] /\ lease = FALSE /\ lease' = TRUE
      /\ call' = [call EXCEPT ![c] = Ready(c, pending)]
      /\ UNCHANGED <<txs, rearms, excused>>
    BY DEF Claims, prepareSeedTarget, TypeOK
<1>2. pending.stage = "awaiting_tx_hash" /\ pending # NoPending
    BY DEF PendingSeed, NoPending
<1> HIDE DEF pending
<1>3. HasPending(row') /\ ~Retry' /\ Explained'
    BY <1>0, <1>1, <1>2 DEF HasPending, Row, Retry, Explained
<1>4. ~SomeClaim /\ \A d \in Calls : ~Claiming(d)
    BY <1>1 DEF ChancesShared, OneClaim, SomeClaim
<1>5. \A d \in Calls \ {c} : call'[d] = call[d]
    BY <1>0, <1>1
<1>6. call'[c].pc = "checkStake" /\ call'[c].seen = pending
    BY <1>0, <1>1, LocalsOf
<1>7. \A d \in Calls : Claiming(d)' => d = c
    BY <1>4, <1>5 DEF Claiming
<1>8. RetriesAfterRearm'
    <2>1. ASSUME NEW d \in Calls
          PROVE  /\ call'[d].pc \in Attempting /\ call'[d].seen = NoPending => rearms' > 0
                 /\ call'[d].pc \in {"recover", "rearm"} => Explained'
        <3>1. CASE d = c
            BY <1>2, <1>6, <3>1
        <3>2. CASE d # c
            BY <1>1, <1>3, <1>5, <3>2 DEF ChancesShared, RetriesAfterRearm
        <3> QED BY <3>1, <3>2
    <2> QED BY <2>1 DEF RetriesAfterRearm
<1>9. OneClaim'
    BY <1>1, <1>7 DEF OneClaim
<1>10. ChancesCounted'
    <2>1. n + 0 + y <= 0 + rearms /\ y \in 0 .. 1
        BY <1>1, <1>4 DEF ChancesShared, ChancesCounted, One
    <2>2. /\ One(SomeClaim)' \in 0 .. 1 /\ One(Retry)' = 0 /\ One(lease)' = 1
          /\ Cardinality(Answered)' = n
        BY <1>1, <1>3 DEF One, Answered
    <2> DEFINE nx == One(SomeClaim)'
    <2> HIDE DEF n, y, nx
    <2>3. n + nx + 0 <= 1 + rearms
        BY <1>0, <2>1, <2>2 DEF nx
    <2> QED BY <1>1, <2>2, <2>3 DEF ChancesCounted, nx, n
<1> QED BY <1>8, <1>9, <1>10 DEF ChancesShared

LEMMA GivingUpKeepsChances ==
    ASSUME SeedAssumption, TypeOK, ChancesShared, NEW c \in Calls, LocalsFit(call[c]), GivesUp(c),
           rearms' < MaxRearms
    PROVE  ChancesShared'
<1> USE DEF chainVars, counters, history, Go, At
<1> DEFINE n == Cardinality(Answered)  x == One(SomeClaim)  nx == One(SomeClaim)'  l == One(lease)
<1>0. /\ call[c] \in Locals /\ call \in [Calls -> Locals] /\ row \in Row /\ n \in Nat
      /\ rearms \in 0 .. MaxRearms /\ MaxRearms \in Nat
    BY AnsweredIsFinite DEF TypeOK, SeedAssumption
<1>1. /\ call' = [call EXCEPT ![c] = Ready(c, NoPending)] /\ UNCHANGED <<txs, lease, excused>>
      /\ rearms' = rearms + 1 /\ rearms' > 0
    BY <1>0 DEF GivesUp, rearmPendingSeed
<1>2. HasPending(row)
    BY DEF GivesUp, rearmPendingSeed, LocalsFit, HasPending
<1>3. ~Retry /\ Explained'
    BY <1>1, <1>2 DEF Retry, Explained
<1>4. \A d \in Calls \ {c} : call'[d] = call[d]
    BY <1>0, <1>1
<1>5. call'[c].pc = "checkStake" /\ call'[c].seen = NoPending
    BY <1>0, <1>1, LocalsOf
<1>6. \A d \in Calls : Claiming(d)' => Claiming(d)
    BY <1>4, <1>5 DEF Claiming, NoPending
<1>7. SomeClaim' => SomeClaim
    BY <1>6 DEF SomeClaim
<1>8. RetriesAfterRearm'
    BY <1>1, <1>3 DEF RetriesAfterRearm
<1>9. OneClaim'
    BY <1>1, <1>6, <1>7 DEF ChancesShared, OneClaim
<1>10. ChancesCounted'
    <2>1. /\ x \in 0 .. 1 /\ nx \in 0 .. 1 /\ nx <= x /\ l \in 0 .. 1 /\ l = One(lease)'
          /\ One(Retry) = 0 /\ One(Retry)' \in 0 .. 1 /\ Cardinality(Answered)' = n
        BY <1>1, <1>3, <1>7 DEF One, Answered
    <2>2. n + x + 0 <= l + rearms
        BY <2>1 DEF ChancesShared, ChancesCounted
    <2> DEFINE ny == One(Retry)'
    <2> HIDE DEF n, x, nx, l, ny
    <2>3. n + nx + ny <= l + (rearms + 1)
        BY <1>0, <2>1, <2>2 DEF ny
    <2> QED BY <1>1, <2>1, <2>3 DEF ChancesCounted, nx, ny
<1> QED BY <1>8, <1>9, <1>10 DEF ChancesShared

LEMMA SendingKeepsChances ==
    ASSUME SeedAssumption, TypeOK, ChancesShared, NEW c \in Calls, LocalsFit(call[c]), Sends(c)
    PROVE  ChancesShared'
<1> USE DEF chainVars, counters, history, Go, At
<1> DEFINE pending == PendingSeed("broadcasted", Amount, Len(txs'))
           n == Cardinality(Answered)  m == Cardinality(Answered)'  l == One(lease)
<1>0. /\ call[c] \in Locals /\ call \in [Calls -> Locals] /\ row \in Row /\ n \in Nat
      /\ txs \in Seq(Statuses) /\ rearms \in Nat /\ MaxTxs \in Nat
      /\ Len(txs) \in Nat
    BY LenProperties, AnsweredIsFinite DEF TypeOK, SeedAssumption, Statuses
<1>1. /\ call' = [call EXCEPT ![c] =
                     [call[c] EXCEPT !.pc = "receipt", !.tx = Len(txs'), !.seen = pending]]
      /\ row' = [row EXCEPT !.pending = pending]
      /\ txs' = Append(txs, "inflight") /\ UNCHANGED <<lease, rearms, excused>>
      /\ call[c].pc = "broadcast" /\ MayBroadcast(c)
    <2>1. Len(txs) # MaxTxs /\ ~IsSeeded(row)
        BY <1>0 DEF Sends, MayBroadcast
    <2> QED BY <2>1 DEF Sends, beginSeedBroadcast
<1>2. m \in Nat /\ m <= n + 1
    <2>1. DOMAIN txs' = DOMAIN txs \cup {Len(txs) + 1}
        BY <1>0, <1>1, AppendProperties, LenProperties DEF Statuses
    <2>2. Answered' \subseteq Answered \cup {Len(txs) + 1}
        BY <1>1, <2>1 DEF Answered
    <2>3. IsFiniteSet(Answered)
        BY AnsweredIsFinite
    <2>4. /\ IsFiniteSet(Answered \cup {Len(txs) + 1})
          /\ Cardinality(Answered \cup {Len(txs) + 1}) \in {n, n + 1}
        BY <2>3, FS_AddElement
    <2>5. IsFiniteSet(Answered') /\ m <= Cardinality(Answered \cup {Len(txs) + 1})
        BY <2>2, <2>4, FS_Subset
    <2>6. m \in Nat
        BY <2>5, FS_CardinalityType
    <2> HIDE DEF n, m
    <2>7. m <= n + 1
        <3>1. n \in Nat
            BY <1>0
        <3> QED BY <2>4, <2>5, <2>6, <3>1
    <2> QED BY <2>6, <2>7
<1>3. pending # NoPending
    BY DEF PendingSeed, NoPending
<1> HIDE DEF pending
<1>4. HasPending(row') /\ ~Retry' /\ Explained'
    BY <1>0, <1>1, <1>3 DEF HasPending, Row, Retry, Explained
<1>5. \A d \in Calls \ {c} : call'[d] = call[d]
    BY <1>0, <1>1
<1>6. call'[c].pc = "receipt"
    BY <1>0, <1>1 DEF Locals
<1>7. \A d \in Calls : Claiming(d)' => d # c /\ Claiming(d)
    BY <1>5, <1>6 DEF Claiming, Attempting
<1>8. SomeClaim' => SomeClaim
    BY <1>7 DEF SomeClaim
<1>9. One(SomeClaim)' + 1 <= One(SomeClaim) + One(Retry)
    <2>1. CASE call[c].seen.stage = "awaiting_tx_hash"
        <3>1. Claiming(c)
            BY <1>1, <2>1 DEF Claiming, Attempting
        <3>2. SomeClaim /\ ~SomeClaim'
            BY <1>7, <3>1 DEF SomeClaim, ChancesShared, OneClaim
        <3>3. One(SomeClaim)' = 0 /\ One(SomeClaim) = 1 /\ One(Retry) \in 0 .. 1
            BY <3>2 DEF One
        <3> QED BY <3>3
    <2>2. CASE call[c].seen.stage # "awaiting_tx_hash"
        <3>1. call[c].seen = NoPending
            BY <1>1, <2>2 DEF LocalsFit, Attempting
        <3>2. rearms > 0
            BY <1>1, <3>1 DEF ChancesShared, RetriesAfterRearm, Attempting
        <3>3. Retry
            BY <1>1, <2>2, <3>2 DEF Retry, MayBroadcast, CanUseAwaitingLease
        <3>4. One(Retry) = 1 /\ One(SomeClaim)' <= One(SomeClaim)
              /\ One(SomeClaim) \in 0 .. 1 /\ One(SomeClaim)' \in 0 .. 1
            BY <1>8, <3>3 DEF One
        <3> DEFINE x == One(SomeClaim)  nx == One(SomeClaim)'  y == One(Retry)
        <3> HIDE DEF x, nx, y
        <3>5. nx + 1 <= x + y
            BY <3>4 DEF x, nx, y
        <3> QED BY <3>5 DEF x, nx, y
    <2> QED BY <2>1, <2>2
<1>10. RetriesAfterRearm'
    <2>1. ASSUME NEW d \in Calls
          PROVE  /\ call'[d].pc \in Attempting /\ call'[d].seen = NoPending => rearms' > 0
                 /\ call'[d].pc \in {"recover", "rearm"} => Explained'
        <3>1. CASE d = c
            BY <1>6, <3>1 DEF Attempting
        <3>2. CASE d # c
            BY <1>1, <1>4, <1>5, <3>2 DEF ChancesShared, RetriesAfterRearm
        <3> QED BY <3>1, <3>2
    <2> QED BY <2>1 DEF RetriesAfterRearm
<1>11. OneClaim'
    BY <1>1, <1>7, <1>8 DEF ChancesShared, OneClaim
<1>12. ChancesCounted'
    <2> DEFINE x == One(SomeClaim)  y == One(Retry)  nx == One(SomeClaim)'
    <2>1. /\ x \in 0 .. 1 /\ nx \in 0 .. 1 /\ y \in 0 .. 1 /\ l \in 0 .. 1 /\ l = One(lease)'
          /\ One(Retry)' = 0 /\ nx + 1 <= x + y
        BY <1>1, <1>4, <1>9 DEF One
    <2>2. n + x + y <= l + rearms
        BY DEF ChancesShared, ChancesCounted
    <2> HIDE DEF n, m, x, nx, l, y
    <2>3. m + nx + 0 <= l + rearms
        BY <1>0, <1>2, <2>1, <2>2
    <2> QED BY <1>1, <2>1, <2>3 DEF ChancesCounted, nx, m
<1> QED BY <1>10, <1>11, <1>12 DEF ChancesShared

LEMMA ChancesAtFirst == SeedAssumption /\ Init => LocalsInv /\ ChanceInv
<1> SUFFICES ASSUME SeedAssumption, Init PROVE LocalsInv /\ ChanceInv
    OBVIOUS
<1>1. \A c \in Calls : call[c].pc = "idle"
    BY DEF Init, NoLocals
<1>2. LocalsInv /\ ~SomeClaim /\ \A c \in Calls : ~Claiming(c)
    BY <1>1 DEF LocalsInv, LocalsFit, Attempting, SomeClaim, Claiming
<1>3. Cardinality(Answered) = 0 /\ rearms = 0 /\ ~Retry
    <2>1. txs = <<>> /\ rearms = 0 /\ lease = FALSE
        BY DEF Init
    <2>2. Cardinality(Answered) = 0
        <3>1. Answered = {}
            BY <2>1, EmptySeq DEF Answered
        <3> QED BY <3>1, FS_EmptySet
    <2>3. ~(rearms > 0)
        BY <2>1
    <2> QED BY <2>1, <2>2, <2>3, Zenon DEF Retry
<1>4. One(SomeClaim) = 0 /\ One(Retry) = 0 /\ One(lease) \in 0 .. 1
    BY <1>2, <1>3 DEF One
<1>5. ChancesCounted
    BY <1>3, <1>4 DEF ChancesCounted
<1> QED BY <1>1, <1>2, <1>5 DEF ChanceInv, ChancesShared, RetriesAfterRearm, OneClaim, Attempting

LEMMA ChancesAreKept ==
    ASSUME SeedAssumption, Writers = {}, TypeOK, LocalsInv, ChanceInv, [Next]_vars
    PROVE  ChanceInv'
<1> USE DEF chainVars, counters, history, Go, GoTo
<1> SUFFICES ASSUME rearms' < MaxRearms PROVE ChancesShared'
    BY DEF ChanceInv
<1>0. ChancesShared
    BY RearmsGrow DEF ChanceInv
<1>a. /\ call \in [Calls -> Locals] /\ (\A c \in Calls : LocalsFit(call[c]))
      /\ txs \in Seq(Statuses)
    BY DEF TypeOK, LocalsInv, Statuses
<1>1. ASSUME NEW c \in Calls, Request(c) PROVE ChancesShared'
    <2>1. CASE Claims(c)
        BY <1>0, <2>1, ClaimKeepsChances
    <2>2. CASE GivesUp(c)
        BY <1>0, <1>a, <2>2, GivingUpKeepsChances
    <2>3. CASE Sends(c)
        BY <1>0, <1>a, <2>3, SendingKeepsChances
    <2>4. CASE ~Claims(c) /\ ~GivesUp(c) /\ ~Sends(c)
        <3>1. CalmStep(c)
            BY <1>0, <1>1, <1>a, <2>4, RequestIsCalm DEF ChancesShared
        <3> QED BY <1>0, <3>1, CalmStepKeepsChances
    <2> QED BY <2>1, <2>2, <2>3, <2>4
<1>2. ASSUME NEW c \in Calls, Fault(c) PROVE ChancesShared'
    <2>1. call'[c].pc \in {"recordFailure", "mark", "idle"}
        BY <1>a, <1>2 DEF Fault, AfterFault, Locals
    <2>2. UNCHANGED <<row, lease, txs, rearms, excused>>
        BY <1>2 DEF Fault
    <2>3. RowRests
        BY <2>2 DEF RowRests
    <2>4. \A d \in Calls \ {c} : call'[d] = call[d]
        BY <1>2, <1>a, OthersRest
    <2>5. CalmStep(c)
        BY <2>1, <2>2, <2>3, <2>4, CalmRow DEF CalmStep, Claiming, Attempting, Answered
    <2> QED BY <1>0, <2>5, CalmStepKeepsChances
<1>3. ASSUME NEW c \in Calls, broadcastAnswerLost(c) PROVE ChancesShared'
    <2>1. call'[c].pc = "recordFailure"
        BY <1>a, <1>3 DEF broadcastAnswerLost, Locals
    <2>2. UNCHANGED <<row, lease, rearms>> /\ Answered' = Answered
        BY <1>3, LostIsNotAnswered DEF broadcastAnswerLost
    <2>3. RowRests
        BY <2>2 DEF RowRests
    <2>4. \A d \in Calls \ {c} : call'[d] = call[d]
        BY <1>3, <1>a, OthersRest
    <2>5. CalmStep(c)
        BY <2>1, <2>2, <2>3, <2>4, CalmRow DEF CalmStep, Claiming, Attempting
    <2> QED BY <1>0, <2>5, CalmStepKeepsChances
<1>4. CASE \E i \in DOMAIN txs, status \in {"mined", "reverted", "dropped"} : Settle(i, status)
    <2>1. UNCHANGED <<row, lease, call, rearms>>
        BY <1>4 DEF Settle
    <2>2. Answered' = Answered
        BY <1>4 DEF Settle, Answered
    <2>3. (SomeClaim' => SomeClaim) /\ (Retry' => Retry)
        BY <2>1 DEF SomeClaim, Claiming, Retry, IsSeeded, HasPending
    <2>4. ChancesCounted'
        BY <1>0, <2>1, <2>2, <2>3, CalmChances DEF ChancesShared
    <2> QED BY <1>0, <2>1, <2>4 DEF ChancesShared, RetriesAfterRearm, OneClaim, Explained, IsSeeded,
               HasPending, SomeClaim, Claiming
<1>5. CASE Crash
    <2>1. Answered' = Answered /\ UNCHANGED <<row, lease, rearms>>
        BY <1>5, LostIsNotAnswered DEF Crash, Answered
    <2>2. \A c \in Calls : call'[c].pc = "idle"
        BY <1>5 DEF Crash, NoLocals
    <2>3. ~SomeClaim' /\ (\A c \in Calls : ~Claiming(c)') /\ (Retry' => Retry)
        BY <2>1, <2>2 DEF SomeClaim, Claiming, Attempting, Retry, IsSeeded, HasPending
    <2>4. ChancesCounted'
        BY <1>0, <2>1, <2>3, CalmChances DEF ChancesShared
    <2> QED BY <2>2, <2>3, <2>4 DEF ChancesShared, RetriesAfterRearm, OneClaim, Attempting
<1>6. CASE UNCHANGED vars \/ \E stake \in OwnStakes : restake(stake)
    <2>1. UNCHANGED <<row, lease, call, rearms, txs>> /\ Answered' = Answered
        <3>1. CASE UNCHANGED vars
            BY <3>1 DEF vars, Answered
        <3>2. CASE \E stake \in OwnStakes : restake(stake)
            <4>1. PICK stake \in OwnStakes : restake(stake)
                BY <3>2
            <4>2. "lost" \in Reasons \ {"spent"} /\ "spent" \in Reasons
                BY DEF Reasons
            <4>3. (IF stake = 0 THEN TxWith("mined") ELSE {}) \in SUBSET Nat
                BY SeedsAreNumbered
            <4>4. excused'["lost"] = excused["lost"]
                BY <4>1, <4>2, <4>3, ExcusesAreTyped DEF restake, TypeOK
            <4> QED BY <4>1, <4>4 DEF restake, Answered
        <3> QED BY <1>6, <3>1, <3>2
    <2>2. (SomeClaim' <=> SomeClaim) /\ (Retry' <=> Retry)
        BY <2>1 DEF SomeClaim, Claiming, Retry, IsSeeded, HasPending
    <2>3. ChancesCounted'
        BY <1>0, <2>1, <2>2, CalmChances DEF ChancesShared
    <2> QED BY <1>0, <2>1, <2>2, <2>3 DEF ChancesShared, RetriesAfterRearm, OneClaim, Explained,
               IsSeeded, HasPending, Claiming
<1> QED BY <1>1, <1>2, <1>3, <1>4, <1>5, <1>6 DEF Next

(* Any number of requests for one agent share the broadcasts: one for the  *)
(* lock key and one for each pending record that was given up, but for     *)
(* those whose answer is lost and while nobody saves the row without a lock. *)
THEOREM BroadcastsAreShared ==
    ASSUME SeedAssumption, Writers = {}
    PROVE  Spec => []OneBroadcastPerChance
<1>1. Init => TypeOK /\ LocalsInv /\ ChanceInv
    BY TypesAtFirst, ChancesAtFirst
<1>2. TypeOK /\ LocalsInv /\ ChanceInv /\ [Next]_vars => (TypeOK /\ LocalsInv /\ ChanceInv)'
    BY TypesAreKept, LocalsAreKept, ChancesAreKept
<1>3. TypeOK /\ ChanceInv => OneBroadcastPerChance
    <2> SUFFICES ASSUME TypeOK, ChanceInv, rearms < MaxRearms
                 PROVE  Cardinality(Answered) <= 1 + rearms
        BY DEF OneBroadcastPerChance, Answered
    <2> DEFINE n == Cardinality(Answered)  x == One(SomeClaim)  y == One(Retry)  l == One(lease)
    <2>1. n + x + y <= l + rearms
        BY DEF ChanceInv, ChancesShared, ChancesCounted
    <2>2. n \in Nat /\ rearms \in Nat /\ x \in 0 .. 1 /\ y \in 0 .. 1 /\ l \in 0 .. 1
        BY AnsweredIsFinite DEF TypeOK, SeedAssumption, One
    <2> HIDE DEF n, x, y, l
    <2>3. n <= 1 + rearms
        BY <2>1, <2>2
    <2> QED BY <2>3 DEF n
<1> QED BY <1>1, <1>2, <1>3, PTL DEF Spec

-----------------------------------------------------------------------------
(* Transfers. *)

LEMMA RequestSends ==
    ASSUME TypeOK, SeedAssumption, NEW c \in Calls, Request(c), ~Sends(c)
    PROVE  txs' = txs
BY DEF chainVars, Sends, Request, ensureRegistrationStakeSeed, prepareSeedTarget,
   recoverPendingSeed, recoverWithoutReceipt, recoverOverdueSeed, rearmPendingSeed,
   checkStakeBefore, ensureAllowance, beginSeedBroadcast, awaitReceipt, persistSeed,
   persistPending, persistFailure, WritesPending, markStakeSeedPending

LEMMA Sent ==
    ASSUME SeedAssumption, TypeOK, NEW c \in Calls, Sends(c)
    PROVE  /\ ~IsSeeded(row) /\ MayBroadcast(c) /\ call[c].pc = "broadcast"
           /\ txs' = Append(txs, "inflight") /\ Len(txs') = Len(txs) + 1
           /\ row' = [row EXCEPT !.pending = PendingSeed("broadcasted", Amount, Len(txs'))]
           /\ call' = [call EXCEPT ![c] =
                  [call[c] EXCEPT !.pc = "receipt", !.tx = Len(txs'),
                                  !.seen = PendingSeed("broadcasted", Amount, Len(txs'))]]
           /\ excused' = excused
<1>1. Len(txs) \in Nat /\ MaxTxs \in Nat /\ txs \in Seq(Statuses)
    BY SeedsAreNumbered DEF SeedAssumption
<1>2. Len(txs) # MaxTxs /\ ~IsSeeded(row)
    BY <1>1 DEF Sends, MayBroadcast
<1>3. /\ txs' = Append(txs, "inflight")
      /\ row' = [row EXCEPT !.pending = PendingSeed("broadcasted", Amount, Len(txs'))]
      /\ call' = [call EXCEPT ![c] =
             [call[c] EXCEPT !.pc = "receipt", !.tx = Len(txs'),
                             !.seen = PendingSeed("broadcasted", Amount, Len(txs'))]]
      /\ excused' = excused /\ call[c].pc = "broadcast" /\ MayBroadcast(c)
    BY <1>2 DEF Sends, beginSeedBroadcast, Go, At, history
<1>4. Len(txs') = Len(txs) + 1
    BY <1>1, <1>3, AppendProperties DEF Statuses
<1> QED BY <1>2, <1>3, <1>4

LEMMA Went ==
    ASSUME NEW c \in Calls, call \in [Calls -> Locals]
    PROVE  /\ \A pc : GoTo(c, pc) => call'[c].pc = pc /\ call'[c].seen = call[c].seen
                                     /\ call'[c].tx = call[c].tx
           /\ Go(c, RecoveredEvidence(c)) => call'[c].pc = "recordSeed"
           /\ \A locals : Go(c, locals) => call'[c] = locals
<1>1. \A locals : Go(c, locals) => call'[c] = locals
    BY DEF Go
<1>2. ASSUME NEW pc, GoTo(c, pc)
      PROVE  call'[c].pc = pc /\ call'[c].seen = call[c].seen /\ call'[c].tx = call[c].tx
    BY <1>2, LocalsOf DEF Go, GoTo
<1>3. Go(c, RecoveredEvidence(c)) => call'[c].pc = "recordSeed"
    BY <1>1, LocalsOf
<1> QED BY <1>1, <1>2, <1>3

LEMMA FieldsOfPending ==
    /\ NoPending.tx = None /\ NoPending.stage = "none"
    /\ \A stage, amount, tx : /\ PendingSeed(stage, amount, tx).tx = tx
                              /\ PendingSeed(stage, amount, tx).stage = stage
BY DEF NoPending, PendingSeed

(* A pending record without a broadcast has no hash, and every hash that   *)
(* is on record or in a request's hands is of a seed that was sent.        *)
Known(pending, sent) ==
    /\ pending.stage = "awaiting_tx_hash" => pending.tx = None
    /\ pending.tx \in 0 .. sent

HashInv ==
    /\ Known(row.pending, Len(txs))
    /\ \A c \in Calls : Known(call[c].seen, Len(txs)) /\ call[c].tx \in 0 .. Len(txs)

LEMMA FailedIsKnown ==
    ASSUME NEW pending \in Pending, NEW sent, Known(pending, sent)
    PROVE  /\ Known([pending EXCEPT !.stage = "failed"], sent)
           /\ [pending EXCEPT !.stage = "failed"].tx = pending.tx
BY DEF Known, Pending, NoPending

(* What a request leaves in the row and takes along. *)
LEMMA RequestKnows ==
    ASSUME SeedAssumption, TypeOK, HashInv, NEW c \in Calls, Request(c), ~Sends(c)
    PROVE  /\ Known(row'.pending, Len(txs))
           /\ Known(call'[c].seen, Len(txs)) /\ call'[c].tx \in 0 .. Len(txs)
<1> USE DEF chainVars, counters, history, Go, GoTo, At
<1> DEFINE n == Len(txs)
<1>0. /\ call[c] \in Locals /\ call \in [Calls -> Locals] /\ row \in Row /\ n \in Nat
      /\ row.pending \in Pending
    BY LenProperties DEF TypeOK, Row
<1>1. /\ Known(row.pending, n) /\ Known(call[c].seen, n) /\ call[c].tx \in 0 .. n
    BY DEF HashInv
<1>n. Known(NoPending, n) /\ None \in 0 .. n
    BY <1>0, FieldsOfPending DEF Known, None
<1>p. /\ \A stage, amount : Known(PendingSeed(stage, amount, None), n)
      /\ \A amount : Known(PendingSeed("failed", amount, call[c].tx), n)
    BY <1>1, <1>n, FieldsOfPending DEF Known
<1> HIDE DEF n
<1>f. ASSUME NEW pending, Known(pending, n), row' = row \/ row' = [row EXCEPT !.pending = pending]
      PROVE  Known(row'.pending, n)
    BY <1>0, <1>1, <1>f DEF Row
<1>a. ASSUME NEW pc, GoTo(c, pc) PROVE Known(call'[c].seen, n) /\ call'[c].tx \in 0 .. n
    BY <1>0, <1>1, <1>a, LocalsOf
<1>b. ASSUME \/ Go(c, WithSeed(c, row)) \/ Go(c, RecoveredEvidence(c))
             \/ \E pc : Go(c, WithPending(c, pc, row.pending))
             \/ Go(c, Ready(c, NoPending))
      PROVE  Known(call'[c].seen, n) /\ call'[c].tx \in 0 .. n
    <2>1. CASE Go(c, WithSeed(c, row))
        BY <1>0, <1>1, <2>1, LocalsOf
    <2>2. CASE Go(c, RecoveredEvidence(c))
        BY <1>0, <1>1, <2>2, LocalsOf
    <2>3. CASE \E pc : Go(c, WithPending(c, pc, row.pending))
        BY <1>0, <1>1, <2>3, LocalsOf
    <2>4. CASE Go(c, Ready(c, NoPending))
        BY <1>0, <1>1, <1>n, <2>4, LocalsOf
    <2> QED BY <1>b, <2>1, <2>2, <2>3, <2>4
<1> SUFFICES /\ Known(row'.pending, n)
             /\ Known(call'[c].seen, n) /\ call'[c].tx \in 0 .. n
    BY DEF n
<1>2. CASE ensureRegistrationStakeSeed(c)
    <2>1. call'[c] = [NoLocals EXCEPT !.pc = "prepare"] /\ row' = row
        BY <1>0, <1>2 DEF ensureRegistrationStakeSeed
    <2>2. call'[c].seen = NoPending /\ call'[c].tx = None
        BY <2>1 DEF NoLocals
    <2> QED BY <1>1, <1>n, <2>1, <2>2
<1>3. CASE prepareSeedTarget(c)
    <2>1. CASE IsSeeded(row) \/ HasPending(row)
        BY <1>1, <1>3, <1>b, <2>1 DEF prepareSeedTarget
    <2>2. CASE ~IsSeeded(row) /\ ~HasPending(row)
        <3> DEFINE stage == IF lease THEN "failed" ELSE "awaiting_tx_hash"
                   pending == PendingSeed(stage, Amount, None)
        <3>1. /\ row' = [row EXCEPT !.pending = pending]
              /\ \/ Go(c, WithPending(c, "recover", pending)) \/ Go(c, Ready(c, pending))
            BY <1>3, <2>2 DEF prepareSeedTarget
        <3>2. Known(pending, n)
            BY <1>p
        <3> HIDE DEF pending
        <3>3. call'[c].seen = pending /\ call'[c].tx = call[c].tx
            BY <1>0, <3>1, LocalsOf
        <3> QED BY <1>1, <1>f, <3>1, <3>2, <3>3
    <2> QED BY <2>1, <2>2
<1>4. CASE recoverPendingSeed(c) \/ recoverWithoutReceipt(c) \/ recoverOverdueSeed(c)
    <2>1. row' = row /\ (Go(c, RecoveredEvidence(c)) \/ \E pc : GoTo(c, pc))
        BY <1>4, Zenon DEF recoverPendingSeed, recoverWithoutReceipt, recoverOverdueSeed
    <2> QED BY <1>1, <1>a, <1>b, <2>1
<1>5. CASE rearmPendingSeed(c)
    <2>1. \/ Go(c, WithSeed(c, row)) \/ Go(c, WithPending(c, "recordPending", row.pending))
          \/ Go(c, Ready(c, NoPending))
        BY <1>5 DEF rearmPendingSeed
    <2>2. row' = row \/ row' = [row EXCEPT !.pending = NoPending]
        BY <1>5 DEF rearmPendingSeed
    <2> QED BY <1>b, <1>f, <1>n, <2>1, <2>2
<1>6. CASE checkStakeBefore(c)
    <2> DEFINE pc == IF onchainStake > 0 THEN "recordFailure" ELSE "allowance"
               stake == onchainStake
    <2>1. call'[c] = [call[c] EXCEPT !.before = stake, !.pc = pc] /\ row' = row
        BY <1>0, <1>6 DEF checkStakeBefore
    <2> HIDE DEF pc, stake
    <2>2. call'[c].seen = call[c].seen /\ call'[c].tx = call[c].tx
        BY <1>0, <2>1 DEF Locals
    <2> QED BY <1>1, <2>1, <2>2
<1>7. CASE ensureAllowance(c)
    BY <1>1, <1>7, <1>a DEF ensureAllowance
<1>8. CASE beginSeedBroadcast(c)
    <2>1. /\ row' = row
          /\ \/ Go(c, WithSeed(c, row)) \/ Go(c, WithPending(c, "recordPending", row.pending))
             \/ GoTo(c, "recordFailure")
        BY <1>8 DEF beginSeedBroadcast, Sends
    <2> QED BY <1>1, <1>a, <1>b, <2>1
<1>9. CASE awaitReceipt(c)
    <2> DEFINE ev == [amount |-> Amount, tx |-> call[c].tx]
               stake == onchainStake
    <2>1. /\ row' = row
          /\ \/ call' = [call EXCEPT ![c] =
                            [call[c] EXCEPT !.pc = "recordSeed", !.stake = stake, !.ev = ev]]
             \/ GoTo(c, "recordFailure")
        BY <1>9, Zenon DEF awaitReceipt
    <2> HIDE DEF ev, stake
    <2>2. /\ [call[c] EXCEPT !.pc = "recordSeed", !.stake = stake, !.ev = ev].seen = call[c].seen
          /\ [call[c] EXCEPT !.pc = "recordSeed", !.stake = stake, !.ev = ev].tx = call[c].tx
        BY <1>0 DEF Locals
    <2> QED BY <1>0, <1>1, <1>a, <2>1, <2>2
<1>10. CASE persistSeed(c)
    <2>1. WithEvidence(c).pending \in {NoPending, row.pending}
        BY DEF WithEvidence
    <2>2. Known(WithEvidence(c).pending, n)
        BY <1>1, <1>n, <2>1
    <2>3. row' = row \/ row' = WithEvidence(c)
        BY <1>10 DEF persistSeed
    <2> QED BY <1>1, <1>10, <1>a, <2>2, <2>3 DEF persistSeed
<1>11. CASE persistPending(c)
    BY <1>1, <1>11, <1>a, <1>f DEF persistPending, WritesPending
<1>12. CASE persistFailure(c)
    BY <1>12, <1>a, <1>f, <1>p DEF persistFailure, WritesPending
<1>13. CASE markStakeSeedPending(c)
    <2>1. Known([row.pending EXCEPT !.stage = "failed"], n)
        BY <1>0, <1>1, FailedIsKnown
    <2>2. \E pending \in {PendingSeed("failed", 0, None), [row.pending EXCEPT !.stage = "failed"],
                          row.pending} :
              row' = row \/ row' = [row EXCEPT !.pending = pending]
        BY <1>13 DEF markStakeSeedPending
    <2>3. GoTo(c, "idle")
        BY <1>13 DEF markStakeSeedPending
    <2> QED BY <1>1, <1>a, <1>f, <1>p, <2>1, <2>2, <2>3
<1> QED BY <1>2, <1>3, <1>4, <1>5, <1>6, <1>7, <1>8, <1>9, <1>10, <1>11, <1>12, <1>13
        DEF Request

LEMMA MoreIsKnown ==
    ASSUME TypeOK, HashInv, [Next]_vars, SeedAssumption
    PROVE  /\ Len(txs) \in Nat /\ Len(txs') \in Nat /\ Len(txs) <= Len(txs')
           /\ \A pending : Known(pending, Len(txs)) => Known(pending, Len(txs'))
           /\ \A tx : tx \in 0 .. Len(txs) => tx \in 0 .. Len(txs')
<1>1. txs \in Seq(Statuses) /\ Len(txs) \in Nat
    BY SeedsAreNumbered
<1>2. Len(txs') \in Nat /\ Len(txs) <= Len(txs')
    <2>1. CASE txs' = txs
        BY <1>1, <2>1
    <2>2. CASE txs' = Append(txs, "inflight")
        BY <1>1, <2>2, AppendProperties DEF Statuses
    <2>3. CASE \E i \in DOMAIN txs, status \in {"mined", "reverted", "dropped"} :
                   txs[i] = "inflight" /\ txs' = [txs EXCEPT ![i] = status]
        BY <1>1, <2>3, ExceptSeq, LenProperties DEF Statuses
    <2> QED BY <2>1, <2>2, <2>3, SentStays
<1> QED BY <1>1, <1>2 DEF Known

LEMMA HashesAreKept ==
    ASSUME SeedAssumption, Writers = {}, TypeOK, HashInv, [Next]_vars
    PROVE  HashInv'
<1> USE DEF chainVars, counters, history, Go, GoTo
<1>0. call \in [Calls -> Locals] /\ row \in Row /\ None \in 0 .. Len(txs')
    BY MoreIsKnown DEF TypeOK, None
<1>a. /\ Known(row.pending, Len(txs'))
      /\ \A c \in Calls : Known(call[c].seen, Len(txs')) /\ call[c].tx \in 0 .. Len(txs')
    BY MoreIsKnown DEF HashInv
<1>1. ASSUME NEW c \in Calls, Request(c), ~Sends(c) PROVE HashInv'
    <2>1. /\ Known(row'.pending, Len(txs'))
          /\ Known(call'[c].seen, Len(txs')) /\ call'[c].tx \in 0 .. Len(txs')
        BY <1>1, RequestKnows, MoreIsKnown
    <2>2. \A d \in Calls \ {c} : call'[d] = call[d]
        BY <1>0, <1>1, OthersRest
    <2> QED BY <1>a, <2>1, <2>2 DEF HashInv
<1>2. ASSUME NEW c \in Calls, Sends(c) PROVE HashInv'
    <2> DEFINE pending == PendingSeed("broadcasted", Amount, Len(txs'))
    <2>1. /\ row' = [row EXCEPT !.pending = pending]
          /\ call' = [call EXCEPT ![c] =
                 [call[c] EXCEPT !.pc = "receipt", !.tx = Len(txs'), !.seen = pending]]
        BY <1>2, Sent
    <2>2. Known(pending, Len(txs')) /\ Len(txs') \in 0 .. Len(txs')
        BY MoreIsKnown, FieldsOfPending DEF Known
    <2> HIDE DEF pending
    <2>3. row'.pending = pending /\ call'[c].seen = pending /\ call'[c].tx = Len(txs')
        BY <1>0, <2>1 DEF Row, Locals
    <2>4. \A d \in Calls \ {c} : call'[d] = call[d]
        BY <1>0, <2>1
    <2> QED BY <1>a, <2>2, <2>3, <2>4 DEF HashInv
<1>3. ASSUME NEW c \in Calls, Fault(c) \/ broadcastAnswerLost(c) PROVE HashInv'
    <2>1. row' = row /\ \E pc : GoTo(c, pc)
        <3>1. ASSUME Fault(c) PROVE row' = row /\ \E pc : GoTo(c, pc)
            BY <3>1, Zenon DEF Fault
        <3>2. ASSUME broadcastAnswerLost(c) PROVE row' = row /\ \E pc : GoTo(c, pc)
            BY <3>2, Zenon DEF broadcastAnswerLost
        <3> QED BY <1>3, <3>1, <3>2
    <2>2. call'[c].seen = call[c].seen /\ call'[c].tx = call[c].tx
        BY <1>0, <2>1, LocalsOf
    <2>3. \A d \in Calls \ {c} : call'[d] = call[d]
        BY <1>0, <1>3, OthersRest
    <2> QED BY <1>a, <2>1, <2>2, <2>3 DEF HashInv
<1>4. CASE Crash
    <2>1. row' = row /\ \A c \in Calls : call'[c].seen = NoPending /\ call'[c].tx = None
        BY <1>4 DEF Crash, NoLocals
    <2>2. Known(NoPending, Len(txs'))
        BY <1>0, FieldsOfPending DEF Known
    <2> QED BY <1>0, <1>a, <2>1, <2>2 DEF HashInv
<1>5. CASE \/ \E i \in DOMAIN txs, status \in {"mined", "reverted", "dropped"} : Settle(i, status)
           \/ \E stake \in OwnStakes : restake(stake)
           \/ UNCHANGED vars
    <2>1. UNCHANGED <<row, call>>
        <3>1. CASE \E i \in DOMAIN txs, status \in {"mined", "reverted", "dropped"} :
                       Settle(i, status)
            BY <3>1 DEF Settle
        <3>2. CASE \E stake \in OwnStakes : restake(stake)
            BY <3>2 DEF restake
        <3>3. CASE UNCHANGED vars
            BY <3>3 DEF vars
        <3> QED BY <1>5, <3>1, <3>2, <3>3
    <2> QED BY <1>a, <2>1 DEF HashInv
<1> QED BY <1>1, <1>2, <1>3, <1>4, <1>5 DEF Next

(* A seed that counts and the only one, and none.                          *)
OnlyCounts(tx) == \A i \in DOMAIN txs : Counts(i) => i = tx
NoneCounts == \A i \in DOMAIN txs : ~Counts(i)

LEMMA ExcusesGrow ==
    ASSUME SeedAssumption, TypeOK, [Next]_vars
    PROVE  \A reason \in Reasons : excused[reason] \subseteq excused'[reason]
<1>0. excused \in [Reasons -> SUBSET Nat]
    BY DEF TypeOK
<1>a. ASSUME NEW reason \in Reasons, NEW seeds \in SUBSET Nat, Excuse(reason, seeds)
      PROVE  \A other \in Reasons : excused[other] \subseteq excused'[other]
    BY <1>0, <1>a, ExcusesAreTyped
<1>b. {} \in SUBSET Nat
    OBVIOUS
<1>l. txs' = Append(txs, "inflight") => {Len(txs')} \in SUBSET Nat
    BY SeedsAreNumbered, AppendProperties DEF Statuses
<1>1. ASSUME NEW c \in Calls, Request(c)
      PROVE  \A reason \in Reasons : excused[reason] \subseteq excused'[reason]
    BY <1>1, <1>a, <1>b, RequestExcuses, ReasonsAreFour
<1>2. ASSUME NEW c \in Calls, Fault(c) \/ broadcastAnswerLost(c)
      PROVE  \A reason \in Reasons : excused[reason] \subseteq excused'[reason]
    BY <1>2, <1>a, <1>l, ReasonsAreFour DEF Fault, broadcastAnswerLost
<1>3. CASE \E i \in DOMAIN txs, status \in {"mined", "reverted", "dropped"} : Settle(i, status)
    BY <1>3 DEF Settle
<1>4. CASE Crash
    BY <1>4, <1>a, <1>l, ReasonsAreFour DEF Crash
<1>5. CASE \E w \in Writers : readProfile(w) \/ saveProfile(w)
    BY <1>5 DEF readProfile, saveProfile, history
<1>6. ASSUME NEW stake \in OwnStakes, restake(stake)
      PROVE  \A reason \in Reasons : excused[reason] \subseteq excused'[reason]
    <2>1. (IF stake = 0 THEN TxWith("mined") ELSE {}) \in SUBSET Nat
        BY SeedsAreNumbered
    <2> QED BY <1>6, <1>a, <2>1, ReasonsAreFour DEF restake
<1>7. CASE UNCHANGED vars
    BY <1>7 DEF vars, history
<1> QED BY <1>1, <1>2, <1>3, <1>4, <1>5, <1>6, <1>7 DEF Next

(* Nothing that no longer counts comes to count again. *)
LEMMA CountingShrinks ==
    ASSUME SeedAssumption, TypeOK, [Next]_vars
    PROVE  \A i \in DOMAIN txs : i \in DOMAIN txs' /\ (Counts(i)' => Counts(i))
<1>1. txs \in Seq(Statuses) /\ DOMAIN txs = 1 .. Len(txs) /\ Len(txs) \in Nat
    BY SeedsAreNumbered
<1>2. \A i \in DOMAIN txs : i \in DOMAIN txs' /\ (InPlay(i)' => InPlay(i))
    <2>1. CASE txs' = txs
        BY <2>1 DEF InPlay
    <2>2. CASE txs' = Append(txs, "inflight")
        BY <1>1, <2>2, AppendProperties, LenProperties DEF Statuses, InPlay
    <2>3. CASE \E i \in DOMAIN txs, status \in {"mined", "reverted", "dropped"} :
                   txs[i] = "inflight" /\ txs' = [txs EXCEPT ![i] = status]
        BY <2>3 DEF InPlay
    <2> QED BY <2>1, <2>2, <2>3, SentStays
<1> QED BY <1>2, ExcusesGrow DEF Counts

(* A seed comes to count by a broadcast that is answered, and by nothing   *)
(* else.                                                                   *)
LEMMA OnlySendingCounts ==
    ASSUME SeedAssumption, TypeOK, [Next]_vars, \A c \in Calls : ~Sends(c),
           NEW i \in DOMAIN txs', Counts(i)'
    PROVE  i \in DOMAIN txs /\ Counts(i)
<1>1. txs \in Seq(Statuses) /\ DOMAIN txs = 1 .. Len(txs) /\ Len(txs) \in Nat
    BY SeedsAreNumbered
<1> SUFFICES i \in DOMAIN txs
    BY CountingShrinks
<1> SUFFICES ASSUME i \notin DOMAIN txs PROVE FALSE
    OBVIOUS
<1>2. txs' = Append(txs, "inflight") /\ i = Len(txs')
    <2>1. DOMAIN txs' # DOMAIN txs
        OBVIOUS
    <2>2. txs' = Append(txs, "inflight")
        BY <2>1, SentStays
    <2> QED BY <1>1, <2>2, AppendProperties, LenProperties DEF Statuses
<1>3. Excuse("lost", {Len(txs')})
    <2> USE DEF chainVars
    <2>1. txs' # txs
        OBVIOUS
    <2>2. CASE \E c \in Calls : Request(c)
        BY <2>1, <2>2, RequestSends
    <2>3. CASE \E c \in Calls : Fault(c) \/ broadcastAnswerLost(c)
        BY <2>1, <2>3 DEF Fault, broadcastAnswerLost
    <2>4. CASE \E k \in DOMAIN txs, status \in {"mined", "reverted", "dropped"} :
                   Settle(k, status)
        <3>1. DOMAIN txs' = DOMAIN txs
            BY <2>4 DEF Settle
        <3> QED BY <3>1
    <2>5. CASE Crash
        BY <2>1, <2>5 DEF Crash
    <2>6. CASE \E w \in Writers : readProfile(w) \/ saveProfile(w)
        BY <2>1, <2>6 DEF readProfile, saveProfile
    <2>7. CASE \E stake \in OwnStakes : restake(stake)
        BY <2>1, <2>7 DEF restake
    <2>8. CASE UNCHANGED vars
        BY <2>1, <2>8 DEF vars
    <2> QED BY <2>2, <2>3, <2>4, <2>5, <2>6, <2>7, <2>8 DEF Next
<1>4. {Len(txs')} \in SUBSET Nat
    BY <1>1, <1>2, AppendProperties DEF Statuses
<1>5. i \in excused'["lost"]
    BY <1>2, <1>3, <1>4, ExcusesAreTyped, ReasonsAreFour DEF TypeOK
<1> QED BY <1>5, ReasonsAreFour DEF Counts

(* A seed that counts is the one in the row's pending record; what a       *)
(* request is about to give up does not count; and an agent without stake  *)
(* has spent all that was mined.                                           *)
GivenUp(l) == l.pc = "rearm" /\ l.seen.tx \in DOMAIN txs => ~Counts(l.seen.tx)
SpentInv == onchainStake = 0 => TxWith("mined") \subseteq excused["spent"]

CountInv ==
    /\ SpentInv
    /\ SeedsOnce
    /\ ~IsSeeded(row) => OnlyCounts(row.pending.tx)
    /\ \A c \in Calls : GivenUp(call[c])

LEMMA SpentIsKept ==
    ASSUME SeedAssumption, TypeOK, SpentInv, [Next]_vars
    PROVE  SpentInv'
<1> SUFFICES ASSUME onchainStake' = 0, NEW i \in DOMAIN txs', txs'[i] = "mined"
             PROVE  i \in excused'["spent"]
    BY DEF SpentInv, TxWith
<1>0. /\ txs \in Seq(Statuses) /\ DOMAIN txs = 1 .. Len(txs) /\ Len(txs) \in Nat
      /\ onchainStake \in Nat /\ Amount \in Nat /\ Amount # 0
    BY SeedsAreNumbered DEF SeedAssumption, TypeOK
<1>a. ASSUME txs' = txs \/ txs' = Append(txs, "inflight")
      PROVE  i \in DOMAIN txs /\ txs[i] = "mined"
    BY <1>0, <1>a, AppendProperties, LenProperties DEF Statuses
<1>b. ASSUME txs' = txs \/ txs' = Append(txs, "inflight"), onchainStake' = onchainStake
      PROVE  i \in excused'["spent"]
    BY <1>a, <1>b, ExcusesGrow, ReasonsAreFour DEF SpentInv, TxWith
<1> USE DEF chainVars
<1>1. CASE \E c \in Calls : Request(c)
    BY <1>1, <1>b, RequestKeepsTypes
<1>2. CASE \E c \in Calls : Fault(c) \/ broadcastAnswerLost(c)
    BY <1>2, <1>b DEF Fault, broadcastAnswerLost
<1>3. ASSUME NEW k \in DOMAIN txs, NEW status \in {"mined", "reverted", "dropped"},
             Settle(k, status)
      PROVE  i \in excused'["spent"]
    <2>1. status # "mined" /\ onchainStake = 0
        BY <1>0, <1>3 DEF Settle
    <2>2. i \in DOMAIN txs /\ txs[i] = "mined"
        BY <1>3, <2>1 DEF Settle
    <2> QED BY <2>1, <2>2, ExcusesGrow, ReasonsAreFour DEF SpentInv, TxWith
<1>4. CASE Crash
    BY <1>4, <1>b DEF Crash
<1>5. CASE \E w \in Writers : readProfile(w) \/ saveProfile(w)
    BY <1>5, <1>b DEF readProfile, saveProfile
<1>6. ASSUME NEW stake \in OwnStakes, restake(stake) PROVE i \in excused'["spent"]
    <2>1. stake = 0 /\ txs' = txs
        BY <1>6 DEF restake
    <2>2. TxWith("mined") \in SUBSET Nat /\ i \in TxWith("mined")
        BY <2>1, SeedsAreNumbered DEF TxWith
    <2>3. Excuse("spent", TxWith("mined"))
        BY <1>6, <2>1 DEF restake
    <2> QED BY <2>2, <2>3, ExcusesAreTyped, ReasonsAreFour DEF TypeOK
<1>7. CASE UNCHANGED vars
    BY <1>7, <1>b DEF vars
<1> QED BY <1>1, <1>2, <1>3, <1>4, <1>5, <1>6, <1>7 DEF Next

LEMMA NoHashCounts ==
    ASSUME TypeOK, OnlyCounts(None)
    PROVE  NoneCounts
BY SeedsAreNumbered DEF OnlyCounts, NoneCounts

LEMMA NoneIsAny == ASSUME NoneCounts, NEW tx PROVE OnlyCounts(tx)
BY DEF NoneCounts, OnlyCounts

(* Whoever gives a pending record up has seen that its seed does not count, *)
(* or excuses it: it has reverted, was dropped, was never sent, is spent or *)
(* overdue.                                                                *)
LEMMA GivenUpIsNot ==
    ASSUME SeedAssumption, TypeOK, SpentInv, NEW c \in Calls, Request(c), call'[c].pc = "rearm"
    PROVE  GivenUp(call[c])' /\ row' = row /\ call'[c].seen = call[c].seen
<1> USE DEF chainVars, counters, history
<1>0. /\ call[c] \in Locals /\ call \in [Calls -> Locals] /\ txs \in Seq(Statuses)
      /\ excused \in [Reasons -> SUBSET Nat]
    BY DEF TypeOK, Statuses
<1>g. /\ \A pc : GoTo(c, pc) => call'[c].pc = pc /\ call'[c].seen = call[c].seen
      /\ Go(c, RecoveredEvidence(c)) => call'[c].pc = "recordSeed"
      /\ \A locals : Go(c, locals) => call'[c] = locals
    BY <1>0, Went
<1>1. recoverPendingSeed(c) \/ recoverOverdueSeed(c)
    <2>1. ASSUME recoverWithoutReceipt(c) PROVE FALSE
        BY <1>g, <2>1 DEF recoverWithoutReceipt
    <2>2. ASSUME persistSeed(c) \/ persistPending(c) \/ persistFailure(c) \/ markStakeSeedPending(c)
                 \/ ensureAllowance(c)
          PROVE  FALSE
        <3>1. GoTo(c, "idle") \/ GoTo(c, "mark") \/ GoTo(c, "broadcast")
            BY <2>2, Zenon DEF persistSeed, persistPending, persistFailure,
               markStakeSeedPending, ensureAllowance
        <3> QED BY <1>g, <3>1
    <2>3. ASSUME ensureRegistrationStakeSeed(c) PROVE FALSE
        BY <1>0, <2>3 DEF ensureRegistrationStakeSeed, Go, NoLocals
    <2>4. ASSUME prepareSeedTarget(c) \/ rearmPendingSeed(c) PROVE FALSE
        BY <1>0, <2>4, LocalsOf DEF prepareSeedTarget, rearmPendingSeed, Go
    <2>5. ASSUME checkStakeBefore(c) PROVE FALSE
        <3> DEFINE stake == onchainStake
                   pc == IF onchainStake > 0 THEN "recordFailure" ELSE "allowance"
        <3>1. call'[c] = [call[c] EXCEPT !.before = stake, !.pc = pc] /\ pc # "rearm"
            BY <1>0, <2>5 DEF checkStakeBefore, Go
        <3> HIDE DEF stake, pc
        <3> QED BY <1>0, <3>1 DEF Locals
    <2>6. ASSUME beginSeedBroadcast(c) PROVE FALSE
        <3> DEFINE pending == PendingSeed("broadcasted", Amount, Len(txs'))
        <3>1. \/ Go(c, WithSeed(c, row)) \/ Go(c, WithPending(c, "recordPending", row.pending))
              \/ GoTo(c, "recordFailure")
              \/ Go(c, [call[c] EXCEPT !.pc = "receipt", !.tx = Len(txs'), !.seen = pending])
            BY <2>6, Zenon DEF beginSeedBroadcast
        <3> HIDE DEF pending
        <3>2. ASSUME Go(c, [call[c] EXCEPT !.pc = "receipt", !.tx = Len(txs'), !.seen = pending])
              PROVE  call'[c].pc = "receipt"
            BY <1>0, <3>2 DEF Locals, Go
        <3> QED BY <1>0, <1>g, <3>1, <3>2, LocalsOf
    <2>7. ASSUME awaitReceipt(c) PROVE FALSE
        <3> DEFINE ev == [amount |-> Amount, tx |-> call[c].tx]
                   stake == onchainStake
        <3>1. \/ Go(c, [call[c] EXCEPT !.pc = "recordSeed", !.stake = stake, !.ev = ev])
              \/ GoTo(c, "recordFailure")
            BY <2>7, Zenon DEF awaitReceipt
        <3> HIDE DEF ev, stake
        <3>2. ASSUME Go(c, [call[c] EXCEPT !.pc = "recordSeed", !.stake = stake, !.ev = ev])
              PROVE  call'[c].pc = "recordSeed"
            BY <1>0, <3>2 DEF Locals, Go
        <3> QED BY <1>g, <3>1, <3>2
    <2> QED BY <2>1, <2>2, <2>3, <2>4, <2>5, <2>6, <2>7 DEF Request
<1>2. GoTo(c, "rearm") /\ row' = row /\ txs' = txs
    <2>1. CASE recoverOverdueSeed(c)
        BY <2>1 DEF recoverOverdueSeed
    <2>2. CASE recoverPendingSeed(c)
        <3>1. ASSUME Go(c, RecoveredEvidence(c)) \/ GoTo(c, "recordPending") PROVE FALSE
            BY <1>g, <3>1
        <3> QED BY <2>2, <3>1 DEF recoverPendingSeed
    <2> QED BY <1>1, <2>1, <2>2
<1>3. call'[c].seen = call[c].seen
    BY <1>g, <1>2
<1>4. ASSUME NEW tx \in DOMAIN txs, tx = call[c].seen.tx, Counts(tx)' PROVE FALSE
    <2>1. Receipt(tx) = txs[tx] /\ txs[tx] \in {"inflight", "mined"}
        BY <1>2, <1>4 DEF Receipt, Counts, InPlay
    <2>2. CASE recoverOverdueSeed(c)
        <3>1. {i \in {tx} : InPlay(i)} \in SUBSET Nat /\ tx \in {i \in {tx} : InPlay(i)}
            BY <1>4, <2>1, SeedsAreNumbered DEF InPlay
        <3>2. Excuse("overdue", {i \in {tx} : InPlay(i)})
            BY <1>4, <2>2 DEF recoverOverdueSeed
        <3>3. tx \in excused'["overdue"]
            BY <1>0, <3>1, <3>2, ExcusesAreTyped, ReasonsAreFour
        <3> QED BY <1>4, <3>3, ReasonsAreFour DEF Counts
    <2>3. CASE recoverPendingSeed(c)
        <3>1. txs[tx] = "mined" /\ onchainStake = 0
            <4>1. ASSUME Go(c, RecoveredEvidence(c)) \/ GoTo(c, "recordPending") PROVE FALSE
                BY <1>g, <4>1
            <4>2. Receipt(tx) # "reverted" /\ Receipt(tx) # "none"
                BY <2>1
            <4> QED BY <1>4, <2>1, <2>3, <4>1, <4>2 DEF recoverPendingSeed
        <3>2. tx \in excused["spent"] /\ excused' = excused
            BY <1>4, <2>3, <3>1 DEF SpentInv, TxWith, recoverPendingSeed
        <3> QED BY <1>4, <3>2, ReasonsAreFour DEF Counts
    <2> QED BY <1>1, <2>2, <2>3
<1>5. GivenUp(call[c])'
    BY <1>2, <1>3, <1>4 DEF GivenUp
<1> QED BY <1>2, <1>3, <1>5

(* Where the row's record is replaced, no seed counts, or the one that     *)
(* does is excused.                                                        *)
LEMMA RowFollows ==
    ASSUME SeedAssumption, TypeOK, HashInv, CountInv, NEW c \in Calls, Request(c), ~Sends(c),
           ~IsSeeded(row), ~IsSeeded(row'), LocalsFit(call[c]),
           NEW i \in DOMAIN txs, Counts(i), Counts(i)'
    PROVE  i = row'.pending.tx
<1> USE DEF chainVars, counters, history
<1>0. /\ row \in Row /\ row.pending \in Pending /\ excused \in [Reasons -> SUBSET Nat]
    BY DEF TypeOK, Row
<1>1. i = row.pending.tx
    BY DEF CountInv, OnlyCounts
<1>a. i # None /\ DOMAIN txs \subseteq Nat
    BY SeedsAreNumbered
<1>b. ASSUME row' = row PROVE i = row'.pending.tx
    BY <1>1, <1>b
<1>2. CASE \/ ensureRegistrationStakeSeed(c) \/ recoverPendingSeed(c) \/ recoverWithoutReceipt(c)
           \/ recoverOverdueSeed(c) \/ checkStakeBefore(c) \/ ensureAllowance(c)
           \/ awaitReceipt(c)
    BY <1>2, <1>b DEF ensureRegistrationStakeSeed, recoverPendingSeed, recoverWithoutReceipt,
       recoverOverdueSeed, checkStakeBefore, ensureAllowance, awaitReceipt
<1>3. CASE prepareSeedTarget(c)
    <2>1. HasPending(row)
        BY <1>1, <1>a, FieldsOfPending DEF HasPending
    <2> QED BY <1>3, <1>b, <2>1 DEF prepareSeedTarget
<1>4. CASE rearmPendingSeed(c)
    <2>1. ASSUME row.pending = call[c].seen PROVE FALSE
        <3>1. GivenUp(call[c]) /\ call[c].pc = "rearm"
            BY <1>4 DEF CountInv, rearmPendingSeed, At
        <3> QED BY <1>1, <2>1, <3>1 DEF GivenUp
    <2> QED BY <1>4, <1>b, <2>1 DEF rearmPendingSeed
<1>5. CASE beginSeedBroadcast(c)
    BY <1>5, <1>b DEF beginSeedBroadcast, Sends
<1>6. CASE persistSeed(c)
    <2>1. IsSeeded(row')
        BY <1>6 DEF persistSeed, LocalsFit, At, WithEvidence, IsSeeded
    <2> QED BY <2>1
<1>7. ASSUME NEW pending, WritesPending(pending) PROVE i = row'.pending.tx
    <2>1. row' = [row EXCEPT !.pending = pending] /\ Excuse("overwritten", Displaced(pending.tx))
        BY <1>7 DEF WritesPending
    <2>2. row'.pending = pending
        BY <1>0, <2>1 DEF Row
    <2>3. Displaced(pending.tx) \in SUBSET Nat
        BY <1>a DEF Displaced
    <2>4. i \notin Displaced(pending.tx)
        BY <1>0, <2>1, <2>3, ExcusesAreTyped, ReasonsAreFour DEF Counts
    <2> QED BY <1>1, <2>2, <2>4 DEF Displaced
<1>8. CASE persistPending(c) \/ persistFailure(c)
    BY <1>7, <1>8 DEF persistPending, persistFailure
<1>9. CASE markStakeSeedPending(c)
    <2>1. HasPending(row)
        BY <1>1, <1>a, FieldsOfPending DEF HasPending
    <2>2. row' = row \/ row' = [row EXCEPT !.pending = [row.pending EXCEPT !.stage = "failed"]]
        BY <1>0, <1>9, <2>1 DEF markStakeSeedPending, Row
    <2>3. [row.pending EXCEPT !.stage = "failed"].tx = row.pending.tx
        BY <1>0, FailedIsKnown DEF HashInv
    <2> QED BY <1>0, <1>1, <1>b, <2>2, <2>3 DEF Row
<1> QED BY <1>2, <1>3, <1>4, <1>5, <1>6, <1>8, <1>9 DEF Request

(* A broadcast is only made when no seed counts. *)
LEMMA SendersSeeNone ==
    ASSUME TypeOK, HashInv, CountInv, NEW c \in Calls, MayBroadcast(c)
    PROVE  NoneCounts
<1>1. ~IsSeeded(row) /\ OnlyCounts(row.pending.tx)
    BY DEF MayBroadcast, CountInv
<1>2. row.pending.tx = None
    <2>1. CASE HasPending(row)
        BY <2>1 DEF MayBroadcast, CanUseAwaitingLease, HashInv, Known
    <2>2. CASE ~HasPending(row)
        BY <2>2, FieldsOfPending DEF HasPending
    <2> QED BY <2>1, <2>2
<1> QED BY <1>1, <1>2, NoHashCounts

LEMMA SeedIsKept ==
    ASSUME Writers = {}, TypeOK, [Next]_vars, ~IsSeeded(row')
    PROVE  ~IsSeeded(row)
<1> SUFFICES ASSUME IsSeeded(row) PROVE row' = row \/ row'.seed = row.seed
    BY DEF IsSeeded
<1> QED BY SeedRests

LEMMA SendingCounts ==
    ASSUME SeedAssumption, TypeOK, HashInv, CountInv, [Next]_vars, NEW c \in Calls, Sends(c)
    PROVE  /\ \A i \in DOMAIN txs' : Counts(i)' => i = Len(txs')
           /\ row'.pending.tx = Len(txs')
<1>1. txs \in Seq(Statuses) /\ DOMAIN txs = 1 .. Len(txs) /\ Len(txs) \in Nat /\ row \in Row
    BY SeedsAreNumbered DEF TypeOK
<1>2. /\ txs' = Append(txs, "inflight") /\ MayBroadcast(c)
      /\ row' = [row EXCEPT !.pending = PendingSeed("broadcasted", Amount, Len(txs'))]
    BY Sent
<1>3. DOMAIN txs' = DOMAIN txs \cup {Len(txs')}
    BY <1>1, <1>2, AppendProperties, LenProperties DEF Statuses
<1>4. NoneCounts
    BY <1>2, SendersSeeNone
<1>5. ASSUME NEW i \in DOMAIN txs', Counts(i)' PROVE i = Len(txs')
    BY <1>3, <1>4, <1>5, CountingShrinks DEF NoneCounts
<1>6. row'.pending.tx = Len(txs')
    <2> DEFINE pending == PendingSeed("broadcasted", Amount, Len(txs'))
    <2>1. pending.tx = Len(txs')
        BY FieldsOfPending
    <2> HIDE DEF pending
    <2>2. row'.pending = pending
        BY <1>1, <1>2 DEF pending, Row
    <2> QED BY <2>1, <2>2
<1> QED BY <1>5, <1>6

LEMMA GivenUpStays ==
    ASSUME SeedAssumption, TypeOK, [Next]_vars,
           NEW l, GivenUp(l), l.seen.tx \in 0 .. Len(txs)
    PROVE  GivenUp(l)'
<1> SUFFICES ASSUME l.pc = "rearm", l.seen.tx \in DOMAIN txs' PROVE ~Counts(l.seen.tx)'
    BY DEF GivenUp
<1>1. DOMAIN txs = 1 .. Len(txs) /\ Len(txs) \in Nat
    BY SeedsAreNumbered
<1>2. DOMAIN txs' \subseteq Nat \ {0}
    <2>1. txs' \in Seq(Statuses)
        BY TypesAreKept DEF TypeOK, Statuses
    <2> QED BY <2>1, LenProperties
<1>3. l.seen.tx \in DOMAIN txs
    BY <1>1, <1>2
<1> QED BY <1>3, CountingShrinks DEF GivenUp

(* Every step keeps the seeds that count at one, the row's.                *)
LEMMA CountIsKept ==
    ASSUME SeedAssumption, Writers = {}, TypeOK, LocalsInv, HashInv, CountInv, [Next]_vars
    PROVE  CountInv'
<1> USE DEF chainVars, counters, history
<1>0. /\ call \in [Calls -> Locals] /\ \A c \in Calls : LocalsFit(call[c])
      /\ \A c \in Calls : GivenUp(call[c]) /\ call[c].seen.tx \in 0 .. Len(txs)
      /\ ~IsSeeded(row) => OnlyCounts(row.pending.tx)
    BY DEF TypeOK, LocalsInv, CountInv, HashInv, Known
<1>1. SpentInv'
    BY SpentIsKept DEF CountInv
<1>b. ~IsSeeded(row') => ~IsSeeded(row)
    BY SeedIsKept
<1>d. ASSUME NEW d \in Calls, call'[d] = call[d] PROVE GivenUp(call[d])'
    <2>1. ASSUME NEW l, l = call[d] PROVE GivenUp(l)'
        BY <1>0, <2>1, GivenUpStays
    <2> QED BY <1>d, <2>1 DEF GivenUp
<1>2. ASSUME NEW c \in Calls, Sends(c) PROVE CountInv'
    <2>1. (\A i \in DOMAIN txs' : Counts(i)' => i = Len(txs')) /\ row'.pending.tx = Len(txs')
        BY <1>2, SendingCounts
    <2>2. SeedsOnce' /\ OnlyCounts(row.pending.tx)'
        BY <2>1 DEF SeedsOnce, OnlyCounts
    <2>3. \A d \in Calls : call'[d] = call[d] \/ call'[d].pc = "receipt"
        <3> DEFINE pending == PendingSeed("broadcasted", Amount, Len(txs'))
        <3>1. call' = [call EXCEPT ![c] =
                  [call[c] EXCEPT !.pc = "receipt", !.tx = Len(txs'), !.seen = pending]]
            BY <1>2, Sent
        <3> HIDE DEF pending
        <3> QED BY <1>0, <3>1 DEF Locals
    <2>4. \A d \in Calls : GivenUp(call[d])'
        BY <1>d, <2>3 DEF GivenUp
    <2> QED BY <1>1, <2>2, <2>4 DEF CountInv
<1>3. ASSUME \A c \in Calls : ~Sends(c),
             ~IsSeeded(row') => \A i \in DOMAIN txs : Counts(i) /\ Counts(i)' => i = row'.pending.tx,
             \A d \in Calls : GivenUp(call[d])'
      PROVE  CountInv'
    <2>1. \A i \in DOMAIN txs' : Counts(i)' => i \in DOMAIN txs /\ Counts(i)
        BY <1>3, OnlySendingCounts
    <2>2. SeedsOnce'
        BY <2>1 DEF CountInv, SeedsOnce
    <2>3. ~IsSeeded(row)' => OnlyCounts(row.pending.tx)'
        BY <1>3, <2>1 DEF OnlyCounts, IsSeeded
    <2> QED BY <1>1, <1>3, <2>2, <2>3 DEF CountInv
<1>4. ASSUME \A c \in Calls : ~Sends(c), row' = row, \A d \in Calls : GivenUp(call[d])'
      PROVE  CountInv'
    BY <1>0, <1>3, <1>4 DEF OnlyCounts
<1>5. ASSUME \A c \in Calls : ~Sends(c), NEW c \in Calls, Request(c) PROVE CountInv'
    <2>1. ~IsSeeded(row') => \A i \in DOMAIN txs : Counts(i) /\ Counts(i)' => i = row'.pending.tx
        BY <1>0, <1>5, <1>b, RowFollows
    <2>2. \A d \in Calls \ {c} : call'[d] = call[d]
        BY <1>0, <1>5, OthersRest
    <2>3. GivenUp(call[c])'
        BY <1>5, GivenUpIsNot DEF CountInv, GivenUp
    <2> QED BY <1>3, <1>5, <1>d, <2>1, <2>2, <2>3
<1>6. ASSUME \A c \in Calls : ~Sends(c), NEW c \in Calls, Fault(c) \/ broadcastAnswerLost(c)
      PROVE  CountInv'
    <2>1. row' = row /\ call'[c].pc # "rearm"
        <3>1. CASE Fault(c)
            <4>1. GoTo(c, AfterFault(call[c].pc)) /\ AfterFault(call[c].pc) # "rearm" /\ row' = row
                BY <3>1 DEF Fault, AfterFault
            <4> QED BY <1>0, <4>1, Went
        <3>2. CASE broadcastAnswerLost(c)
            <4>1. GoTo(c, "recordFailure") /\ row' = row
                BY <3>2 DEF broadcastAnswerLost
            <4> QED BY <1>0, <4>1, Went
        <3> QED BY <1>6, <3>1, <3>2
    <2>2. \A d \in Calls \ {c} : call'[d] = call[d]
        BY <1>0, <1>6, OthersRest
    <2>3. GivenUp(call[c])'
        BY <2>1 DEF GivenUp
    <2> QED BY <1>4, <1>6, <1>d, <2>1, <2>2, <2>3
<1>7. ASSUME \A c \in Calls : ~Sends(c), UNCHANGED <<row, call>> PROVE CountInv'
    BY <1>4, <1>7, <1>d
<1>8. ASSUME \A c \in Calls : ~Sends(c), Crash PROVE CountInv'
    <2>1. row' = row /\ \A d \in Calls : call'[d].pc = "idle"
        BY <1>8 DEF Crash, NoLocals
    <2> QED BY <1>4, <1>8, <2>1 DEF GivenUp
<1>9. CASE \A c \in Calls : ~Sends(c)
    <2>1. CASE \E c \in Calls : Request(c) \/ Fault(c) \/ broadcastAnswerLost(c)
        BY <1>5, <1>6, <1>9, <2>1
    <2>2. CASE \E i \in DOMAIN txs, status \in {"mined", "reverted", "dropped"} : Settle(i, status)
        BY <1>7, <1>9, <2>2 DEF Settle
    <2>3. CASE \E stake \in OwnStakes : restake(stake)
        BY <1>7, <1>9, <2>3 DEF restake
    <2>4. CASE Crash
        BY <1>8, <1>9, <2>4
    <2>5. CASE UNCHANGED vars
        BY <1>7, <1>9, <2>5 DEF vars
    <2> QED BY <2>1, <2>2, <2>3, <2>4, <2>5 DEF Next
<1> QED BY <1>2, <1>9

LEMMA CountAtFirst == SeedAssumption /\ Init => HashInv /\ CountInv
<1> SUFFICES ASSUME SeedAssumption, Init PROVE HashInv /\ CountInv
    OBVIOUS
<1>1. txs = <<>> /\ DOMAIN txs = {} /\ Len(txs) = 0
    BY EmptySeq DEF Init
<1>2. \A c \in Calls : call[c] = NoLocals
    BY DEF Init
<1>3. Known(NoPending, 0) /\ None \in 0 .. 0
    BY FieldsOfPending DEF Known, None
<1>4. row.pending = NoPending
    BY DEF Init
<1>5. HashInv
    BY <1>1, <1>2, <1>3, <1>4 DEF HashInv, NoLocals
<1>6. CountInv
    BY <1>1, <1>2 DEF CountInv, SpentInv, SeedsOnce, OnlyCounts, GivenUp, TxWith, NoLocals
<1> QED BY <1>5, <1>6

(* However many requests for one agent race, fail, repeat and restart,     *)
(* AgentStakeSeedService has two transfers that count only when an answer  *)
(* was lost, a receipt overdue, a record overwritten by another request or *)
(* the agent's stake spent, as long as nobody saves the row without a lock. *)
THEOREM SeedsAreExplained ==
    ASSUME SeedAssumption, Writers = {}
    PROVE  Spec => []SeedsOnce
<1>1. Init => TypeOK /\ LocalsInv /\ HashInv /\ CountInv
    BY TypesAtFirst, ChancesAtFirst, CountAtFirst
<1>2. TypeOK /\ LocalsInv /\ HashInv /\ CountInv /\ [Next]_vars
          => (TypeOK /\ LocalsInv /\ HashInv /\ CountInv)'
    BY TypesAreKept, LocalsAreKept, HashesAreKept, CountIsKept
<1>3. CountInv => SeedsOnce
    BY DEF CountInv
<1> QED BY <1>1, <1>2, <1>3, PTL DEF Spec

(* A request that goes on to broadcast knows that no seed counts, one that *)
(* waits or failed has the hash of the one that does, and one that looks   *)
(* at a pending record looks at the one in the row.                        *)
FollowsCount(l, agent) ==
    /\ l.pc \in Attempting => NoneCounts
    /\ l.pc \in {"receipt", "recordFailure"} => OnlyCounts(l.tx)
    /\ l.pc \in {"recover", "rearm", "recordPending"} => l.seen = agent.pending

OneInv ==
    /\ NoneOverwritten
    /\ ~IsSeeded(row) => \A c \in Calls : FollowsCount(call[c], row)

LEMMA CountsRest ==
    ASSUME SeedAssumption, TypeOK, [Next]_vars, \A c \in Calls : ~Sends(c)
    PROVE  /\ NoneCounts => NoneCounts'
           /\ \A tx : OnlyCounts(tx) => OnlyCounts(tx)'
           /\ \A l, agent : FollowsCount(l, agent) => FollowsCount(l, agent)'
<1>1. NoneCounts => NoneCounts'
    BY OnlySendingCounts DEF NoneCounts
<1>2. ASSUME NEW tx, OnlyCounts(tx) PROVE OnlyCounts(tx)'
    BY <1>2, OnlySendingCounts DEF OnlyCounts
<1>3. ASSUME NEW l, NEW agent, FollowsCount(l, agent) PROVE FollowsCount(l, agent)'
    <2>1. OnlyCounts(l.tx) => OnlyCounts(l.tx)'
        BY <1>2
    <2> QED BY <1>1, <1>3, <2>1 DEF FollowsCount
<1> QED BY <1>1, <1>2, <1>3

LEMMA RequestFollowsCount ==
    ASSUME SeedAssumption, TypeOK, HashInv, CountInv, NEW c \in Calls, FollowsCount(call[c], row),
           Request(c), ~Sends(c), ~IsSeeded(row), ~IsSeeded(row')
    PROVE  FollowsCount(call'[c], row')
<1> USE DEF chainVars, counters, history, At
<1>0. call[c] \in Locals /\ call \in [Calls -> Locals] /\ row \in Row
    BY DEF TypeOK
<1>g. /\ \A pc : GoTo(c, pc) => call'[c].pc = pc /\ call'[c].seen = call[c].seen
                                /\ call'[c].tx = call[c].tx
      /\ Go(c, RecoveredEvidence(c)) => call'[c].pc = "recordSeed"
      /\ \A locals : Go(c, locals) => call'[c] = locals
    BY <1>0, Went
<1>q. ASSUME call'[c].pc \notin Attempting
                 \cup {"rearm", "receipt", "recordFailure", "recover", "recordPending"}
      PROVE  FollowsCount(call'[c], row')
    BY <1>q DEF FollowsCount
<1>r. ASSUME call'[c].pc \in {"recover", "rearm", "recordPending"}, call'[c].seen = row'.pending
      PROVE  FollowsCount(call'[c], row')
    BY <1>r DEF FollowsCount, Attempting
<1>s. ASSUME call'[c].pc \in Attempting \cup {"recordFailure"}, NoneCounts
      PROVE  FollowsCount(call'[c], row')
    BY <1>s, NoneIsAny DEF FollowsCount, Attempting
<1>u. /\ call[c].pc \in Attempting => NoneCounts
      /\ call[c].pc \in {"receipt", "recordFailure"} => OnlyCounts(call[c].tx)
      /\ call[c].pc \in {"recover", "rearm", "recordPending"} => call[c].seen = row.pending
      /\ OnlyCounts(row.pending.tx)
    BY DEF FollowsCount, CountInv
<1>2. CASE ensureRegistrationStakeSeed(c)
    <2>1. call'[c] = [NoLocals EXCEPT !.pc = "prepare"]
        BY <1>2, <1>g DEF ensureRegistrationStakeSeed
    <2> QED BY <1>q, <2>1 DEF NoLocals, Attempting
<1>3. CASE prepareSeedTarget(c)
    <2>1. CASE HasPending(row)
        <3>1. Go(c, WithPending(c, "recover", row.pending)) /\ row' = row
            BY <1>3, <2>1 DEF prepareSeedTarget
        <3> QED BY <1>0, <1>g, <1>r, <3>1, LocalsOf
    <2>2. CASE ~HasPending(row)
        <3> DEFINE stage == IF lease THEN "failed" ELSE "awaiting_tx_hash"
                   pending == PendingSeed(stage, Amount, None)
        <3>1. /\ row' = [row EXCEPT !.pending = pending]
              /\ \/ Go(c, WithPending(c, "recover", pending)) \/ Go(c, Ready(c, pending))
            BY <1>3, <2>2 DEF prepareSeedTarget
        <3>2. NoneCounts
            BY <1>u, <2>2, NoHashCounts, FieldsOfPending DEF HasPending
        <3> HIDE DEF pending
        <3>3. row'.pending = pending
            BY <1>0, <3>1 DEF Row
        <3>4. CASE Go(c, WithPending(c, "recover", pending))
            BY <1>0, <1>g, <1>r, <3>3, <3>4, LocalsOf
        <3>5. CASE Go(c, Ready(c, pending))
            BY <1>0, <1>g, <1>s, <3>2, <3>5, LocalsOf DEF Attempting
        <3> QED BY <3>1, <3>4, <3>5
    <2> QED BY <2>1, <2>2
<1>4. CASE recoverPendingSeed(c) \/ recoverWithoutReceipt(c) \/ recoverOverdueSeed(c)
    <2>1. /\ row' = row /\ call[c].pc = "recover"
          /\ \/ Go(c, RecoveredEvidence(c)) \/ GoTo(c, "rearm") \/ GoTo(c, "recordPending")
        BY <1>4, Zenon DEF recoverPendingSeed, recoverWithoutReceipt, recoverOverdueSeed
    <2> QED BY <1>g, <1>q, <1>r, <1>u, <2>1 DEF Attempting
<1>5. CASE rearmPendingSeed(c)
    <2>1. row.pending = call[c].seen /\ call[c].pc = "rearm"
        BY <1>5, <1>u DEF rearmPendingSeed
    <2>2. Go(c, Ready(c, NoPending))
        BY <1>5, <2>1 DEF rearmPendingSeed
    <2>3. NoneCounts
        <3>1. GivenUp(call[c])
            BY DEF CountInv
        <3> QED BY <1>u, <2>1, <3>1 DEF GivenUp, NoneCounts, OnlyCounts
    <2> QED BY <1>0, <1>g, <1>s, <2>2, <2>3, LocalsOf DEF Attempting
<1>6. CASE checkStakeBefore(c)
    <2> DEFINE stake == onchainStake
               pc == IF onchainStake > 0 THEN "recordFailure" ELSE "allowance"
    <2>1. /\ call'[c] = [call[c] EXCEPT !.before = stake, !.pc = pc]
          /\ pc \in {"recordFailure", "allowance"} /\ call[c].pc = "checkStake"
        BY <1>6, <1>g DEF checkStakeBefore
    <2> HIDE DEF stake, pc
    <2>2. call'[c].pc = pc
        BY <1>0, <2>1 DEF Locals
    <2> QED BY <1>s, <1>u, <2>1, <2>2 DEF Attempting
<1>7. CASE ensureAllowance(c)
    BY <1>7, <1>g, <1>s, <1>u DEF ensureAllowance, Attempting
<1>8. CASE beginSeedBroadcast(c)
    <2>1. /\ row' = row /\ call[c].pc = "broadcast"
          /\ \/ Go(c, WithPending(c, "recordPending", row.pending))
             \/ GoTo(c, "recordFailure")
        BY <1>8 DEF beginSeedBroadcast, Sends
    <2> QED BY <1>0, <1>g, <1>r, <1>s, <1>u, <2>1, LocalsOf DEF Attempting
<1>9. CASE awaitReceipt(c)
    <2> DEFINE ev == [amount |-> Amount, tx |-> call[c].tx]
               stake == onchainStake
    <2>1. /\ call[c].pc = "receipt"
          /\ \/ Go(c, [call[c] EXCEPT !.pc = "recordSeed", !.stake = stake, !.ev = ev])
             \/ GoTo(c, "recordFailure")
        BY <1>9, Zenon DEF awaitReceipt
    <2> HIDE DEF ev, stake
    <2>2. ASSUME Go(c, [call[c] EXCEPT !.pc = "recordSeed", !.stake = stake, !.ev = ev])
          PROVE  call'[c].pc = "recordSeed"
        BY <1>0, <2>2 DEF Locals, Go
    <2>3. CASE GoTo(c, "recordFailure")
        <3>1. call'[c].pc = "recordFailure" /\ call'[c].tx = call[c].tx
            BY <1>g, <2>3
        <3> QED BY <1>u, <2>1, <3>1 DEF FollowsCount, Attempting
    <2> QED BY <1>q, <2>1, <2>2, <2>3 DEF Attempting
<1>10. CASE persistSeed(c) \/ persistPending(c) \/ persistFailure(c) \/ markStakeSeedPending(c)
    <2>1. GoTo(c, "idle") \/ GoTo(c, "mark")
        BY <1>10, Zenon DEF persistSeed, persistPending, persistFailure, markStakeSeedPending
    <2> QED BY <1>g, <1>q, <2>1 DEF Attempting
<1> QED BY <1>2, <1>3, <1>4, <1>5, <1>6, <1>7, <1>8, <1>9, <1>10 DEF Request

(* A request that follows the count replaces no record of a seed that      *)
(* counts.                                                                 *)
LEMMA NothingIsDisplaced ==
    ASSUME SeedAssumption, TypeOK, NoneOverwritten, NEW c \in Calls, Request(c),
           ~IsSeeded(row) => FollowsCount(call[c], row) /\ OnlyCounts(row.pending.tx)
    PROVE  NoneOverwritten'
<1>0. excused \in [Reasons -> SUBSET Nat] /\ excused["overwritten"] = {}
    BY DEF TypeOK, NoneOverwritten
<1>1. ASSUME Excuse("overwritten", {}) \/ excused' = excused PROVE NoneOverwritten'
    <2>1. {} \in SUBSET Nat
        OBVIOUS
    <2> QED BY <1>0, <1>1, <2>1, ExcusesAreTyped, ReasonsAreFour DEF NoneOverwritten
<1>2. ASSUME NEW pending, WritesPending(pending),
             ~IsSeeded(row) => pending.tx = row.pending.tx \/ OnlyCounts(pending.tx)
      PROVE  NoneOverwritten'
    <2>1. ~IsSeeded(row) => Displaced(pending.tx) = {}
        BY <1>2 DEF Displaced, OnlyCounts
    <2> QED BY <1>1, <1>2, <2>1 DEF WritesPending
<1>3. CASE persistPending(c)
    <2>1. call[c].pc = "recordPending" /\ WritesPending(call[c].seen)
        BY <1>3 DEF persistPending, At
    <2> QED BY <1>2, <2>1 DEF FollowsCount
<1>4. CASE persistFailure(c)
    <2> DEFINE pending == PendingSeed("failed", Amount, call[c].tx)
    <2>1. call[c].pc = "recordFailure" /\ WritesPending(pending)
        BY <1>4 DEF persistFailure, At
    <2>2. pending.tx = call[c].tx
        BY FieldsOfPending
    <2> HIDE DEF pending
    <2> QED BY <1>2, <2>1, <2>2 DEF FollowsCount
<1>5. CASE recoverOverdueSeed(c)
    <2>1. {i \in {call[c].seen.tx} : InPlay(i)} \in SUBSET Nat
        <3>1. call[c].seen.tx \in Nat
            <4>1. call[c].seen \in Pending /\ MaxTxs \in Nat
                BY DEF TypeOK, Locals, SeedAssumption
            <4> QED BY <4>1 DEF Pending, NoPending, Hashes, None, Recovered
        <3> QED BY <3>1
    <2>2. "overwritten" \in Reasons \ {"overdue"}
        BY DEF Reasons
    <2> QED BY <1>0, <1>5, <2>1, <2>2, ExcusesAreTyped, ReasonsAreFour
            DEF recoverOverdueSeed, NoneOverwritten
<1>6. CASE ~recoverOverdueSeed(c) /\ ~persistPending(c) /\ ~persistFailure(c)
    BY <1>1, <1>6 DEF history, Request, ensureRegistrationStakeSeed, prepareSeedTarget,
       recoverPendingSeed, recoverWithoutReceipt, rearmPendingSeed, checkStakeBefore,
       ensureAllowance, beginSeedBroadcast, awaitReceipt, persistSeed, markStakeSeedPending
<1> QED BY <1>3, <1>4, <1>5, <1>6

LEMMA OneIsKept ==
    ASSUME SeedAssumption, Writers = {}, \A c, d \in Calls : c = d,
           TypeOK, LocalsInv, HashInv, CountInv, OneInv, [Next]_vars
    PROVE  OneInv'
<1> USE DEF chainVars, counters, history
<1>0. /\ call \in [Calls -> Locals] /\ NoneOverwritten
      /\ ~IsSeeded(row) => OnlyCounts(row.pending.tx) /\ \A c \in Calls : FollowsCount(call[c], row)
      /\ excused \in [Reasons -> SUBSET Nat]
    BY DEF TypeOK, OneInv, CountInv
<1>b. ~IsSeeded(row') => ~IsSeeded(row)
    BY SeedIsKept
<1>o. ASSUME NEW reason \in Reasons \ {"overwritten"}, NEW seeds \in SUBSET Nat,
             Excuse(reason, seeds)
      PROVE  NoneOverwritten'
    BY <1>0, <1>o, ExcusesAreTyped, ReasonsAreFour DEF NoneOverwritten
<1>p. excused' = excused => NoneOverwritten'
    BY <1>0 DEF NoneOverwritten
<1>l. Excuse("lost", {Len(txs')}) /\ txs' = Append(txs, "inflight") => NoneOverwritten'
    <2>1. txs' = Append(txs, "inflight") => {Len(txs')} \in SUBSET Nat
        BY SeedsAreNumbered, AppendProperties DEF Statuses
    <2> QED BY <1>o, <2>1 DEF Reasons
<1>f. ASSUME \A c \in Calls : ~Sends(c), ~IsSeeded(row'),
             \A c \in Calls : FollowsCount(call'[c], row')
      PROVE  \A c \in Calls : FollowsCount(call[c], row)'
    <2>1. ASSUME NEW c \in Calls, NEW l, NEW agent, l = call'[c], agent = row'
          PROVE  FollowsCount(call[c], row)'
        <3>1. FollowsCount(l, agent)'
            BY <1>f, <2>1, CountsRest
        <3> QED BY <2>1, <3>1 DEF FollowsCount
    <2> QED BY <2>1
<1>1. ASSUME NEW c \in Calls, Sends(c) PROVE OneInv'
    <2> DEFINE pending == PendingSeed("broadcasted", Amount, Len(txs'))
    <2>1. /\ excused' = excused
          /\ call' = [call EXCEPT ![c] =
                 [call[c] EXCEPT !.pc = "receipt", !.tx = Len(txs'), !.seen = pending]]
        BY <1>1, Sent
    <2> HIDE DEF pending
    <2>2. call'[c].pc = "receipt" /\ call'[c].tx = Len(txs')
        BY <1>0, <2>1 DEF Locals
    <2>3. OnlyCounts(call[c].tx)'
        BY <1>1, <2>2, SendingCounts DEF OnlyCounts
    <2>4. FollowsCount(call[c], row)'
        BY <2>2, <2>3 DEF FollowsCount, Attempting
    <2>5. NoneOverwritten'
        BY <1>p, <2>1
    <2> QED BY <2>4, <2>5 DEF OneInv
<1>2. ASSUME \A c \in Calls : ~Sends(c), NEW c \in Calls, Request(c) PROVE OneInv'
    <2>1. NoneOverwritten'
        BY <1>0, <1>2, NothingIsDisplaced
    <2>2. ASSUME ~IsSeeded(row') PROVE \A d \in Calls : FollowsCount(call'[d], row')
        BY <1>0, <1>2, <1>b, <2>2, RequestFollowsCount
    <2> QED BY <1>2, <1>f, <2>1, <2>2 DEF OneInv, IsSeeded
<1>3. ASSUME \A c \in Calls : ~Sends(c), NEW c \in Calls, Fault(c) \/ broadcastAnswerLost(c)
      PROVE  OneInv'
    <2>1. NoneOverwritten' /\ row' = row
        BY <1>3, <1>l, <1>p DEF Fault, broadcastAnswerLost
    <2>2. ASSUME ~IsSeeded(row) PROVE FollowsCount(call'[c], row)
        <3>1. FollowsCount(call[c], row)
            BY <1>0, <2>2
        <3>2. CASE call'[c].pc \in {"mark", "idle"}
            BY <3>2 DEF FollowsCount, Attempting
        <3>3. CASE /\ call'[c].pc = "recordFailure" /\ call'[c].tx = call[c].tx
                   /\ call[c].pc \in {"broadcast", "receipt"}
            <4>1. OnlyCounts(call[c].tx)
                BY <3>1, <3>3, NoneIsAny DEF FollowsCount, Attempting
            <4> QED BY <3>3, <4>1 DEF FollowsCount, Attempting
        <3>4. \/ call'[c].pc \in {"mark", "idle"}
              \/ /\ call'[c].pc = "recordFailure" /\ call'[c].tx = call[c].tx
                 /\ call[c].pc \in {"broadcast", "receipt"}
            <4>1. \/ GoTo(c, "mark") \/ GoTo(c, "idle")
                  \/ GoTo(c, "recordFailure") /\ call[c].pc \in {"broadcast", "receipt"}
                BY <1>3 DEF Fault, AfterFault, broadcastAnswerLost, At
            <4> QED BY <1>0, <4>1, Went
        <3> QED BY <3>2, <3>3, <3>4
    <2> QED BY <1>3, <1>f, <2>1, <2>2 DEF OneInv, IsSeeded
<1>4. ASSUME \A c \in Calls : ~Sends(c), UNCHANGED <<row, call>>, NoneOverwritten' PROVE OneInv'
    BY <1>0, <1>4, <1>f DEF OneInv, IsSeeded
<1>5. ASSUME \A c \in Calls : ~Sends(c), Crash PROVE OneInv'
    <2>1. row' = row /\ (\A c \in Calls : call'[c].pc = "idle") /\ NoneOverwritten'
        BY <1>5, <1>l, <1>p DEF Crash, NoLocals
    <2> QED BY <2>1 DEF OneInv, FollowsCount, Attempting
<1>6. CASE \A c \in Calls : ~Sends(c)
    <2>1. CASE \E c \in Calls : Request(c) \/ Fault(c) \/ broadcastAnswerLost(c)
        BY <1>2, <1>3, <1>6, <2>1
    <2>2. CASE \E i \in DOMAIN txs, status \in {"mined", "reverted", "dropped"} : Settle(i, status)
        BY <1>4, <1>6, <1>p, <2>2 DEF Settle
    <2>3. ASSUME NEW stake \in OwnStakes, restake(stake) PROVE OneInv'
        <3>1. (IF stake = 0 THEN TxWith("mined") ELSE {}) \in SUBSET Nat
            BY SeedsAreNumbered
        <3> QED BY <1>4, <1>6, <1>o, <2>3, <3>1 DEF restake, Reasons
    <2>4. CASE Crash
        BY <1>5, <1>6, <2>4
    <2>5. CASE UNCHANGED vars
        BY <1>4, <1>6, <1>p, <2>5 DEF vars
    <2> QED BY <2>1, <2>2, <2>3, <2>4, <2>5 DEF Next
<1> QED BY <1>1, <1>6

LEMMA OneAtFirst == SeedAssumption /\ Init => OneInv
BY DEF Init, OneInv, NoneOverwritten, FollowsCount, NoLocals, Attempting, Reasons

(* With one request at a time, repeated as often as one likes, through     *)
(* crashes, reverts, lost answers, expired leases and withdrawals, the     *)
(* record of a seed that counts is never lost from the row; so a second    *)
(* one is only sent after a lost answer, an expired lease or a withdrawal. *)
THEOREM OneRequestSeedsOnce ==
    ASSUME SeedAssumption, Writers = {}, \A c, d \in Calls : c = d
    PROVE  Spec => [](SeedsOnce /\ NoneOverwritten)
<1>1. Init => TypeOK /\ LocalsInv /\ HashInv /\ CountInv /\ OneInv
    BY TypesAtFirst, ChancesAtFirst, CountAtFirst, OneAtFirst
<1>2. TypeOK /\ LocalsInv /\ HashInv /\ CountInv /\ OneInv /\ [Next]_vars
          => (TypeOK /\ LocalsInv /\ HashInv /\ CountInv /\ OneInv)'
    BY TypesAreKept, LocalsAreKept, HashesAreKept, CountIsKept, OneIsKept
<1>3. CountInv /\ OneInv => SeedsOnce /\ NoneOverwritten
    BY DEF CountInv, OneInv
<1> QED BY <1>1, <1>2, <1>3, PTL DEF Spec

-----------------------------------------------------------------------------
(* Registrations. *)
CONSTANTS Requests, Wallets, DemoWallets, Postgres, FixedSecret, MaxChallenges, MaxAsked,
          MaxRestarts, MayExpire
VARIABLES challenges, regs, regIndex, judgeList, judgeIndex, agents, sessions, secret, request,
          registered, joined, restarts
Reg == INSTANCE Registration

ChallengeKinds == {"pre_registration", "login"}
Status == {"pre_registered", "judge_listed"}
ChallengeRow == [kind : ChallengeKinds, wallet : Wallets, consumed : BOOLEAN, expired : BOOLEAN]
RegistrationRow == [wallet : Reg!AllWallets, status : Status]
SessionRow == [wallet : Reg!AllWallets, nonce : Nat, secret : Nat, expired : BOOLEAN]
Call == [pc : {"idle", "verify", "join", "sign", "list"},
         op : {"none", "register", "bootstrap", "login"},
         nonce : Nat, id : Nat,
         seen : [wallet : Reg!AllWallets \cup {Reg!None}, status : {"none"} \cup Status]]

RowsTyped ==
    /\ challenges \in Seq(ChallengeRow) /\ Len(challenges) <= MaxChallenges
    /\ regs \in Seq(RegistrationRow) /\ sessions \in Seq(SessionRow) /\ registered \in Seq(Nat)
    /\ regIndex \in [Reg!AllWallets -> 0 .. Len(regs)]
    /\ judgeList \subseteq 1 .. Len(regs) /\ judgeIndex \in [Reg!AllWallets -> judgeList \cup {Reg!None}]
    /\ agents \subseteq Reg!AllWallets /\ joined \subseteq Reg!AllWallets /\ secret \in Nat

(* What a request has in hand: rows that exist, and a registration of the  *)
(* wallet whose row it is to overwrite.                                    *)
Overwrites(l) == l.pc = "join" \/ (l.pc = "verify" /\ l.op = "login")
CallOK(l) ==
    /\ l \in Call /\ l.nonce <= Len(challenges) /\ l.id <= Len(regs)
    /\ l.pc \in {"verify", "sign"} => l.nonce # Reg!None /\ l.op # "none"
    /\ l.pc \in {"join", "list"} => l.id # Reg!None
    /\ l.pc = "sign" => l.op = "bootstrap"
    /\ Overwrites(l) => l.id # Reg!None /\ l.seen \in RegistrationRow /\ regs[l.id].wallet = l.seen.wallet
    /\ l.pc = "verify" /\ l.op = "login" => challenges[l.nonce].wallet = l.seen.wallet
CallsOK == request \in [Requests -> Call] /\ \A r \in Requests : CallOK(request[r])

(* Each index points to a row of the wallet; in Postgres, where the        *)
(* columns are unique, to the only one.                                    *)
Indexed ==
    /\ \A w \in Reg!AllWallets : regIndex[w] # Reg!None => regs[regIndex[w]].wallet = w
    /\ \A i \in 1 .. Len(regs) : regs[i].wallet \in agents
    /\ Postgres => \A i \in 1 .. Len(regs) : regIndex[regs[i].wallet] = i
JudgesIndexed ==
    /\ \A w \in Reg!AllWallets : judgeIndex[w] # Reg!None => regs[judgeIndex[w]].wallet = w
    /\ \A i \in judgeList : judgeIndex[regs[i].wallet] # Reg!None
    /\ Postgres => \A i \in judgeList : judgeIndex[regs[i].wallet] = i

(* What was used up for a registration or a session is consumed, and no    *)
(* two were made of one challenge.                                         *)
RegistrationsUsed ==
    /\ \A i \in 1 .. Len(registered) :
          registered[i] \in 1 .. Len(challenges) /\ challenges[registered[i]].consumed
    /\ \A i, j \in 1 .. Len(registered) : registered[i] = registered[j] => i = j
SessionsUsed ==
    /\ \A s \in 1 .. Len(sessions) : sessions[s].nonce # Reg!None =>
          /\ sessions[s].nonce <= Len(challenges) /\ challenges[sessions[s].nonce].consumed
          /\ challenges[sessions[s].nonce].wallet = sessions[s].wallet
    /\ \A s, t \in 1 .. Len(sessions) :
          sessions[s].nonce # Reg!None /\ sessions[s].nonce = sessions[t].nonce => s = t
    /\ Postgres => \A s \in 1 .. Len(sessions) : sessions[s].nonce # Reg!None

(* Requests that do not overlap overwrite what is still there, so that no  *)
(* listed registration is set back.                                        *)
Listed(id) == regs[id].status = "judge_listed"
Admissions ==
    Reg!OneAtATime =>
       /\ \A i \in judgeList : Listed(i)
       /\ \A i \in 1 .. Len(regs) : regs[i].wallet \in DemoWallets => Listed(i)
       /\ \A r \in Requests : Overwrites(request[r]) => regs[request[r].id] = request[r].seen
       /\ \A w \in joined : judgeIndex[w] # Reg!None

RegInv ==
    RowsTyped /\ CallsOK /\ Indexed /\ JudgesIndexed /\ RegistrationsUsed /\ SessionsUsed /\ Admissions

(* Rows are only added, and keep their wallets, while the server runs.     *)
RowsStay ==
    /\ Len(challenges) <= Len(challenges') /\ Len(regs) <= Len(regs')
    /\ \A n \in 1 .. Len(challenges) : challenges'[n].wallet = challenges[n].wallet
    /\ \A i \in 1 .. Len(regs) : regs'[i].wallet = regs[i].wallet

(* A request at rest holds nothing. *)
LEMMA IdleIsOK == RegInv => Reg!Idle \in Call /\ CallOK(Reg!Idle)
<1> SUFFICES ASSUME RegInv PROVE Reg!Idle \in Call /\ CallOK(Reg!Idle)
  OBVIOUS
<1>1. Reg!Idle \in Call
  BY DEF Reg!Idle, Call, Reg!None
<1>2. Len(challenges) \in Nat /\ Len(regs) \in Nat
  BY DEF RegInv, RowsTyped
<1> QED BY <1>1, <1>2 DEF CallOK, Reg!Idle, Overwrites, Reg!None

(* What a request has in hand stays good while rows stay. *)
LEMMA OthersWait ==
  ASSUME RegInv, RowsStay, RowsTyped', NEW l, CallOK(l)
  PROVE  CallOK(l)'
<1>1. Len(challenges) \in Nat /\ Len(regs) \in Nat /\ Len(challenges') \in Nat /\ Len(regs') \in Nat
  BY DEF RegInv, RowsTyped
<1>2. l.nonce \in Nat /\ l.id \in Nat
  BY DEF CallOK, Call
<1>3. l.id # Reg!None => l.id \in 1 .. Len(regs)
  BY <1>1, <1>2 DEF CallOK, Reg!None
<1>4. l.nonce # Reg!None => l.nonce \in 1 .. Len(challenges)
  BY <1>1, <1>2 DEF CallOK, Reg!None
<1> QED BY <1>1, <1>2, <1>3, <1>4 DEF CallOK, RowsStay

LEMMA RowsOf ==
  ASSUME RegInv, NEW i \in 1 .. Len(regs)
  PROVE  regs[i] \in RegistrationRow /\ regs[i].wallet \in Reg!AllWallets /\ regs[i].status \in Status
<1>1. regs \in Seq(RegistrationRow)
  BY DEF RegInv, RowsTyped
<1>2. regs[i] \in RegistrationRow
  BY <1>1, ElementOfSeq
<1> QED BY <1>2 DEF RegistrationRow

(* So a step of one request keeps what all have in hand. *)
LEMMA CallsStep ==
  ASSUME RegInv, RowsStay, RowsTyped', NEW r \in Requests, NEW l \in Call, CallOK(l)',
         request' = [request EXCEPT ![r] = l]
  PROVE  CallsOK'
<1>1. /\ request' \in [Requests -> Call]
      /\ \A q \in Requests : request'[q] = IF q = r THEN l ELSE request[q]
  BY DEF RegInv, CallsOK
<1>2. ASSUME NEW q \in Requests PROVE CallOK(request[q])'
  <2>1. CASE q = r
    BY <1>1, <2>1 DEF CallOK, Overwrites
  <2>2. CASE q # r
    <3>1. CallOK(request[q])
      BY DEF RegInv, CallsOK
    <3> QED BY <1>1, <2>2, <3>1, OthersWait DEF CallOK, Overwrites
  <2> QED BY <2>1, <2>2
<1> QED BY <1>1, <1>2 DEF CallsOK

LEMMA CallsStay ==
  ASSUME RegInv, RowsStay, RowsTyped', request' = request
  PROVE  CallsOK'
<1>1. ASSUME NEW q \in Requests PROVE CallOK(request[q])'
  <2>1. CallOK(request[q])
    BY DEF RegInv, CallsOK
  <2> QED BY <2>1, OthersWait DEF CallOK, Overwrites
<1> QED BY <1>1 DEF RegInv, CallsOK

(* A registration is saved: a new one, or over one of the same wallet. *)
LEMMA RegistrationSaved ==
  ASSUME RegInv, NEW id \in Nat, NEW g \in RegistrationRow, Reg!saveRegistration(id, g),
         g.wallet \in agents', agents \subseteq agents',
         \/ id \in 1 .. Len(regs) /\ regs[id].wallet = g.wallet
         \/ id = Len(regs) + 1 /\ (Postgres => regIndex[g.wallet] = Reg!None)
  PROVE  /\ regs' \in Seq(RegistrationRow) /\ Len(regs') \in Nat /\ Len(regs) <= Len(regs')
         /\ id \in 1 .. Len(regs') /\ regs'[id] = g
         /\ \A i \in 1 .. Len(regs') : i # id => i \in 1 .. Len(regs) /\ regs'[i] = regs[i]
         /\ \A i \in 1 .. Len(regs) : i \in 1 .. Len(regs') /\ regs'[i].wallet = regs[i].wallet
         /\ regIndex' \in [Reg!AllWallets -> 0 .. Len(regs')]
         /\ Indexed'
<1>1. regs \in Seq(RegistrationRow) /\ Len(regs) \in Nat /\ DOMAIN regs = 1 .. Len(regs)
  BY DEF RegInv, RowsTyped
<1>2. /\ regs' \in Seq(RegistrationRow) /\ Len(regs') \in Nat /\ Len(regs) <= Len(regs')
      /\ id \in 1 .. Len(regs') /\ regs'[id] = g
      /\ \A i \in 1 .. Len(regs') : i # id => i \in 1 .. Len(regs) /\ regs'[i] = regs[i]
  <2>1. CASE id \in 1 .. Len(regs)
    <3>1. regs' = [regs EXCEPT ![id] = g]
      BY <1>1, <2>1 DEF Reg!saveRegistration
    <3> QED BY <1>1, <2>1, <3>1
  <2>2. CASE id = Len(regs) + 1
    <3>1. id \notin 1 .. Len(regs)
      BY <1>1, <2>2
    <3>2. regs' = Append(regs, g)
      BY <1>1, <3>1 DEF Reg!saveRegistration
    <3> QED BY <1>1, <2>2, <3>2, AppendProperties
  <2> QED BY <2>1, <2>2
<1>3. \A i \in 1 .. Len(regs) : i \in 1 .. Len(regs') /\ regs'[i].wallet = regs[i].wallet
  BY <1>1, <1>2
<1>4. g.wallet \in Reg!AllWallets
  BY DEF RegistrationRow
<1>5. /\ regIndex' \in [Reg!AllWallets -> 0 .. Len(regs')]
      /\ \A w \in Reg!AllWallets : regIndex'[w] = IF w = g.wallet THEN id ELSE regIndex[w]
  BY <1>1, <1>2, <1>4 DEF RegInv, RowsTyped, Reg!saveRegistration
<1>6. \A w \in Reg!AllWallets : regIndex'[w] # Reg!None => regs'[regIndex'[w]].wallet = w
  BY <1>1, <1>2, <1>3, <1>4, <1>5 DEF RegInv, RowsTyped, Indexed, Reg!None
<1>7. \A i \in 1 .. Len(regs') : regs'[i].wallet \in agents'
  BY <1>1, <1>2 DEF RegInv, Indexed
<1>8. ASSUME Postgres, NEW i \in 1 .. Len(regs') PROVE regIndex'[regs'[i].wallet] = i
  <2>1. CASE i = id
    BY <1>2, <1>4, <1>5, <2>1
  <2>2. CASE i # id
    <3>1. i \in 1 .. Len(regs) /\ regs'[i] = regs[i] /\ regIndex[regs[i].wallet] = i
      BY <1>2, <1>8, <2>2 DEF RegInv, Indexed
    <3>2. regs[i].wallet \in Reg!AllWallets
      BY <3>1, RowsOf
    <3>3. regs[i].wallet # g.wallet
      BY <1>8, <2>2, <3>1 DEF RegInv, Indexed, Reg!None
    <3> QED BY <1>5, <3>1, <3>2, <3>3
  <2> QED BY <2>1, <2>2
<1> QED BY <1>2, <1>3, <1>5, <1>6, <1>7, <1>8 DEF Indexed

(* An entry of the judge list is saved for the wallet of its registration. *)
LEMMA EntrySaved ==
  ASSUME RegInv, NEW id \in Nat, NEW w \in Reg!AllWallets, Reg!saveJudgeListEntry(id, w),
         regs' \in Seq(RegistrationRow), Len(regs) <= Len(regs'),
         \A i \in 1 .. Len(regs) : regs'[i].wallet = regs[i].wallet,
         id \in 1 .. Len(regs'), regs'[id].wallet = w, Postgres => judgeIndex[w] \in {Reg!None, id}
  PROVE  /\ judgeList' \subseteq 1 .. Len(regs')
         /\ judgeIndex' \in [Reg!AllWallets -> judgeList' \cup {Reg!None}]
         /\ JudgesIndexed' /\ judgeList' = judgeList \cup {id}
         /\ judgeIndex'[w] # Reg!None /\ \A x \in Reg!AllWallets : judgeIndex[x] # Reg!None => judgeIndex'[x] # Reg!None
<1>1. Len(regs) \in Nat /\ Len(regs') \in Nat /\ id # Reg!None
  BY DEF RegInv, RowsTyped, Reg!None
<1>2. judgeList \subseteq 1 .. Len(regs) /\ judgeIndex \in [Reg!AllWallets -> judgeList \cup {Reg!None}]
  BY DEF RegInv, RowsTyped
<1>3. judgeList' = judgeList \cup {id} /\ judgeList' \subseteq 1 .. Len(regs')
  BY <1>1, <1>2 DEF Reg!saveJudgeListEntry
<1>4. /\ judgeIndex' \in [Reg!AllWallets -> judgeList' \cup {Reg!None}]
      /\ \A x \in Reg!AllWallets : judgeIndex'[x] = IF x = w THEN id ELSE judgeIndex[x]
  BY <1>2, <1>3 DEF Reg!saveJudgeListEntry
<1>5. \A i \in judgeList : regs'[i].wallet = regs[i].wallet /\ regs[i].wallet \in Reg!AllWallets
  BY <1>2, RowsOf
<1>6. \A x \in Reg!AllWallets : judgeIndex'[x] # Reg!None => regs'[judgeIndex'[x]].wallet = x
  BY <1>2, <1>4, <1>5 DEF RegInv, JudgesIndexed, Reg!None
<1>7. \A i \in judgeList' : judgeIndex'[regs'[i].wallet] # Reg!None
  BY <1>1, <1>3, <1>4, <1>5 DEF RegInv, JudgesIndexed
<1>8. ASSUME Postgres, NEW i \in judgeList' PROVE judgeIndex'[regs'[i].wallet] = i
  <2>1. CASE i = id
    BY <1>4, <2>1
  <2>2. CASE i # id
    <3>1. i \in judgeList /\ judgeIndex[regs[i].wallet] = i
      BY <1>3, <1>8, <2>2 DEF RegInv, JudgesIndexed
    <3>2. i # Reg!None
      BY <1>2, <3>1 DEF Reg!None
    <3>3. regs[i].wallet # w
      BY <1>8, <2>2, <3>1, <3>2
    <3> QED BY <1>4, <1>5, <3>1, <3>3
  <2> QED BY <2>1, <2>2
<1> QED BY <1>1, <1>3, <1>4, <1>6, <1>7, <1>8 DEF JudgesIndexed

(* Of requests one at a time the others are this one. *)
LEMMA OnlyThisOne ==
  ASSUME RegInv, NEW r \in Requests, NEW l \in Call, request' = [request EXCEPT ![r] = l],
         Reg!OneAtATime, Overwrites(l) => regs'[l.id] = l.seen
  PROVE  \A q \in Requests : Overwrites(request'[q]) => regs'[request'[q].id] = request'[q].seen
  BY DEF RegInv, CallsOK, Reg!OneAtATime

(* A step that only moves a request on. *)
LEMMA NothingSaved ==
  ASSUME RegInv, UNCHANGED <<Reg!tables, Reg!auth, Reg!history>>, NEW r \in Requests, NEW l, CallOK(l),
         Reg!Goto(r, l), Reg!OneAtATime /\ Overwrites(l) => regs[l.id] = l.seen
  PROVE  RegInv'
<1>1. UNCHANGED <<challenges, regs, regIndex, judgeList, judgeIndex, agents,
                  sessions, secret, registered, joined>>
  BY DEF Reg!tables, Reg!auth, Reg!history
<1>2. RowsTyped'
  BY <1>1 DEF RegInv, RowsTyped
<1>3. RowsStay
  BY <1>1 DEF RowsStay, RegInv, RowsTyped
<1>4. request' = [request EXCEPT ![r] = l] /\ l \in Call
  BY DEF Reg!Goto, CallOK
<1>5. CallsOK'
  <2>1. CallOK(l)'
    BY <1>1 DEF CallOK, Overwrites
  <2> QED BY <1>2, <1>3, <1>4, <2>1, CallsStep
<1>6. Indexed' /\ JudgesIndexed' /\ RegistrationsUsed' /\ SessionsUsed'
  BY <1>1 DEF RegInv, Indexed, JudgesIndexed, RegistrationsUsed, SessionsUsed
<1>7. Admissions'
  <2>1. ASSUME Reg!OneAtATime
        PROVE  \A q \in Requests : Overwrites(request'[q]) => regs'[request'[q].id] = request'[q].seen
    BY <1>1, <1>4, <2>1, OnlyThisOne
  <2> QED BY <1>1, <2>1 DEF RegInv, Admissions, Listed, Overwrites
<1> QED BY <1>2, <1>5, <1>6, <1>7 DEF RegInv

LEMMA RequestOf == ASSUME RegInv, NEW r \in Requests PROVE request[r] \in Call /\ CallOK(request[r])
  BY DEF RegInv, CallsOK

LEMMA RequestEnds ==
  ASSUME RegInv, UNCHANGED <<Reg!tables, Reg!auth, Reg!history>>, NEW r \in Requests, Reg!Finish(r)
  PROVE  RegInv'
<1>1. CallOK(Reg!Idle) /\ ~Overwrites(Reg!Idle)
  BY IdleIsOK DEF Reg!Idle, Overwrites
<1> QED BY <1>1, NothingSaved DEF Reg!Finish

(* Numbers of rows. *)
LEMMA RowNumbers ==
  ASSUME RegInv
  PROVE  /\ Len(challenges) \in Nat /\ DOMAIN challenges = 1 .. Len(challenges)
         /\ Len(regs) \in Nat /\ DOMAIN regs = 1 .. Len(regs)
  BY DEF RegInv, RowsTyped

(* The steps up to an await: only the request moves. *)
LEMMA RegisterBegins ==
  ASSUME RegInv, NEW r \in Requests, NEW n \in DOMAIN challenges,
         NEW op \in {"register", "bootstrap"},
         Reg!register(r, n, op)
  PROVE  RegInv'
<1> DEFINE l == [Reg!Idle EXCEPT !.pc = "verify", !.op = op, !.nonce = n]
<1>1. n \in Nat /\ n # 0 /\ n <= Len(challenges)
  BY RowNumbers
<1>2. l \in Call /\ l.pc = "verify" /\ l.op = op /\ l.nonce = n /\ l.id = 0
  BY <1>1 DEF Reg!Idle, Call, Reg!None
<1> HIDE DEF l
<1>3. CallOK(l) /\ ~Overwrites(l)
  BY <1>1, <1>2, RowNumbers DEF CallOK, Overwrites, Reg!None
<1>4. Reg!Goto(r, l) /\ UNCHANGED <<Reg!tables, Reg!auth, Reg!history>>
  BY DEF Reg!register, l
<1> QED BY <1>3, <1>4, NothingSaved

LEMMA LoginBegins ==
  ASSUME RegInv, NEW r \in Requests, NEW n \in DOMAIN challenges, Reg!login(r, n)
  PROVE  RegInv'
<1> DEFINE w == challenges[n].wallet
           id == Reg!getRegistrationByWallet(w)
           l == [pc |-> "verify", op |-> "login", nonce |-> n, id |-> id, seen |-> regs[id]]
<1>1. n \in Nat /\ n # 0 /\ n <= Len(challenges)
  BY RowNumbers
<1>2. id # Reg!None /\ Reg!Goto(r, l) /\ UNCHANGED <<Reg!tables, Reg!auth, Reg!history>>
  BY DEF Reg!login
<1>3. w \in Reg!AllWallets
  <2>1. challenges \in Seq(ChallengeRow) /\ n \in 1 .. Len(challenges)
    BY RowNumbers DEF RegInv, RowsTyped
  <2>2. challenges[n] \in ChallengeRow
    BY <2>1, ElementOfSeq
  <2> QED BY <2>2 DEF ChallengeRow, Reg!AllWallets
<1>4. id \in 1 .. Len(regs) /\ regs[id].wallet = w
  BY <1>2, <1>3, RowNumbers DEF RegInv, RowsTyped, Indexed, Reg!getRegistrationByWallet, Reg!None
<1>5. regs[id] \in RegistrationRow
  BY <1>4, RowsOf
<1> HIDE DEF id, w
<1>6. l \in Call
  BY <1>1, <1>4, <1>5, RowNumbers DEF Call, RegistrationRow
<1>7. CallOK(l) /\ (Overwrites(l) => regs[l.id] = l.seen)
  BY <1>1, <1>4, <1>5, <1>6, RowNumbers DEF CallOK, Overwrites, Reg!None, w
<1> HIDE DEF l
<1> QED BY <1>2, <1>7, NothingSaved

LEMMA JoinBegins ==
  ASSUME RegInv, NEW r \in Requests, NEW id \in 1 .. Len(regs), Reg!joinJudgeList(r, id)
  PROVE  RegInv'
<1> DEFINE l == [Reg!Idle EXCEPT !.pc = "join", !.id = id, !.seen = regs[id]]
<1>1. regs[id] \in RegistrationRow /\ id \in Nat /\ id # 0 /\ id <= Len(regs)
  BY RowsOf, RowNumbers
<1>2. l \in Call /\ l.pc = "join" /\ l.op = "none" /\ l.nonce = 0 /\ l.id = id /\ l.seen = regs[id]
  BY <1>1 DEF Reg!Idle, Call, Reg!None, RegistrationRow
<1> HIDE DEF l
<1>3. CallOK(l)
  BY <1>1, <1>2, RowNumbers DEF CallOK, Overwrites, Reg!None
<1>4. Reg!Goto(r, l) /\ UNCHANGED <<Reg!tables, Reg!auth, Reg!history>>
  BY DEF Reg!joinJudgeList, l
<1> QED BY <1>2, <1>3, <1>4, NothingSaved

LEMMA BootstrapBegins ==
  ASSUME RegInv, NEW r \in Requests, NEW w \in Wallets, Reg!bootstrapRegistered(r, w)
  PROVE  RegInv'
<1> DEFINE id == Reg!getRegistrationByWallet(w)
           l == [Reg!Idle EXCEPT !.pc = "list", !.id = id]
<1>1. id # Reg!None /\ Reg!Goto(r, l) /\ UNCHANGED <<Reg!tables, Reg!auth, Reg!history>>
  BY DEF Reg!bootstrapRegistered
<1>2. id \in Nat /\ id # 0 /\ id <= Len(regs)
  BY <1>1, RowNumbers DEF RegInv, RowsTyped, Reg!getRegistrationByWallet, Reg!AllWallets, Reg!None
<1> HIDE DEF id
<1>3. l \in Call /\ l.pc = "list" /\ l.op = "none" /\ l.nonce = 0 /\ l.id = id
  BY <1>2 DEF Reg!Idle, Call, Reg!None
<1> HIDE DEF l
<1>4. CallOK(l) /\ ~Overwrites(l)
  BY <1>2, <1>3, RowNumbers DEF CallOK, Overwrites, Reg!None
<1> QED BY <1>1, <1>4, NothingSaved

(* What was used stays used while challenges are issued and consumed. *)
LEMMA UsesStay ==
  ASSUME RegInv, Len(challenges) <= Len(challenges'), Len(challenges') \in Nat,
         \A n \in 1 .. Len(challenges) : /\ challenges'[n].wallet = challenges[n].wallet
                                         /\ challenges[n].consumed => challenges'[n].consumed
  PROVE  /\ registered' = registered => RegistrationsUsed'
         /\ sessions' = sessions => SessionsUsed'
<1>1. Len(challenges) \in Nat
  BY RowNumbers
<1>2. registered' = registered => RegistrationsUsed'
  BY <1>1 DEF RegInv, RegistrationsUsed
<1>3. ASSUME sessions' = sessions, NEW s \in 1 .. Len(sessions), sessions[s].nonce # Reg!None
      PROVE  /\ sessions[s].nonce <= Len(challenges') /\ challenges'[sessions[s].nonce].consumed
             /\ challenges'[sessions[s].nonce].wallet = sessions[s].wallet
  <2>1. sessions \in Seq(SessionRow)
    BY DEF RegInv, RowsTyped
  <2>2. sessions[s] \in SessionRow
    BY <2>1, ElementOfSeq
  <2>3. sessions[s].nonce \in Nat
    BY <2>2 DEF SessionRow
  <2>4. sessions[s].nonce \in 1 .. Len(challenges)
    BY <1>1, <1>3, <2>3 DEF RegInv, SessionsUsed, Reg!None
  <2> QED BY <1>1, <1>3, <2>4 DEF RegInv, SessionsUsed
<1>4. sessions' = sessions => SessionsUsed'
  BY <1>3 DEF RegInv, SessionsUsed
<1> QED BY <1>2, <1>4

(* A challenge is consumed once and for all. *)
LEMMA Consumes ==
  ASSUME RegInv, NEW n \in 1 .. Len(challenges), Reg!consumeChallenge(n)
  PROVE  /\ challenges' \in Seq(ChallengeRow) /\ Len(challenges') = Len(challenges)
         /\ challenges'[n].consumed
         /\ \A m \in 1 .. Len(challenges) : /\ challenges'[m].wallet = challenges[m].wallet
                                            /\ challenges[m].consumed => challenges'[m].consumed
<1> DEFINE c == [challenges[n] EXCEPT !.consumed = TRUE]
<1>1. challenges \in Seq(ChallengeRow)
  BY DEF RegInv, RowsTyped
<1>2. challenges[n] \in ChallengeRow
  BY <1>1, ElementOfSeq
<1>3. c \in ChallengeRow /\ c.consumed /\ c.wallet = challenges[n].wallet
  BY <1>2 DEF ChallengeRow
<1>4. challenges' = [challenges EXCEPT ![n] = c]
  BY DEF Reg!consumeChallenge
<1> HIDE DEF c
<1> QED BY <1>1, <1>3, <1>4

(* A challenge is issued: nothing else changes. *)
LEMMA Issues ==
  ASSUME RegInv, NEW kind \in ChallengeKinds, NEW w \in Wallets, NEW bound \in Nat,
         bound <= MaxChallenges,
         MaxChallenges \in Nat, Reg!Issue(kind, w, bound)
  PROVE  /\ RowsTyped' /\ RowsStay /\ Len(challenges') = Len(challenges) + 1
         /\ Indexed' /\ JudgesIndexed' /\ RegistrationsUsed' /\ SessionsUsed'
<1> DEFINE c == Reg!Challenge(kind, w)
<1>1. /\ challenges' = Append(challenges, c) /\ Len(challenges) < bound
      /\ UNCHANGED <<regs, regIndex, judgeList, judgeIndex, agents, sessions,
             secret, registered, joined>>
  BY DEF Reg!Issue, Reg!auth, Reg!history
<1>2. c \in ChallengeRow
  BY DEF Reg!Challenge, ChallengeRow
<1>3. challenges \in Seq(ChallengeRow) /\ Len(challenges) \in Nat /\ Len(challenges) <= MaxChallenges
  BY RowNumbers DEF RegInv, RowsTyped
<1> HIDE DEF c
<1>4. challenges' \in Seq(ChallengeRow) /\ Len(challenges') = Len(challenges) + 1
      /\ \A m \in 1 .. Len(challenges) : challenges'[m] = challenges[m]
  BY <1>1, <1>2, <1>3, AppendProperties
<1>5. RowsTyped'
  <2>1. Len(challenges') <= MaxChallenges
    BY <1>1, <1>3, <1>4
  <2> QED BY <1>1, <1>4, <2>1 DEF RegInv, RowsTyped
<1>6. RowsStay
  BY <1>1, <1>3, <1>4, RowNumbers DEF RowsStay
<1>7. RegistrationsUsed' /\ SessionsUsed'
  BY <1>1, <1>3, <1>4, UsesStay
<1>8. Indexed' /\ JudgesIndexed'
  BY <1>1 DEF RegInv, Indexed, JudgesIndexed
<1> QED BY <1>4, <1>5, <1>6, <1>7, <1>8

LEMMA IssueKeeps ==
  ASSUME RegInv, NEW kind \in ChallengeKinds, NEW w \in Wallets, NEW bound \in Nat,
         bound <= MaxChallenges,
         MaxChallenges \in Nat, Reg!Issue(kind, w, bound), request' = request
  PROVE  RegInv'
<1>1. /\ RowsTyped' /\ RowsStay /\ Indexed' /\ JudgesIndexed' /\ RegistrationsUsed' /\ SessionsUsed'
  BY Issues
<1>2. CallsOK'
  BY <1>1, CallsStay
<1>3. Admissions'
  BY DEF RegInv, Admissions, Listed, Reg!Issue, Reg!auth, Reg!history, Overwrites
<1> QED BY <1>1, <1>2, <1>3 DEF RegInv

(* The operator's own registration, up to the signature. *)
LEMMA CreateKeeps ==
  ASSUME RegInv, MaxChallenges \in Nat, NEW r \in Requests, NEW w \in Wallets,
         Reg!createRegistration(r, w)
  PROVE  RegInv'
<1>0. PICK n : n = Len(challenges) + 1
  OBVIOUS
<1> DEFINE l == [Reg!Idle EXCEPT !.pc = "sign", !.op = "bootstrap", !.nonce = n]
<1>1. Reg!Issue("pre_registration", w, MaxChallenges) /\ Reg!Goto(r, l)
  BY <1>0 DEF Reg!createRegistration
<1>2. /\ RowsTyped' /\ RowsStay /\ Indexed' /\ JudgesIndexed' /\ RegistrationsUsed' /\ SessionsUsed'
      /\ Len(challenges') = n
  BY <1>0, <1>1, Issues DEF ChallengeKinds
<1>3. n \in Nat /\ n # 0 /\ Len(regs) \in Nat /\ regs' = regs
  BY <1>0, <1>1, RowNumbers DEF Reg!Issue
<1>4. l \in Call /\ l.pc = "sign" /\ l.op = "bootstrap" /\ l.nonce = n /\ l.id = 0
  BY <1>3 DEF Reg!Idle, Call, Reg!None
<1> HIDE DEF l
<1>5. request' = [request EXCEPT ![r] = l]
  BY <1>1 DEF Reg!Goto
<1>6. CallOK(l)' /\ ~Overwrites(l)
  BY <1>2, <1>3, <1>4 DEF CallOK, Overwrites, Reg!None
<1>7. CallsOK'
  BY <1>2, <1>4, <1>5, <1>6, CallsStep
<1>8. Admissions'
  <2>1. ASSUME Reg!OneAtATime
        PROVE  \A q \in Requests : Overwrites(request'[q]) => regs'[request'[q].id] = request'[q].seen
    BY <1>4, <1>5, <1>6, <2>1, OnlyThisOne
  <2> QED BY <1>1, <2>1 DEF RegInv, Admissions, Listed, Overwrites, Reg!Issue, Reg!auth, Reg!history
<1> QED BY <1>2, <1>7, <1>8 DEF RegInv

LEMMA SignedKeeps ==
  ASSUME RegInv, NEW r \in Requests, Reg!signedRegistration(r)
  PROVE  RegInv'
<1>1. CASE Reg!register(r, request[r].nonce, "bootstrap")
  <2>1. request[r].nonce \in DOMAIN challenges
    BY RequestOf, RowNumbers DEF Reg!signedRegistration, CallOK, Call, Reg!None
  <2> QED BY <1>1, <2>1, RegisterBegins
<1>2. CASE Reg!Finish(r) /\ UNCHANGED <<Reg!tables, Reg!auth, Reg!history>>
  BY <1>2, RequestEnds
<1> QED BY <1>1, <1>2 DEF Reg!signedRegistration

(* The rows of a step that saves a registration. *)
LEMMA RegisteredKeeps ==
  ASSUME RegInv, NEW r \in Requests, Wallets \cap DemoWallets = {}, Reg!finishRegister(r)
  PROVE  RegInv'
<1>0. PICK n, w, id, g, l :
        /\ n = request[r].nonce /\ w = challenges[n].wallet /\ id = Len(regs) + 1
        /\ g = Reg!Registration(w, "pre_registered")
        /\ l = IF ~challenges[n].consumed /\ request[r].op = "bootstrap"
               THEN [Reg!Idle EXCEPT !.pc = "list", !.id = id] ELSE Reg!Idle
  OBVIOUS
<1>1. /\ Reg!UniqueWallet(regIndex, w, id) /\ Reg!saveRegistration(id, g) /\ Reg!saveAgent(w)
      /\ Reg!consumeChallenge(n)
      /\ registered' = IF ~challenges[n].consumed THEN Append(registered, n) ELSE registered
      /\ Reg!Goto(r, l) /\ request[r].pc = "verify"
      /\ UNCHANGED <<judgeList, judgeIndex, sessions, secret, joined>>
  BY <1>0 DEF Reg!finishRegister, Reg!registrationSaved, Reg!auth
<1>2. n \in 1 .. Len(challenges)
  BY <1>0, <1>1, RequestOf, RowNumbers DEF CallOK, Call, Reg!None
<1>3. challenges[n] \in ChallengeRow
  <2>1. challenges \in Seq(ChallengeRow)
    BY DEF RegInv, RowsTyped
  <2> QED BY <1>2, <2>1, ElementOfSeq
<1>4. w \in Wallets /\ w \in Reg!AllWallets /\ g \in RegistrationRow /\ g.wallet = w
  BY <1>0, <1>3 DEF ChallengeRow, Reg!AllWallets, Reg!Registration, RegistrationRow, Status
<1>5. id \in Nat /\ id # 0 /\ (Postgres => regIndex[w] = Reg!None)
  BY <1>0, <1>1, <1>4, RowNumbers DEF Reg!UniqueWallet, RegInv, RowsTyped
<1>6. agents' = agents \cup {w} /\ agents' \subseteq Reg!AllWallets
  BY <1>1, <1>4 DEF Reg!saveAgent, RegInv, RowsTyped
<1>7. /\ regs' \in Seq(RegistrationRow) /\ Len(regs') \in Nat /\ Len(regs) <= Len(regs')
      /\ id \in 1 .. Len(regs') /\ regs'[id] = g
      /\ \A i \in 1 .. Len(regs') : i # id => i \in 1 .. Len(regs) /\ regs'[i] = regs[i]
      /\ \A i \in 1 .. Len(regs) : i \in 1 .. Len(regs') /\ regs'[i].wallet = regs[i].wallet
      /\ regIndex' \in [Reg!AllWallets -> 0 .. Len(regs')] /\ Indexed'
  BY <1>0, <1>1, <1>4, <1>5, <1>6, RegistrationSaved
<1>8. /\ challenges' \in Seq(ChallengeRow) /\ Len(challenges') = Len(challenges)
      /\ challenges'[n].consumed
      /\ \A m \in 1 .. Len(challenges) : /\ challenges'[m].wallet = challenges[m].wallet
                                         /\ challenges[m].consumed => challenges'[m].consumed
  BY <1>1, <1>2, Consumes
<1>9. \A i \in judgeList : regs'[i] = regs[i]
  BY <1>0, <1>7, RowNumbers DEF RegInv, RowsTyped
<1>10. registered' \in Seq(Nat) /\ RegistrationsUsed'
  <2>1. registered \in Seq(Nat) /\ n \in Nat
    BY <1>2, RowNumbers DEF RegInv, RowsTyped
  <2>2. RegistrationsUsed' \/ registered' # registered
    BY <1>8, RowNumbers, UsesStay
  <2>3. CASE challenges[n].consumed
    BY <1>1, <2>1, <2>2, <2>3
  <2>4. CASE ~challenges[n].consumed
    <3>1. /\ registered' = Append(registered, n) /\ registered' \in Seq(Nat)
          /\ Len(registered') = Len(registered) + 1 /\ registered'[Len(registered) + 1] = n
          /\ \A i \in 1 .. Len(registered) : registered'[i] = registered[i]
      BY <1>1, <2>1, <2>4, AppendProperties
    <3>2. \A i \in 1 .. Len(registered) : registered[i] # n
      BY <2>4 DEF RegInv, RegistrationsUsed
    <3>3. Len(registered) \in Nat
      BY <2>1
    <3>4. \A i \in 1 .. Len(registered') : i \in 1 .. Len(registered) \/ i = Len(registered) + 1
      BY <3>1, <3>3
    <3>5. \A i \in 1 .. Len(registered') :
             registered'[i] \in 1 .. Len(challenges') /\ challenges'[registered'[i]].consumed
      BY <1>2, <1>8, <3>1, <3>4 DEF RegInv, RegistrationsUsed
    <3>6. \A i, j \in 1 .. Len(registered') : registered'[i] = registered'[j] => i = j
      BY <3>1, <3>2, <3>4 DEF RegInv, RegistrationsUsed
    <3> QED BY <3>1, <3>5, <3>6 DEF RegistrationsUsed
  <2> QED BY <2>3, <2>4
<1>11. RowsTyped' /\ RowsStay
  <2>1. judgeList' \subseteq 1 .. Len(regs') /\ judgeIndex' \in [Reg!AllWallets -> judgeList' \cup {Reg!None}]
    BY <1>1, <1>7 DEF RegInv, RowsTyped
  <2>2. RowsTyped'
    BY <1>1, <1>6, <1>7, <1>8, <1>10, <2>1 DEF RegInv, RowsTyped
  <2> QED BY <1>7, <1>8, <2>2, RowNumbers DEF RowsStay
<1>12. JudgesIndexed'
  <2>1. \A x \in Reg!AllWallets : judgeIndex[x] # Reg!None => judgeIndex[x] \in judgeList
    BY DEF RegInv, RowsTyped
  <2> QED BY <1>1, <1>9, <2>1 DEF RegInv, JudgesIndexed
<1>13. SessionsUsed'
  BY <1>1, <1>8, RowNumbers, UsesStay
<1>14. l \in Call /\ ~Overwrites(l) /\ CallOK(l)'
  <2>1. CASE l = Reg!Idle
    <3>1. l \in Call /\ l.pc = "idle" /\ l.nonce = 0 /\ l.id = 0
      BY <2>1, IdleIsOK DEF Reg!Idle, Reg!None
    <3> QED BY <1>7, <1>8, <3>1, RowNumbers DEF CallOK, Overwrites, Reg!None
  <2>2. CASE l = [Reg!Idle EXCEPT !.pc = "list", !.id = id]
    <3>1. l \in Call /\ l.pc = "list" /\ l.op = "none" /\ l.nonce = 0 /\ l.id = id
      BY <1>5, <2>2 DEF Reg!Idle, Call, Reg!None
    <3> QED BY <1>5, <1>7, <1>8, <3>1, RowNumbers DEF CallOK, Overwrites, Reg!None
  <2> QED BY <1>0, <2>1, <2>2
<1>15. CallsOK'
  BY <1>1, <1>11, <1>14, CallsStep DEF Reg!Goto
<1>16. Admissions'
  <2>1. ASSUME Reg!OneAtATime
        PROVE  \A q \in Requests : Overwrites(request'[q]) => regs'[request'[q].id] = request'[q].seen
    BY <1>1, <1>14, <2>1, OnlyThisOne DEF Reg!Goto
  <2>2. ASSUME Reg!OneAtATime, NEW i \in 1 .. Len(regs'), regs'[i].wallet \in DemoWallets
        PROVE  regs'[i].status = "judge_listed"
    BY <1>4, <1>7, <2>2 DEF RegInv, Admissions, Listed
  <2> QED BY <1>1, <1>9, <2>1, <2>2 DEF RegInv, Admissions, Listed, Overwrites
<1> QED BY <1>7, <1>10, <1>11, <1>12, <1>13, <1>15, <1>16 DEF RegInv

(* Login saves the registration it read, which was of the same wallet. *)
LEMMA LoginKeeps ==
  ASSUME RegInv, NEW r \in Requests, Reg!finishLogin(r)
  PROVE  RegInv'
<1>0. PICK n, id, g : n = request[r].nonce /\ id = request[r].id /\ g = request[r].seen
  OBVIOUS
<1>1. /\ request[r].pc = "verify" /\ request[r].op = "login" /\ Reg!saveRegistration(id, g)
      /\ IF challenges[n].consumed THEN UNCHANGED sessions ELSE Reg!issue(g.wallet, n)
      /\ Reg!consumeChallenge(n) /\ Reg!Goto(r, Reg!Idle)
      /\ UNCHANGED <<judgeList, judgeIndex, agents, secret, registered, joined>>
  BY <1>0 DEF Reg!finishLogin, Reg!history, Reg!Finish
<1>2. /\ n \in 1 .. Len(challenges) /\ id \in 1 .. Len(regs) /\ g \in RegistrationRow
      /\ regs[id].wallet = g.wallet /\ challenges[n].wallet = g.wallet
  BY <1>0, <1>1, RequestOf, RowNumbers DEF CallOK, Call, Overwrites, Reg!None
<1>3. g.wallet \in agents /\ g.wallet \in Reg!AllWallets /\ id \in Nat /\ n \in Nat
  BY <1>2, RowNumbers DEF RegInv, Indexed, RegistrationRow
<1>4. /\ regs' \in Seq(RegistrationRow) /\ Len(regs') \in Nat /\ Len(regs) <= Len(regs')
      /\ id \in 1 .. Len(regs') /\ regs'[id] = g
      /\ \A i \in 1 .. Len(regs') : i # id => i \in 1 .. Len(regs) /\ regs'[i] = regs[i]
      /\ \A i \in 1 .. Len(regs) : i \in 1 .. Len(regs') /\ regs'[i].wallet = regs[i].wallet
      /\ regIndex' \in [Reg!AllWallets -> 0 .. Len(regs')] /\ Indexed'
  BY <1>1, <1>2, <1>3, RegistrationSaved
<1>5. /\ challenges' \in Seq(ChallengeRow) /\ Len(challenges') = Len(challenges)
      /\ challenges'[n].consumed
      /\ \A m \in 1 .. Len(challenges) : /\ challenges'[m].wallet = challenges[m].wallet
                                         /\ challenges[m].consumed => challenges'[m].consumed
  BY <1>1, <1>2, Consumes
<1>6. sessions' \in Seq(SessionRow) /\ SessionsUsed'
  <2>1. sessions \in Seq(SessionRow) /\ Len(sessions) \in Nat /\ secret \in Nat
    BY DEF RegInv, RowsTyped
  <2>2. SessionsUsed' \/ sessions' # sessions
    BY <1>5, RowNumbers, UsesStay
  <2>3. CASE challenges[n].consumed
    BY <1>1, <2>1, <2>2, <2>3
  <2>4. CASE ~challenges[n].consumed
    <3> DEFINE s == [wallet |-> g.wallet, nonce |-> n, secret |-> secret, expired |-> FALSE]
    <3>1. s \in SessionRow /\ s.nonce = n /\ s.wallet = g.wallet
      BY <1>3, <2>1 DEF SessionRow
    <3>2. sessions' = Append(sessions, s)
      BY <1>1, <2>4 DEF Reg!issue
    <3> HIDE DEF s
    <3>3. /\ sessions' \in Seq(SessionRow) /\ Len(sessions') = Len(sessions) + 1
          /\ sessions'[Len(sessions) + 1] = s
          /\ \A i \in 1 .. Len(sessions) : sessions'[i] = sessions[i]
      BY <2>1, <3>1, <3>2, AppendProperties
    <3>4. \A i \in 1 .. Len(sessions') : i \in 1 .. Len(sessions) \/ i = Len(sessions) + 1
      BY <2>1, <3>3
    <3>5. \A i \in 1 .. Len(sessions) : sessions[i].nonce # Reg!None =>
             /\ sessions[i].nonce \in 1 .. Len(challenges) /\ sessions[i].nonce # n
      <4> SUFFICES ASSUME NEW i \in 1 .. Len(sessions), sessions[i].nonce # Reg!None
                   PROVE  sessions[i].nonce \in 1 .. Len(challenges) /\ sessions[i].nonce # n
        OBVIOUS
      <4>1. sessions[i] \in SessionRow
        BY <2>1, ElementOfSeq
      <4>2. sessions[i].nonce \in Nat
        BY <4>1 DEF SessionRow
      <4> QED BY <2>4, <4>2, RowNumbers DEF RegInv, SessionsUsed, Reg!None
    <3>6. \A i \in 1 .. Len(sessions') : sessions'[i].nonce # Reg!None =>
             /\ sessions'[i].nonce <= Len(challenges') /\ challenges'[sessions'[i].nonce].consumed
             /\ challenges'[sessions'[i].nonce].wallet = sessions'[i].wallet
      <4> SUFFICES ASSUME NEW i \in 1 .. Len(sessions'), sessions'[i].nonce # Reg!None
                   PROVE  /\ sessions'[i].nonce <= Len(challenges')
                          /\ challenges'[sessions'[i].nonce].consumed
                          /\ challenges'[sessions'[i].nonce].wallet = sessions'[i].wallet
        OBVIOUS
      <4>1. CASE i \in 1 .. Len(sessions)
        <5>1. sessions'[i] = sessions[i] /\ sessions[i].nonce \in 1 .. Len(challenges)
          BY <3>3, <3>5, <4>1
        <5>2. /\ challenges[sessions[i].nonce].consumed
              /\ challenges[sessions[i].nonce].wallet = sessions[i].wallet
          BY <4>1, <5>1 DEF RegInv, SessionsUsed
        <5> QED BY <1>5, <5>1, <5>2, RowNumbers
      <4>2. CASE i = Len(sessions) + 1
        BY <1>2, <1>5, <3>1, <3>3, <4>2, RowNumbers
      <4> QED BY <3>4, <4>1, <4>2
    <3>7. \A i, j \in 1 .. Len(sessions') :
             sessions'[i].nonce # Reg!None /\ sessions'[i].nonce = sessions'[j].nonce => i = j
      BY <3>1, <3>3, <3>4, <3>5 DEF RegInv, SessionsUsed
    <3>8. Postgres => \A i \in 1 .. Len(sessions') : sessions'[i].nonce # Reg!None
      BY <1>2, <3>1, <3>3, <3>4 DEF RegInv, SessionsUsed, Reg!None
    <3> QED BY <3>3, <3>6, <3>7, <3>8 DEF SessionsUsed
  <2> QED BY <2>3, <2>4
<1>7. RowsTyped' /\ RowsStay
  <2>1. judgeList' \subseteq 1 .. Len(regs') /\ judgeIndex' \in [Reg!AllWallets -> judgeList' \cup {Reg!None}]
    BY <1>1, <1>4 DEF RegInv, RowsTyped
  <2>2. RowsTyped'
    BY <1>1, <1>4, <1>5, <1>6, <2>1 DEF RegInv, RowsTyped
  <2> QED BY <1>4, <1>5, <2>2, RowNumbers DEF RowsStay
<1>8. JudgesIndexed'
  <2>1. \A x \in Reg!AllWallets : judgeIndex[x] # Reg!None => judgeIndex[x] \in 1 .. Len(regs)
    BY DEF RegInv, RowsTyped
  <2>2. judgeList \subseteq 1 .. Len(regs)
    BY DEF RegInv, RowsTyped
  <2> QED BY <1>1, <1>4, <2>1, <2>2 DEF RegInv, JudgesIndexed
<1>9. RegistrationsUsed'
  BY <1>1, <1>5, RowNumbers, UsesStay
<1>10. Reg!Idle \in Call /\ ~Overwrites(Reg!Idle) /\ CallOK(Reg!Idle)'
  BY <1>4, <1>5, IdleIsOK, RowNumbers DEF CallOK, Overwrites, Reg!Idle, Reg!None
<1>11. CallsOK'
  BY <1>1, <1>7, <1>10, CallsStep DEF Reg!Goto
<1>12. Admissions'
  <2>1. ASSUME Reg!OneAtATime
        PROVE  \A q \in Requests : Overwrites(request'[q]) => regs'[request'[q].id] = request'[q].seen
    BY <1>1, <1>10, <2>1, OnlyThisOne DEF Reg!Goto
  <2>2. ASSUME Reg!OneAtATime PROVE \A i \in 1 .. Len(regs') : i \in 1 .. Len(regs) /\ regs'[i] = regs[i]
    BY <1>0, <1>1, <1>2, <1>4, <2>2 DEF RegInv, Admissions, Overwrites
  <2>3. judgeList \subseteq 1 .. Len(regs) /\ 1 .. Len(regs) \subseteq 1 .. Len(regs')
    BY <1>4 DEF RegInv, RowsTyped
  <2> QED BY <1>1, <2>1, <2>2, <2>3 DEF RegInv, Admissions, Listed, Overwrites
<1> QED BY <1>4, <1>6, <1>7, <1>8, <1>9, <1>11, <1>12 DEF RegInv

(* Admission: the registration is saved over its own row, and listed. *)
LEMMA AdmitKeeps ==
  ASSUME RegInv, NEW r \in Requests, request[r].pc = "join", Reg!admit(r), Reg!Finish(r),
         UNCHANGED <<Reg!auth, registered>>
  PROVE  RegInv'
<1>0. PICK id, w, g : /\ id = request[r].id /\ w = request[r].seen.wallet
                      /\ g = [request[r].seen EXCEPT !.status = "judge_listed"]
  OBVIOUS
<1>1. /\ id \notin judgeList /\ Reg!UniqueWallet(judgeIndex, w, id) /\ Reg!saveRegistration(id, g)
      /\ Reg!saveAgent(w) /\ Reg!saveJudgeListEntry(id, w) /\ joined' = joined \cup {w}
      /\ UNCHANGED <<challenges, sessions, secret, registered>> /\ Reg!Goto(r, Reg!Idle)
  BY <1>0 DEF Reg!admit, Reg!Finish, Reg!auth
<1>2. id \in 1 .. Len(regs) /\ request[r].seen \in RegistrationRow /\ regs[id].wallet = w
  BY <1>0, RequestOf, RowNumbers DEF CallOK, Call, Overwrites, Reg!None
<1>3. /\ g \in RegistrationRow /\ g.wallet = w /\ g.status = "judge_listed"
      /\ w \in Reg!AllWallets /\ id \in Nat
  BY <1>0, <1>2, RowNumbers DEF RegistrationRow, Status
<1>4. agents' = agents \cup {w} /\ agents' \subseteq Reg!AllWallets
  BY <1>1, <1>3 DEF Reg!saveAgent, RegInv, RowsTyped
<1>5. /\ regs' \in Seq(RegistrationRow) /\ Len(regs') \in Nat /\ Len(regs) <= Len(regs')
      /\ id \in 1 .. Len(regs') /\ regs'[id] = g
      /\ \A i \in 1 .. Len(regs') : i # id => i \in 1 .. Len(regs) /\ regs'[i] = regs[i]
      /\ \A i \in 1 .. Len(regs) : i \in 1 .. Len(regs') /\ regs'[i].wallet = regs[i].wallet
      /\ regIndex' \in [Reg!AllWallets -> 0 .. Len(regs')] /\ Indexed'
  BY <1>1, <1>2, <1>3, <1>4, RegistrationSaved
<1>6. /\ judgeList' \subseteq 1 .. Len(regs')
      /\ judgeIndex' \in [Reg!AllWallets -> judgeList' \cup {Reg!None}]
      /\ JudgesIndexed' /\ judgeList' = judgeList \cup {id}
      /\ judgeIndex'[w] # Reg!None /\ \A x \in Reg!AllWallets : judgeIndex[x] # Reg!None => judgeIndex'[x] # Reg!None
  <2>1. Postgres => judgeIndex[w] \in {Reg!None, id}
    BY <1>1 DEF Reg!UniqueWallet
  <2> QED BY <1>1, <1>3, <1>5, <2>1, EntrySaved
<1>7. RowsTyped' /\ RowsStay
  <2>1. RowsTyped'
    BY <1>1, <1>3, <1>4, <1>5, <1>6 DEF RegInv, RowsTyped
  <2> QED BY <1>1, <1>5, <2>1, RowNumbers DEF RowsStay
<1>8. RegistrationsUsed' /\ SessionsUsed'
  BY <1>1 DEF RegInv, RegistrationsUsed, SessionsUsed
<1>9. Reg!Idle \in Call /\ ~Overwrites(Reg!Idle) /\ CallOK(Reg!Idle)'
  BY <1>1, <1>5, IdleIsOK, RowNumbers DEF CallOK, Overwrites, Reg!Idle, Reg!None
<1>10. CallsOK'
  BY <1>1, <1>7, <1>9, CallsStep DEF Reg!Goto
<1>11. Admissions'
  <2>1. ASSUME Reg!OneAtATime
        PROVE  \A q \in Requests : Overwrites(request'[q]) => regs'[request'[q].id] = request'[q].seen
    BY <1>1, <1>9, <2>1, OnlyThisOne DEF Reg!Goto
  <2>2. \A i \in 1 .. Len(regs') : i = id \/ (i \in 1 .. Len(regs) /\ regs'[i] = regs[i])
    BY <1>5
  <2>3. ASSUME Reg!OneAtATime, NEW i \in judgeList' PROVE regs'[i].status = "judge_listed"
    BY <1>3, <1>5, <1>6, <2>2, <2>3 DEF RegInv, Admissions, Listed
  <2>4. ASSUME Reg!OneAtATime, NEW i \in 1 .. Len(regs'), regs'[i].wallet \in DemoWallets
        PROVE  regs'[i].status = "judge_listed"
    BY <1>3, <1>5, <2>2, <2>4 DEF RegInv, Admissions, Listed
  <2>5. ASSUME Reg!OneAtATime, NEW x \in joined' PROVE judgeIndex'[x] # Reg!None
    BY <1>1, <1>6, <2>5 DEF RegInv, Admissions, RowsTyped
  <2> QED BY <2>1, <2>3, <2>4, <2>5 DEF Admissions, Listed, Overwrites
<1> QED BY <1>5, <1>6, <1>7, <1>8, <1>10, <1>11 DEF RegInv

(* Who is listed already is told so. *)
LEMMA AlreadyKeeps ==
  ASSUME RegInv, NEW r \in Requests, request[r].pc = "join", Reg!alreadyAdmitted(r), Reg!Finish(r),
         UNCHANGED <<Reg!auth, registered>>
  PROVE  RegInv'
<1>0. PICK id, w : id = request[r].id /\ w = request[r].seen.wallet
  OBVIOUS
<1>1. /\ UNCHANGED <<challenges, regs, regIndex, judgeList, judgeIndex, agents,
                     sessions, secret, registered>>
      /\ joined' = joined \/ (joined' = joined \cup {w} /\ id \in judgeList)
      /\ Reg!Goto(r, Reg!Idle)
  BY <1>0 DEF Reg!alreadyAdmitted, Reg!tables, Reg!auth, Reg!Finish
<1>2. id \in 1 .. Len(regs) /\ regs[id].wallet = w /\ w \in Reg!AllWallets
  BY <1>0, RequestOf, RowNumbers DEF CallOK, Call, Overwrites, RegistrationRow, Reg!None
<1>3. RowsTyped'
  BY <1>1, <1>2 DEF RegInv, RowsTyped
<1>4. RowsStay
  BY <1>1, RowNumbers DEF RowsStay
<1>5. Reg!Idle \in Call /\ ~Overwrites(Reg!Idle) /\ CallOK(Reg!Idle)'
  BY <1>1, IdleIsOK, RowNumbers DEF CallOK, Overwrites, Reg!Idle, Reg!None
<1>6. CallsOK'
  BY <1>1, <1>3, <1>4, <1>5, CallsStep DEF Reg!Goto
<1>7. Indexed' /\ JudgesIndexed' /\ RegistrationsUsed' /\ SessionsUsed'
  BY <1>1 DEF RegInv, Indexed, JudgesIndexed, RegistrationsUsed, SessionsUsed
<1>8. Admissions'
  <2>1. ASSUME Reg!OneAtATime
        PROVE  \A q \in Requests : Overwrites(request'[q]) => regs'[request'[q].id] = request'[q].seen
    BY <1>1, <1>5, <2>1, OnlyThisOne DEF Reg!Goto
  <2>2. id \in judgeList => judgeIndex[w] # Reg!None
    BY <1>2 DEF RegInv, JudgesIndexed
  <2> QED BY <1>1, <2>1, <2>2 DEF RegInv, Admissions, Listed, Overwrites
<1> QED BY <1>3, <1>6, <1>7, <1>8 DEF RegInv

(* A bootstrap finds the wallet's entry and refreshes it, or asks to join. *)
LEMMA BootstrapKeeps ==
  ASSUME RegInv, NEW r \in Requests, Reg!bootstrap(r)
  PROVE  RegInv'
<1>0. PICK w, entry : w = regs[request[r].id].wallet /\ entry = judgeIndex[w]
  OBVIOUS
<1>1. request[r].id \in 1 .. Len(regs) /\ request[r].pc = "list"
  BY RequestOf, RowNumbers DEF Reg!bootstrap, CallOK, Call, Reg!None
<1>2. w \in Reg!AllWallets
  BY <1>0, <1>1, RowsOf
<1>3. CASE Reg!joinJudgeList(r, request[r].id)
  BY <1>1, <1>3, JoinBegins
<1>4. CASE /\ entry # Reg!None /\ Reg!saveAgent(w) /\ Reg!saveJudgeListEntry(entry, w)
           /\ joined' = joined \cup {w}
           /\ Reg!Finish(r) /\ UNCHANGED <<challenges, regs, regIndex, Reg!auth, registered>>
  <2>1. entry \in judgeList /\ entry \in 1 .. Len(regs) /\ regs[entry].wallet = w /\ entry \in Nat
    <3>1. judgeIndex \in [Reg!AllWallets -> judgeList \cup {Reg!None}] /\ judgeList \subseteq 1 .. Len(regs)
      BY DEF RegInv, RowsTyped
    <3>2. entry \in judgeList
      BY <1>0, <1>2, <1>4, <3>1
    <3>3. regs[entry].wallet = w
      BY <1>0, <1>2, <1>4 DEF RegInv, JudgesIndexed
    <3> QED BY <3>1, <3>2, <3>3, RowNumbers
  <2>2. w \in agents /\ agents' = agents
    BY <1>4, <2>1 DEF RegInv, Indexed, Reg!saveAgent
  <2>3. UNCHANGED <<challenges, regs, regIndex, sessions, secret, registered>> /\ Reg!Goto(r, Reg!Idle)
    BY <1>4 DEF Reg!auth, Reg!Finish
  <2>4. /\ judgeList' \subseteq 1 .. Len(regs')
        /\ judgeIndex' \in [Reg!AllWallets -> judgeList' \cup {Reg!None}]
        /\ JudgesIndexed' /\ judgeList' = judgeList \cup {entry}
        /\ judgeIndex'[w] # Reg!None /\ \A x \in Reg!AllWallets : judgeIndex[x] # Reg!None => judgeIndex'[x] # Reg!None
    <3>1. /\ regs' \in Seq(RegistrationRow) /\ Len(regs) <= Len(regs')
          /\ \A i \in 1 .. Len(regs) : regs'[i].wallet = regs[i].wallet
          /\ entry \in 1 .. Len(regs') /\ regs'[entry].wallet = w
          /\ judgeIndex[w] \in {Reg!None, entry}
      BY <1>0, <2>1, <2>3, RowNumbers DEF RegInv, RowsTyped
    <3> QED BY <1>2, <1>4, <2>1, <3>1, EntrySaved
  <2>5. RowsTyped' /\ RowsStay
    <3>1. RowsTyped'
      BY <1>2, <1>4, <2>2, <2>3, <2>4 DEF RegInv, RowsTyped
    <3> QED BY <2>3, <3>1, RowNumbers DEF RowsStay
  <2>6. Reg!Idle \in Call /\ ~Overwrites(Reg!Idle) /\ CallOK(Reg!Idle)'
    BY <2>3, IdleIsOK, RowNumbers DEF CallOK, Overwrites, Reg!Idle, Reg!None
  <2>7. CallsOK'
    BY <2>3, <2>5, <2>6, CallsStep DEF Reg!Goto
  <2>8. Indexed' /\ RegistrationsUsed' /\ SessionsUsed'
    BY <2>2, <2>3 DEF RegInv, Indexed, RegistrationsUsed, SessionsUsed
  <2>9. Admissions'
    <3>1. ASSUME Reg!OneAtATime
          PROVE  \A q \in Requests : Overwrites(request'[q]) =>
             regs'[request'[q].id] = request'[q].seen
      BY <2>3, <2>6, <3>1, OnlyThisOne DEF Reg!Goto
    <3>2. ASSUME Reg!OneAtATime, NEW x \in joined' PROVE judgeIndex'[x] # Reg!None
      BY <1>4, <2>4, <3>2 DEF RegInv, Admissions, RowsTyped
    <3> QED BY <2>1, <2>3, <2>4, <3>1, <3>2 DEF RegInv, Admissions, Listed, Overwrites
  <2> QED BY <2>4, <2>5, <2>7, <2>8, <2>9 DEF RegInv
<1>5. \/ Reg!joinJudgeList(r, request[r].id)
      \/ /\ entry # Reg!None /\ Reg!saveAgent(w) /\ Reg!saveJudgeListEntry(entry, w) /\ joined' = joined \cup {w}
         /\ Reg!Finish(r) /\ UNCHANGED <<challenges, regs, regIndex, Reg!auth, registered>>
  BY <1>0 DEF Reg!bootstrap, Reg!getJudgeListEntryByWallet
<1> QED BY <1>3, <1>4, <1>5

(* The base agents of the demo mode have registrations of their own, and   *)
(* their requests find nothing to change back.                             *)
LEMMA SeedKeeps ==
  ASSUME RegInv, NEW w \in DemoWallets, Reg!seedJudgeListedAgent(w)
  PROVE  RegInv'
<1>0. PICK id, g : /\ id = IF regIndex[w] = Reg!None THEN Len(regs) + 1 ELSE regIndex[w]
                   /\ g = Reg!Registration(w, "judge_listed")
  OBVIOUS
<1>1. /\ Reg!saveRegistration(id, g) /\ Reg!saveJudgeListEntry(id, w) /\ Reg!saveAgent(w)
      /\ joined' = joined \cup {w}
      /\ UNCHANGED <<challenges, sessions, secret, request, registered>>
  BY <1>0 DEF Reg!seedJudgeListedAgent, Reg!auth
<1>2. w \in Reg!AllWallets /\ g \in RegistrationRow /\ g = [wallet |-> w, status |-> "judge_listed"]
  BY <1>0 DEF Reg!AllWallets, Reg!Registration, RegistrationRow, Status
<1>3. /\ id \in Nat
      /\ \/ id \in 1 .. Len(regs) /\ regs[id].wallet = w
         \/ id = Len(regs) + 1 /\ regIndex[w] = Reg!None
  BY <1>0, <1>2, RowNumbers DEF RegInv, RowsTyped, Indexed, Reg!None
<1>4. agents' = agents \cup {w} /\ agents' \subseteq Reg!AllWallets
  BY <1>1, <1>2 DEF Reg!saveAgent, RegInv, RowsTyped
<1>5. /\ regs' \in Seq(RegistrationRow) /\ Len(regs') \in Nat /\ Len(regs) <= Len(regs')
      /\ id \in 1 .. Len(regs') /\ regs'[id] = g
      /\ \A i \in 1 .. Len(regs') : i # id => i \in 1 .. Len(regs) /\ regs'[i] = regs[i]
      /\ \A i \in 1 .. Len(regs) : i \in 1 .. Len(regs') /\ regs'[i].wallet = regs[i].wallet
      /\ regIndex' \in [Reg!AllWallets -> 0 .. Len(regs')] /\ Indexed'
  BY <1>1, <1>2, <1>3, <1>4, RegistrationSaved
<1>6. Postgres => judgeIndex[w] \in {Reg!None, id}
  <2>1. SUFFICES ASSUME Postgres, judgeIndex[w] # Reg!None PROVE judgeIndex[w] = id
    OBVIOUS
  <2>2. judgeIndex \in [Reg!AllWallets -> judgeList \cup {Reg!None}] /\ judgeList \subseteq 1 .. Len(regs)
    BY DEF RegInv, RowsTyped
  <2>3. judgeIndex[w] \in 1 .. Len(regs) /\ regs[judgeIndex[w]].wallet = w
    BY <1>2, <2>1, <2>2 DEF RegInv, JudgesIndexed
  <2>4. regIndex[w] = judgeIndex[w]
    BY <2>1, <2>3 DEF RegInv, Indexed
  <2> QED BY <1>0, <2>1, <2>4
<1>7. /\ judgeList' \subseteq 1 .. Len(regs')
      /\ judgeIndex' \in [Reg!AllWallets -> judgeList' \cup {Reg!None}]
      /\ JudgesIndexed' /\ judgeList' = judgeList \cup {id}
      /\ judgeIndex'[w] # Reg!None /\ \A x \in Reg!AllWallets : judgeIndex[x] # Reg!None => judgeIndex'[x] # Reg!None
  BY <1>1, <1>2, <1>3, <1>5, <1>6, EntrySaved
<1>8. RowsTyped' /\ RowsStay
  <2>1. RowsTyped'
    BY <1>1, <1>2, <1>4, <1>5, <1>7 DEF RegInv, RowsTyped
  <2> QED BY <1>1, <1>5, <2>1, RowNumbers DEF RowsStay
<1>9. RegistrationsUsed' /\ SessionsUsed'
  BY <1>1 DEF RegInv, RegistrationsUsed, SessionsUsed
<1>10. CallsOK'
  BY <1>1, <1>8, CallsStay
<1>11. Admissions'
  <2>1. \A i \in 1 .. Len(regs') : i = id \/ (i \in 1 .. Len(regs) /\ regs'[i] = regs[i])
    BY <1>5
  <2>2. ASSUME Reg!OneAtATime, NEW i \in judgeList' PROVE regs'[i].status = "judge_listed"
    BY <1>2, <1>5, <1>7, <2>1, <2>2 DEF RegInv, Admissions, Listed
  <2>3. ASSUME Reg!OneAtATime, NEW i \in 1 .. Len(regs'), regs'[i].wallet \in DemoWallets
        PROVE  regs'[i].status = "judge_listed"
    BY <1>2, <1>5, <2>1, <2>3 DEF RegInv, Admissions, Listed
  <2>4. ASSUME Reg!OneAtATime, NEW x \in joined' PROVE judgeIndex'[x] # Reg!None
    BY <1>1, <1>7, <2>4 DEF RegInv, Admissions, RowsTyped
  <2>5. ASSUME Reg!OneAtATime, NEW q \in Requests, Overwrites(request[q])
        PROVE  regs'[request[q].id] = request[q].seen
    <3>1. request[q].id \in 1 .. Len(regs) /\ regs[request[q].id] = request[q].seen
      BY <2>5, RequestOf, RowNumbers DEF RegInv, Admissions, CallOK, Call, Reg!None
    <3>2. CASE request[q].id # id
      BY <1>5, <3>1, <3>2
    <3>3. CASE request[q].id = id
      <4>1. regs[id].wallet = w /\ regs[id].status = "judge_listed" /\ regs[id] \in RegistrationRow
        BY <1>3, <2>5, <3>1, <3>3, RowsOf, RowNumbers DEF RegInv, Admissions, Listed
      <4>2. regs[id] = g
        BY <1>2, <4>1 DEF RegistrationRow
      <4> QED BY <1>5, <3>1, <3>3, <4>2
    <3> QED BY <3>2, <3>3
  <2> QED BY <1>1, <2>2, <2>3, <2>4, <2>5 DEF Admissions, Listed, Overwrites
<1> QED BY <1>5, <1>7, <1>8, <1>9, <1>10, <1>11 DEF RegInv

(* Time runs out for challenges and sessions, not for what was made of them. *)
LEMMA ExpireKeeps ==
  ASSUME RegInv, Reg!expire
  PROVE  RegInv'
<1>1. UNCHANGED <<regs, regIndex, judgeList, judgeIndex, agents, secret, request, registered, joined>>
  BY DEF Reg!expire, Reg!history
<1>2. CASE \E n \in DOMAIN challenges :
             challenges' = [challenges EXCEPT ![n].expired = TRUE] /\ sessions' = sessions
  <2>1. PICK n \in DOMAIN challenges :
             challenges' = [challenges EXCEPT ![n].expired = TRUE] /\ sessions' = sessions
    BY <1>2
  <2>2. challenges \in Seq(ChallengeRow) /\ n \in 1 .. Len(challenges)
    BY RowNumbers DEF RegInv, RowsTyped
  <2>3. PICK c : c = [challenges[n] EXCEPT !.expired = TRUE]
    OBVIOUS
  <2>4. challenges[n] \in ChallengeRow
    BY <2>2, ElementOfSeq
  <2>5. c \in ChallengeRow /\ c.wallet = challenges[n].wallet /\ c.consumed = challenges[n].consumed
    BY <2>3, <2>4 DEF ChallengeRow
  <2>6. /\ challenges' \in Seq(ChallengeRow) /\ Len(challenges') = Len(challenges)
        /\ \A m \in 1 .. Len(challenges) : /\ challenges'[m].wallet = challenges[m].wallet
                                           /\ challenges[m].consumed => challenges'[m].consumed
    <3>1. challenges' = [challenges EXCEPT ![n] = c]
      BY <2>1, <2>3
    <3> QED BY <2>2, <2>5, <3>1
  <2>7. RowsTyped'
    BY <1>1, <2>1, <2>6 DEF RegInv, RowsTyped
  <2>8. RowsStay
    BY <1>1, <2>6, RowNumbers DEF RowsStay
  <2>9. RegistrationsUsed' /\ SessionsUsed'
    BY <1>1, <2>1, <2>6, RowNumbers, UsesStay
  <2>10. CallsOK'
    BY <1>1, <2>7, <2>8, CallsStay
  <2> QED BY <1>1, <2>7, <2>9, <2>10
       DEF RegInv, Indexed, JudgesIndexed, Admissions, Listed, Overwrites
<1>3. CASE \E s \in DOMAIN sessions :
             sessions' = [sessions EXCEPT ![s].expired = TRUE] /\ challenges' = challenges
  <2>1. PICK s \in DOMAIN sessions :
             sessions' = [sessions EXCEPT ![s].expired = TRUE] /\ challenges' = challenges
    BY <1>3
  <2>2. sessions \in Seq(SessionRow) /\ s \in 1 .. Len(sessions) /\ Len(sessions) \in Nat
    BY DEF RegInv, RowsTyped
  <2>3. PICK c : c = [sessions[s] EXCEPT !.expired = TRUE]
    OBVIOUS
  <2>4. sessions[s] \in SessionRow
    BY <2>2, ElementOfSeq
  <2>5. c \in SessionRow /\ c.wallet = sessions[s].wallet /\ c.nonce = sessions[s].nonce
    BY <2>3, <2>4 DEF SessionRow
  <2>6. /\ sessions' \in Seq(SessionRow) /\ Len(sessions') = Len(sessions)
        /\ \A m \in 1 .. Len(sessions) : /\ sessions'[m].wallet = sessions[m].wallet
                                         /\ sessions'[m].nonce = sessions[m].nonce
    <3>1. sessions' = [sessions EXCEPT ![s] = c]
      BY <2>1, <2>3
    <3> QED BY <2>2, <2>5, <3>1
  <2>7. RowsTyped'
    BY <1>1, <2>1, <2>6 DEF RegInv, RowsTyped
  <2>8. RowsStay
    BY <1>1, <2>1, RowNumbers DEF RowsStay
  <2>9. SessionsUsed'
    BY <2>1, <2>6 DEF RegInv, SessionsUsed
  <2>10. CallsOK'
    BY <1>1, <2>7, <2>8, CallsStay
  <2> QED BY <1>1, <2>1, <2>7, <2>9, <2>10
       DEF RegInv, Indexed, JudgesIndexed, RegistrationsUsed, Admissions, Listed, Overwrites
<1> QED BY <1>2, <1>3 DEF Reg!expire

(* The invariant holds at first, and every step keeps it. *)
LEMMA InitKeeps == ASSUME Reg!RegistrationAssumption, Reg!Init PROVE RegInv
<1>1. MaxChallenges \in Nat /\ 0 \in Nat
  BY DEF Reg!RegistrationAssumption
<1>2. /\ challenges \in Seq(ChallengeRow) /\ regs \in Seq(RegistrationRow)
      /\ sessions \in Seq(SessionRow) /\ registered \in Seq(Nat)
      /\ Len(challenges) = 0 /\ Len(regs) = 0 /\ Len(sessions) = 0 /\ Len(registered) = 0
  BY EmptySeq DEF Reg!Init
<1>3. RowsTyped
  BY <1>1, <1>2 DEF Reg!Init, RowsTyped, Reg!None
<1>4. CallsOK /\ \A r \in Requests : ~Overwrites(request[r])
  <2>1. Reg!Idle \in Call
    BY DEF Reg!Idle, Call, Reg!None
  <2>2. CallOK(Reg!Idle) /\ ~Overwrites(Reg!Idle)
    BY <1>2, <2>1 DEF CallOK, Overwrites, Reg!Idle, Reg!None
  <2> QED BY <2>1, <2>2 DEF Reg!Init, CallsOK
<1>5. Indexed /\ JudgesIndexed /\ RegistrationsUsed /\ SessionsUsed
  BY <1>2 DEF Reg!Init, Indexed, JudgesIndexed, RegistrationsUsed, SessionsUsed
<1>6. Admissions
  BY <1>2, <1>4 DEF Reg!Init, Admissions
<1> QED BY <1>3, <1>4, <1>5, <1>6 DEF RegInv

(* A restart ends every request; what it finds again is all or nothing. *)
LEMMA RestartKeeps == ASSUME Reg!RegistrationAssumption, RegInv, Reg!restart PROVE RegInv'
<1>1. secret' \in Nat
  BY DEF RegInv, RowsTyped, Reg!restart
<1>2. request' \in [Requests -> Call] /\ \A r \in Requests : request'[r] = Reg!Idle
  BY IdleIsOK DEF Reg!restart
<1>3. ~Overwrites(Reg!Idle)
  BY DEF Reg!Idle, Overwrites
<1>4. CASE Postgres
  <2>1. UNCHANGED <<challenges, regs, regIndex, judgeList, judgeIndex, agents, sessions,
                  registered, joined>>
    BY <1>4 DEF Reg!restart, Reg!tables, Reg!history
  <2>2. RowsTyped'
    BY <1>1, <2>1 DEF RegInv, RowsTyped
  <2>3. CallsOK'
    BY <1>2, <2>1, IdleIsOK DEF CallsOK, CallOK, Overwrites
  <2>4. Indexed' /\ JudgesIndexed' /\ RegistrationsUsed' /\ SessionsUsed'
    BY <2>1 DEF RegInv, Indexed, JudgesIndexed, RegistrationsUsed, SessionsUsed
  <2>5. Admissions'
    BY <1>2, <1>3, <2>1 DEF RegInv, Admissions, Listed, Overwrites
  <2> QED BY <2>2, <2>3, <2>4, <2>5 DEF RegInv
<1>5. CASE ~Postgres
  <2>1. /\ challenges' = <<>> /\ regs' = <<>> /\ registered' = <<>>
        /\ sessions' = [s \in DOMAIN sessions |-> [sessions[s] EXCEPT !.nonce = Reg!None]]
        /\ regIndex' = [w \in Reg!AllWallets |-> Reg!None] /\ judgeIndex' = [w \in Reg!AllWallets |-> Reg!None]
        /\ judgeList' = {} /\ agents' = {} /\ joined' = {}
    BY <1>5 DEF Reg!restart
  <2>2. /\ challenges' \in Seq(ChallengeRow) /\ regs' \in Seq(RegistrationRow)
        /\ registered' \in Seq(Nat)
        /\ Len(challenges') = 0 /\ Len(regs') = 0 /\ Len(registered') = 0
    BY <2>1, EmptySeq
  <2>3. sessions' \in Seq(SessionRow) /\ \A s \in 1 .. Len(sessions') : sessions'[s].nonce = Reg!None
    <3>1. /\ sessions \in Seq(SessionRow) /\ DOMAIN sessions = 1 .. Len(sessions)
          /\ Len(sessions) \in Nat
      BY DEF RegInv, RowsTyped
    <3>2. \A s \in 1 .. Len(sessions) :
             /\ [sessions[s] EXCEPT !.nonce = Reg!None] \in SessionRow
             /\ [sessions[s] EXCEPT !.nonce = Reg!None].nonce = Reg!None
      <4>1. \A s \in 1 .. Len(sessions) : sessions[s] \in SessionRow
        BY <3>1, ElementOfSeq
      <4> QED BY <4>1 DEF SessionRow, Reg!None
    <3>3. /\ sessions' \in [1 .. Len(sessions) -> SessionRow]
          /\ \A s \in 1 .. Len(sessions) : sessions'[s].nonce = Reg!None
      BY <2>1, <3>1, <3>2
    <3>4. sessions' \in Seq(SessionRow) /\ Len(sessions') = Len(sessions)
      BY <3>1, <3>3
    <3> QED BY <3>3, <3>4
  <2>4. RowsTyped'
    <3>1. MaxChallenges \in Nat
      BY DEF Reg!RegistrationAssumption
    <3> QED BY <1>1, <2>1, <2>2, <2>3, <3>1 DEF RowsTyped, Reg!None
  <2>5. CallsOK'
    <3>1. CallOK(Reg!Idle)'
      BY <2>2, IdleIsOK DEF CallOK, Overwrites, Reg!Idle, Reg!None
    <3> QED BY <1>2, <3>1 DEF CallsOK, CallOK, Overwrites
  <2>6. Indexed' /\ JudgesIndexed' /\ RegistrationsUsed'
    BY <2>1, <2>2 DEF Indexed, JudgesIndexed, RegistrationsUsed
  <2>7. SessionsUsed'
    BY <1>5, <2>3 DEF SessionsUsed
  <2>8. Admissions'
    BY <1>2, <1>3, <2>1, <2>2 DEF Admissions, Overwrites
  <2> QED BY <2>4, <2>5, <2>6, <2>7, <2>8 DEF RegInv
<1> QED BY <1>4, <1>5

LEMMA StepKeeps ==
  ASSUME Reg!RegistrationAssumption, RegInv, [Reg!Next]_Reg!vars
  PROVE  RegInv'
<1>0. /\ MaxChallenges \in Nat /\ MaxAsked \in Nat /\ MaxAsked <= MaxChallenges
      /\ Wallets \cap DemoWallets = {}
  BY DEF Reg!RegistrationAssumption
<1>1. CASE UNCHANGED Reg!vars
  BY <1>1 DEF Reg!vars, Reg!tables, Reg!auth, Reg!history, RegInv, RowsTyped, CallsOK, CallOK, Indexed,
         JudgesIndexed,
       RegistrationsUsed, SessionsUsed, Admissions, Listed, Overwrites
<1>2. ASSUME NEW w \in Wallets, Reg!createPreRegistrationChallenge(w) \/ Reg!createLoginChallenge(w)
      PROVE  RegInv'
  <2>1. \E kind \in ChallengeKinds : Reg!Issue(kind, w, MaxAsked) /\ request' = request
    BY <1>2 DEF Reg!createPreRegistrationChallenge, Reg!createLoginChallenge, ChallengeKinds
  <2> QED BY <1>0, <2>1, IssueKeeps
<1>3. ASSUME NEW w \in DemoWallets, Reg!seedJudgeListedAgent(w) PROVE RegInv'
  BY <1>3, SeedKeeps
<1>4. ASSUME NEW r \in Requests, NEW n \in DOMAIN challenges, Reg!startRegister(r, n) \/ Reg!login(r, n)
      PROVE  RegInv'
  BY <1>4, RegisterBegins, LoginBegins DEF Reg!startRegister
<1>5. ASSUME NEW r \in Requests, NEW id \in DOMAIN regs, Reg!startJoin(r, id) PROVE RegInv'
  BY <1>5, JoinBegins, RowNumbers DEF Reg!startJoin
<1>6. ASSUME NEW r \in Requests, NEW w \in Wallets,
             Reg!createRegistration(r, w) \/ Reg!bootstrapRegistered(r, w)
      PROVE  RegInv'
  BY <1>0, <1>6, CreateKeeps, BootstrapBegins
<1>7. ASSUME NEW r \in Requests, Reg!signatureInvalid(r) PROVE RegInv'
  BY <1>7, RequestEnds DEF Reg!signatureInvalid
<1>8. ASSUME NEW r \in Requests, Reg!Handler(r) PROVE RegInv'
  <2>1. CASE Reg!finishRegister(r)
    BY <1>0, <2>1, RegisteredKeeps
  <2>2. CASE Reg!registerConflict(r)
    BY <2>2, RequestEnds DEF Reg!registerConflict
  <2>3. CASE Reg!finishLogin(r)
    BY <2>3, LoginKeeps
  <2>4. CASE Reg!finishJoin(r)
    <3>1. request[r].pc = "join" /\ Reg!Finish(r) /\ UNCHANGED <<Reg!auth, registered>>
      BY <2>4 DEF Reg!finishJoin
    <3>2. CASE Reg!admit(r)
      BY <3>1, <3>2, AdmitKeeps
    <3>3. CASE Reg!alreadyAdmitted(r)
      BY <3>1, <3>3, AlreadyKeeps
    <3> QED BY <2>4, <3>2, <3>3 DEF Reg!finishJoin
  <2>5. CASE Reg!signedRegistration(r)
    BY <2>5, SignedKeeps
  <2>6. CASE Reg!bootstrap(r)
    BY <2>6, BootstrapKeeps
  <2> QED BY <1>8, <2>1, <2>2, <2>3, <2>4, <2>5, <2>6 DEF Reg!Handler
<1>9. CASE Reg!expire
  BY <1>9, ExpireKeeps
<1>10. CASE Reg!restart
  BY <1>10, RestartKeeps
<1>11. CASE \E r \in Requests :
          \/ \E n \in DOMAIN challenges : Reg!startRegister(r, n) \/ Reg!login(r, n)
          \/ \E id \in DOMAIN regs : Reg!startJoin(r, id)
          \/ \E w \in Wallets : Reg!createRegistration(r, w) \/ Reg!bootstrapRegistered(r, w)
          \/ Reg!signatureInvalid(r)
          \/ Reg!Handler(r)
  BY <1>4, <1>5, <1>6, <1>7, <1>8, <1>11, Zenon
<1> QED BY <1>1, <1>2, <1>3, <1>9, <1>10, <1>11, Zenon DEF Reg!Next

(* The parts of what the registrations are good for follow. *)
LEMMA NoTwoOf ==
  ASSUME NEW S, \A i, j \in S : i = j
  PROVE  Cardinality(S) <= 1
<1>1. CASE S = {}
  BY <1>1, FS_EmptySet
<1>2. CASE S # {}
  <2>1. PICK x : S = {x}
    BY <1>2
  <2> QED BY <2>1, FS_Singleton
<1> QED BY <1>1, <1>2

LEMMA SoundIsSound ==
  ASSUME Reg!RegistrationAssumption, RegInv
  PROVE  Reg!RegistrationSound
<1>1. Reg!TypeOK
  <2>1. request \in [Requests -> Reg!Locals]
    <3>1. request \in [Requests -> Call]
      BY DEF RegInv, CallsOK
    <3>2. ASSUME NEW r \in Requests PROVE request[r] \in Reg!Locals
      <4>1. request[r] \in Call /\ request[r].nonce <= Len(challenges) /\ request[r].id <= Len(regs)
        BY RequestOf DEF CallOK
      <4>2. Len(challenges) <= MaxChallenges /\ MaxChallenges \in Nat
        BY DEF RegInv, RowsTyped, Reg!RegistrationAssumption
      <4>3. request[r].nonce \in 0 .. MaxChallenges /\ request[r].id \in 0 .. Len(regs)
        BY <4>1, <4>2, RowNumbers DEF Call
      <4> QED BY <4>1, <4>3 DEF Call, Reg!Locals, Status
    <3> QED BY <3>1, <3>2
  <2>2. ASSUME NEW r \in Requests, request[r].pc = "verify"
        PROVE  request[r].nonce \in DOMAIN challenges
    BY <2>2, RequestOf, RowNumbers DEF CallOK, Call, Reg!None
  <2>3. \A i \in DOMAIN regs : regs[i].status \in {"pre_registered", "judge_listed"}
    BY RowsOf, RowNumbers DEF Status
  <2>4. \A w \in Reg!AllWallets :
            regIndex[w] \in 0 .. Len(regs) /\ judgeIndex[w] \in judgeList \cup {Reg!None}
    BY DEF RegInv, RowsTyped
  <2> QED BY <2>1, <2>2, <2>3, <2>4 DEF Reg!TypeOK
<1>2. Reg!OneUsePerChallenge
  <2>1. /\ registered \in Seq(Nat) /\ DOMAIN registered = 1 .. Len(registered)
        /\ sessions \in Seq(SessionRow) /\ DOMAIN sessions = 1 .. Len(sessions)
    BY DEF RegInv, RowsTyped
  <2>2. ASSUME NEW n \in DOMAIN challenges
        PROVE  /\ Cardinality({i \in DOMAIN registered : registered[i] = n}) <= 1
               /\ Cardinality({s \in DOMAIN sessions : sessions[s].nonce = n}) <= 1
    <3>1. n # Reg!None
      BY RowNumbers DEF Reg!None
    <3>2. \A i, j \in {k \in DOMAIN registered : registered[k] = n} : i = j
      BY <2>1 DEF RegInv, RegistrationsUsed
    <3>3. \A s, t \in {k \in DOMAIN sessions : sessions[k].nonce = n} : s = t
      BY <2>1, <3>1 DEF RegInv, SessionsUsed
    <3> QED BY <3>2, <3>3, NoTwoOf
  <2> QED BY <2>2 DEF Reg!OneUsePerChallenge, Reg!Cardinality, Cardinality
<1>3. ASSUME Postgres PROVE Reg!OneRegistrationPerWallet
  <2>1. ASSUME NEW i \in 1 .. Len(regs), NEW j \in 1 .. Len(regs), regs[i].wallet = regs[j].wallet
        PROVE  i = j
    <3>1. regIndex[regs[i].wallet] = i /\ regIndex[regs[j].wallet] = j
      BY <1>3 DEF RegInv, Indexed
    <3> QED BY <2>1, <3>1
  <2> QED BY <2>1, RowNumbers DEF Reg!OneRegistrationPerWallet
<1>4. ASSUME Postgres PROVE Reg!ListsAgree
  <2>1. ASSUME NEW w \in Reg!AllWallets, Reg!isJudgeListed(w) PROVE w \in Reg!listJudgeListAgents
    <3>1. judgeIndex \in [Reg!AllWallets -> judgeList \cup {Reg!None}] /\ judgeList \subseteq 1 .. Len(regs)
      BY DEF RegInv, RowsTyped
    <3>2. PICK id : id = judgeIndex[w]
      OBVIOUS
    <3>3. id # Reg!None /\ regs[id].status = "judge_listed"
      BY <2>1, <3>2 DEF Reg!isJudgeListed, Reg!getJudgeListEntryByWallet
    <3>4. id \in judgeList /\ id \in 1 .. Len(regs) /\ regs[id].wallet = w
      BY <3>1, <3>2, <3>3 DEF RegInv, JudgesIndexed
    <3>5. w \in agents
      BY <3>4 DEF RegInv, Indexed
    <3> QED BY <3>3, <3>4, <3>5 DEF Reg!listJudgeListAgents, Reg!judgeListed
  <2>2. ASSUME NEW w \in Reg!AllWallets, w \in Reg!listJudgeListAgents PROVE Reg!isJudgeListed(w)
    <3>1. PICK id \in judgeList : regs[id].status = "judge_listed" /\ regs[id].wallet = w
      BY <2>2 DEF Reg!listJudgeListAgents, Reg!judgeListed
    <3>2. judgeIndex[w] = id
      BY <1>4, <3>1 DEF RegInv, JudgesIndexed
    <3>3. id # Reg!None
      BY <3>1 DEF RegInv, RowsTyped, Reg!None
    <3> QED BY <3>1, <3>2, <3>3 DEF Reg!isJudgeListed, Reg!getJudgeListEntryByWallet
  <2> QED BY <2>1, <2>2 DEF Reg!ListsAgree
<1>5. ASSUME Postgres PROVE Reg!SessionsAreEarned
  <2>1. ASSUME NEW s \in DOMAIN sessions, NEW w \in Reg!AllWallets, Reg!verify(sessions[s], w)
        PROVE  /\ challenges[sessions[s].nonce].wallet = w
               /\ challenges[sessions[s].nonce].consumed
    <3>1. sessions \in Seq(SessionRow) /\ s \in 1 .. Len(sessions)
      BY DEF RegInv, RowsTyped
    <3>2. sessions[s].nonce # Reg!None /\ sessions[s].wallet = w
      BY <1>5, <2>1, <3>1 DEF RegInv, SessionsUsed, Reg!verify
    <3> QED BY <3>1, <3>2 DEF RegInv, SessionsUsed
  <2> QED BY <2>1 DEF Reg!SessionsAreEarned
<1>6. ASSUME Reg!OneAtATime PROVE Reg!JoinedIsListed
  <2>1. ASSUME NEW w \in joined PROVE Reg!isJudgeListed(w)
    <3>1. w \in Reg!AllWallets /\ judgeIndex \in [Reg!AllWallets -> judgeList \cup {Reg!None}]
      BY DEF RegInv, RowsTyped
    <3>2. judgeIndex[w] # Reg!None
      BY <1>6 DEF RegInv, Admissions
    <3>3. regs[judgeIndex[w]].status = "judge_listed"
      BY <1>6, <3>1, <3>2 DEF RegInv, Admissions, Listed
    <3> QED BY <3>2, <3>3 DEF Reg!isJudgeListed, Reg!getJudgeListEntryByWallet
  <2> QED BY <2>1 DEF Reg!JoinedIsListed
<1> QED BY <1>1, <1>2, <1>3, <1>4, <1>5, <1>6 DEF Reg!RegistrationSound

(* What the registrations are good for holds in every state.  *)
(* [agent-registration-service.ts, register, login, joinJudgeList] *)
THEOREM RegistrationIsSound ==
  ASSUME Reg!RegistrationAssumption
  PROVE  Reg!Spec => []Reg!RegistrationSound
<1>1. Reg!Init => RegInv
  BY InitKeeps
<1>2. RegInv /\ [Reg!Next]_Reg!vars => RegInv'
  BY StepKeeps
<1>3. RegInv => Reg!RegistrationSound
  BY SoundIsSound
<1> QED BY <1>1, <1>2, <1>3, PTL DEF Reg!Spec

-----------------------------------------------------------------------------
(* Staking and claiming through the API. *)
CONSTANTS Stakings, Owners, Txs, Vaults, WalletPostgres, Mock, MaySeed, MaxClaims, MaxWalletRestarts
VARIABLES staker, seed, profiles, processed, claimTraces, walletRequest, booked, claims,
          walletRestarts
Wal == INSTANCE AgentWallet WITH
           Requests <- Stakings, Agents <- Owners, Postgres <- WalletPostgres,
           MaxRestarts <- MaxWalletRestarts,
           agents <- profiles, traces <- claimTraces, request <- walletRequest,
           restarts <- walletRestarts
Profile == [known : BOOLEAN, activeStake : Nat]
WalletCall ==
    [pc : {"idle", "ensure", "verify", "claim", "read", "record", "save", "trace"},
     agent : Owners \cup {Wal!Nobody}, tx : Txs \cup Vaults \cup {"none"}, seen : Profile,
     new : BOOLEAN, claim : 0 .. MaxClaims, vaults : SUBSET Vaults, list : SUBSET (1 .. MaxClaims)]

(* The mock provider, which takes hashes on trust, is trusted beside one request, and in memory. *)
Single == \A r, q \in Stakings : r = q
Trusted == Mock => Single /\ ~WalletPostgres

(* A request that inserted a hash and has not saved the profile yet, and the hashes that were saved
   for an agent. *)
Holds(q, t) == q.pc = "save" /\ q.new /\ q.tx = t
Counted(a) == {t \in processed : staker[t] = a /\ \A r \in Stakings : ~Holds(walletRequest[r], t)}
Within(profile, a) == profile.activeStake <= Cardinality(Counted(a))

(* What a request works on. *)
WellPlaced(q) ==
    /\ q.pc # "idle" => q.agent \in Owners
    /\ q.pc \in {"verify", "read", "record", "save"} => q.tx \in Txs
    /\ q.pc = "ensure" /\ q.vaults = {} => q.tx \in Txs
    /\ q.pc = "ensure" /\ q.vaults # {} => q.claim \in 1 .. MaxClaims
    /\ q.pc \in {"claim", "trace"} => q.claim \in 1 .. MaxClaims
    /\ q.pc = "trace" => q.tx \in Vaults
(* What it read counts what was saved, and what it is about to book was staked by its agent. *)
SeenWithin(q) == q.pc \in {"ensure", "record", "save"} => Within(q.seen, q.agent)
Staked(q) ==
    /\ q.pc \in {"read", "record", "save"} => staker[q.tx] \in Owners
    /\ q.pc \in {"read", "record"} /\ q.tx \notin processed => staker[q.tx] = q.agent
    /\ q.pc = "save" /\ q.new => staker[q.tx] = q.agent
    /\ ~Mock /\ q.pc \in {"read", "record", "save"} => staker[q.tx] = q.agent
    /\ q.pc = "save" => q.tx \in processed
    /\ WalletPostgres /\ q.pc = "save" /\ q.new => q.tx \notin booked

WalletTypes ==
    /\ staker \in [Txs -> Owners \cup {Wal!Nobody}]
    /\ seed = [a \in Owners |-> "none"]
    /\ profiles \in [Owners -> Profile]
    /\ processed \subseteq Txs /\ booked \subseteq processed
    /\ claimTraces \in [Vaults -> SUBSET (1 .. MaxClaims)]
    /\ walletRequest \in [Stakings -> WalletCall]
WalletInv ==
    /\ WalletTypes
    /\ \A r \in Stakings : WellPlaced(walletRequest[r]) /\ SeenWithin(walletRequest[r]) /\ Staked(walletRequest[r])
    /\ \A a \in Owners : Within(profiles[a], a)
    /\ \A r, q \in Stakings : r # q /\ Holds(walletRequest[r], walletRequest[r].tx) =>
          /\ ~Holds(walletRequest[q], walletRequest[r].tx)
          /\ WalletPostgres => ~(walletRequest[q].pc = "save" /\ walletRequest[q].tx = walletRequest[r].tx)
    /\ \A t \in processed : staker[t] \in Owners
    /\ Mock => \A t \in Txs : staker[t] # Wal!Nobody =>
          t \in processed \/ \E r \in Stakings : walletRequest[r].pc \in {"read", "record"} /\ walletRequest[r].tx = t

-----------------------------------------------------------------------------
(* The module's counting is the library's. *)
LEMMA WalCounts == \A S : Wal!Cardinality(S) = Cardinality(S) /\ (Wal!IsFiniteSet(S) <=> IsFiniteSet(S))
<1>1. \A S : Wal!IsFiniteSet(S) <=> IsFiniteSet(S)
    BY DEF Wal!IsFiniteSet, IsFiniteSet
<1>2. \A S : Wal!Cardinality(S) = Cardinality(S)
    BY DEF Wal!Cardinality, Cardinality
<1> QED BY <1>1, <1>2

LEMMA CountedIsFinite ==
    ASSUME Wal!AgentWalletAssumption, WalletTypes, NEW a
    PROVE  IsFiniteSet(Counted(a)) /\ Cardinality(Counted(a)) \in Nat
<1>1. Counted(a) \subseteq Txs /\ IsFiniteSet(Txs)
    BY WalCounts DEF Counted, WalletTypes, Wal!AgentWalletAssumption
<1> QED BY <1>1, FS_Subset, FS_CardinalityType

(* What was saved is counted on. *)
LEMMA CountingOn ==
    ASSUME Wal!AgentWalletAssumption, WalletTypes, WalletTypes', NEW a, Counted(a) \subseteq Counted(a)'
    PROVE  \A profile : Within(profile, a) /\ profile.activeStake \in Nat => Within(profile, a)'
<1> DEFINE m == Cardinality(Counted(a))  n == Cardinality(Counted(a))'
<1>1. m \in Nat
    BY CountedIsFinite
<1>2. IsFiniteSet(Counted(a)') /\ n \in Nat
    <2>1. Counted(a)' \subseteq Txs /\ IsFiniteSet(Txs)
        BY WalCounts DEF Counted, WalletTypes, Wal!AgentWalletAssumption
    <2> QED BY <2>1, FS_Subset, FS_CardinalityType
<1>3. m <= n
    BY <1>2, FS_Subset
<1> HIDE DEF m, n
<1>4. ASSUME NEW x \in Nat, x <= m PROVE x <= n
    BY <1>1, <1>2, <1>3, <1>4
<1> QED BY <1>4 DEF Within, m, n

LEMMA IdleIsPlaced ==
    ASSUME Wal!AgentWalletAssumption
    PROVE  Wal!Idle \in WalletCall /\ WellPlaced(Wal!Idle) /\ SeenWithin(Wal!Idle) /\ Staked(Wal!Idle)
           /\ \A t : ~Holds(Wal!Idle, t)
<1>1. Wal!FallbackProfile \in Profile
    BY DEF Wal!FallbackProfile, Profile
<1>2. Wal!Idle \in WalletCall
    BY <1>1 DEF Wal!Idle, WalletCall, Wal!AgentWalletAssumption
<1> QED BY <1>2 DEF Wal!Idle, WellPlaced, SeenWithin, Staked, Holds

LEMMA WalletStarts == ASSUME Wal!AgentWalletAssumption, Wal!Init PROVE WalletInv
<1>1. WalletTypes
    BY IdleIsPlaced DEF Wal!Init, WalletTypes, Wal!FallbackProfile, Profile
<1>2. \A r \in Stakings : WellPlaced(walletRequest[r]) /\ SeenWithin(walletRequest[r]) /\ Staked(walletRequest[r])
    BY IdleIsPlaced DEF Wal!Init
<1>3. \A a \in Owners : Within(profiles[a], a)
    <2>1. ASSUME NEW a \in Owners PROVE Within(profiles[a], a)
        <3>1. Cardinality(Counted(a)) \in Nat
            BY <1>1, CountedIsFinite
        <3>2. profiles[a].activeStake = 0
            BY DEF Wal!Init, Wal!FallbackProfile
        <3> DEFINE n == Cardinality(Counted(a))
        <3> HIDE DEF n
        <3>3. n \in Nat => 0 <= n
            OBVIOUS
        <3> QED BY <3>1, <3>2, <3>3 DEF Within, n
    <2> QED BY <2>1
<1>4. \A r \in Stakings, t \in Txs : ~Holds(walletRequest[r], t)
    BY IdleIsPlaced DEF Wal!Init
<1>5. \A r \in Stakings : walletRequest[r].pc = "idle"
    BY DEF Wal!Init, Wal!Idle
<1>6. processed = {} /\ \A t \in Txs : staker[t] = Wal!Nobody
    BY DEF Wal!Init
<1> QED BY <1>1, <1>2, <1>3, <1>5, <1>6 DEF WalletInv, Holds

-----------------------------------------------------------------------------
(* A request that goes on, while no hash is inserted and none saved. *)
LEMMA WalletGoes ==
    ASSUME Wal!AgentWalletAssumption, WalletInv, NEW r \in Stakings, NEW q \in WalletCall, Wal!Goto(r, q),
           WellPlaced(q), SeenWithin(q), Staked(q),
           walletRequest[r].pc # "save", q.pc # "save",
           walletRequest[r].pc \in {"read", "record"} =>
               q.pc \in {"read", "record"} /\ q.tx = walletRequest[r].tx,
           UNCHANGED <<staker, seed, processed, booked>>,
           profiles' \in [Owners -> Profile], \A a \in Owners : Within(profiles'[a], a),
           claimTraces' \in [Vaults -> SUBSET (1 .. MaxClaims)]
    PROVE  WalletInv'
<1>1. WalletTypes'
    BY DEF WalletInv, WalletTypes, Wal!Goto
<1>2. ASSUME NEW s \in Stakings
      PROVE  walletRequest'[s] = walletRequest[s] \/ (s = r /\ walletRequest'[s] = q)
    BY DEF Wal!Goto, WalletInv, WalletTypes
<1>3. \A s \in Stakings : \A t : Holds(walletRequest[s], t)' <=> Holds(walletRequest[s], t)
    <2>1. ASSUME NEW s \in Stakings, NEW t PROVE Holds(walletRequest'[s], t) <=> Holds(walletRequest[s], t)
        BY <1>2 DEF Holds
    <2> QED BY <2>1 DEF Holds
<1>4. \A a : Counted(a)' = Counted(a)
    BY <1>3 DEF Counted
<1>5. ASSUME NEW s \in Stakings
      PROVE  WellPlaced(walletRequest[s])' /\ SeenWithin(walletRequest[s])' /\ Staked(walletRequest[s])'
    <2>1. WellPlaced(walletRequest'[s]) /\ SeenWithin(walletRequest'[s]) /\ Staked(walletRequest'[s])
        BY <1>2 DEF WalletInv
    <2> QED BY <1>4, <2>1 DEF WellPlaced, SeenWithin, Staked, Within
<1>6. \A a \in Owners : Within(profiles[a], a)'
    BY <1>4 DEF Within
<1>7. \A s, p \in Stakings : s # p /\ Holds(walletRequest[s], walletRequest[s].tx)' =>
          /\ ~Holds(walletRequest[p], walletRequest[s].tx)'
          /\ WalletPostgres => ~(walletRequest[p].pc = "save" /\ walletRequest[p].tx = walletRequest[s].tx)'
    <2>1. ASSUME NEW s \in Stakings, NEW p \in Stakings, s # p,
                 Holds(walletRequest'[s], walletRequest'[s].tx)
          PROVE  /\ ~Holds(walletRequest'[p], walletRequest'[s].tx)
                 /\ WalletPostgres => ~(walletRequest'[p].pc = "save" /\ walletRequest'[p].tx = walletRequest'[s].tx)
        <3>1. walletRequest'[s] = walletRequest[s] /\ Holds(walletRequest[s], walletRequest[s].tx)
            BY <1>2, <2>1 DEF Holds
        <3>2. walletRequest'[p] = walletRequest[p] \/ walletRequest'[p].pc # "save"
            BY <1>2
        <3> QED BY <2>1, <3>1, <3>2 DEF WalletInv, Holds
    <2> QED BY <2>1 DEF Holds
<1>8. \A t \in processed' : staker'[t] \in Owners
    BY DEF WalletInv
<1>9. Mock => \A t \in Txs : staker'[t] # Wal!Nobody =>
          t \in processed' \/ \E s \in Stakings : walletRequest'[s].pc \in {"read", "record"} /\ walletRequest'[s].tx = t
    BY <1>2 DEF WalletInv
<1> QED BY <1>1, <1>5, <1>6, <1>7, <1>8, <1>9 DEF WalletInv

(* The facts a step of a request starts from. *)
LEMMA AtRequest ==
    ASSUME WalletInv, NEW r \in Stakings
    PROVE  /\ walletRequest[r] \in WalletCall /\ WellPlaced(walletRequest[r])
           /\ SeenWithin(walletRequest[r]) /\ Staked(walletRequest[r]) /\ walletRequest[r].seen \in Profile
           /\ walletRequest[r].vaults \subseteq Vaults
    BY DEF WalletInv, WalletTypes, WalletCall

LEMMA BeginningKeeps ==
    ASSUME Wal!AgentWalletAssumption, WalletInv, NEW r \in Stakings, NEW a \in Owners,
           NEW t \in Txs \cup {"none"}, NEW id \in 0 .. MaxClaims, NEW vs \in SUBSET Vaults,
           vs = {} => t \in Txs, vs # {} => id \in 1 .. MaxClaims,
           Wal!begin(r, a, t, id, vs)
    PROVE  WalletInv'
<1> DEFINE q == [Wal!Idle EXCEPT !.pc = "ensure", !.agent = a, !.tx = t, !.claim = id, !.vaults = vs,
                                 !.seen = profiles[a]]
<1>1. Wal!Goto(r, q) /\ walletRequest[r].pc = "idle"
      /\ UNCHANGED <<staker, seed, profiles, processed, claimTraces, booked>>
    BY DEF Wal!begin
<1>2. profiles[a] \in Profile /\ Within(profiles[a], a)
    BY DEF WalletInv, WalletTypes
<1>3. q \in WalletCall /\ q.pc = "ensure" /\ q.agent = a /\ q.tx = t /\ q.claim = id
      /\ q.vaults = vs /\ q.seen = profiles[a]
    BY <1>2, IdleIsPlaced DEF WalletCall
<1> HIDE DEF q
<1>4. WellPlaced(q) /\ SeenWithin(q) /\ Staked(q)
    BY <1>2, <1>3 DEF WellPlaced, SeenWithin, Staked
<1>5. profiles' \in [Owners -> Profile] /\ (\A b \in Owners : Within(profiles'[b], b))
      /\ claimTraces' \in [Vaults -> SUBSET (1 .. MaxClaims)]
    BY <1>1 DEF WalletInv, WalletTypes
<1> QED BY <1>1, <1>3, <1>4, <1>5, WalletGoes

LEMMA EnsuringKeeps ==
    ASSUME Wal!AgentWalletAssumption, WalletInv, NEW r \in Stakings, Wal!ensureAgent(r)
    PROVE  WalletInv'
<1> DEFINE old == walletRequest[r]
           q == [old EXCEPT !.pc = IF old.vaults = {} THEN "verify" ELSE "claim"]
           profile == Wal!ensureWallet(old.seen)
<1>1. Wal!Goto(r, q) /\ old.pc = "ensure" /\ Wal!saveAgent(old.agent, profile)
      /\ UNCHANGED <<staker, seed, processed, claimTraces, booked>>
    BY DEF Wal!ensureAgent
<1>2. old \in WalletCall /\ WellPlaced(old) /\ SeenWithin(old) /\ old.seen \in Profile
    BY AtRequest
<1> HIDE DEF old
<1>3. q \in WalletCall /\ q.pc \in {"verify", "claim"} /\ (q.pc = "verify" <=> old.vaults = {})
      /\ q.agent = old.agent /\ q.tx = old.tx /\ q.claim = old.claim
    BY <1>2 DEF WalletCall
<1> HIDE DEF q
<1>4. WellPlaced(q) /\ SeenWithin(q) /\ Staked(q)
    BY <1>1, <1>2, <1>3 DEF WellPlaced, SeenWithin, Staked
<1>5. profile \in Profile /\ profile.activeStake = old.seen.activeStake
    BY <1>2 DEF Wal!ensureWallet, Profile
<1>6. Within(profile, old.agent)
    BY <1>1, <1>2, <1>5 DEF SeenWithin, Within
<1> HIDE DEF profile
<1>7. profiles' \in [Owners -> Profile] /\ \A b \in Owners : Within(profiles'[b], b)
    BY <1>1, <1>5, <1>6 DEF Wal!saveAgent, WalletInv, WalletTypes
<1>8. claimTraces' \in [Vaults -> SUBSET (1 .. MaxClaims)]
    BY <1>1 DEF WalletInv, WalletTypes
<1> QED BY <1>1, <1>3, <1>4, <1>7, <1>8, WalletGoes DEF old

LEMMA RejectingKeeps ==
    ASSUME Wal!AgentWalletAssumption, WalletInv, NEW r \in Stakings, Wal!rejected(r)
    PROVE  WalletInv'
<1>1. Wal!Goto(r, Wal!Idle) /\ walletRequest[r].pc = "verify"
      /\ UNCHANGED <<staker, seed, profiles, processed, claimTraces, booked>>
    BY DEF Wal!rejected, Wal!Finish
<1>2. profiles' \in [Owners -> Profile] /\ (\A b \in Owners : Within(profiles'[b], b))
      /\ claimTraces' \in [Vaults -> SUBSET (1 .. MaxClaims)]
    BY <1>1 DEF WalletInv, WalletTypes
<1>3. Wal!Idle.pc = "idle"
    BY DEF Wal!Idle
<1> QED BY <1>1, <1>2, <1>3, IdleIsPlaced, WalletGoes

LEMMA ReadingKeeps ==
    ASSUME Wal!AgentWalletAssumption, WalletInv, NEW r \in Stakings, Wal!readProfile(r)
    PROVE  WalletInv'
<1> DEFINE old == walletRequest[r]
           q == [old EXCEPT !.pc = "record", !.seen = profiles[old.agent]]
<1>1. Wal!Goto(r, q) /\ old.pc = "read"
      /\ UNCHANGED <<staker, seed, profiles, processed, claimTraces, booked>>
    BY DEF Wal!readProfile
<1>2. old \in WalletCall /\ WellPlaced(old) /\ Staked(old)
    BY AtRequest
<1>3. profiles' \in [Owners -> Profile] /\ (\A b \in Owners : Within(profiles'[b], b))
      /\ claimTraces' \in [Vaults -> SUBSET (1 .. MaxClaims)]
    BY <1>1 DEF WalletInv, WalletTypes
<1> HIDE DEF old
<1>4. old.agent \in Owners
    BY <1>1, <1>2 DEF WellPlaced
<1>5. profiles[old.agent] \in Profile /\ Within(profiles[old.agent], old.agent)
    BY <1>4 DEF WalletInv, WalletTypes
<1>6. q \in WalletCall /\ q.pc = "record" /\ q.agent = old.agent /\ q.tx = old.tx
      /\ q.seen = profiles[old.agent]
    BY <1>2, <1>5 DEF WalletCall
<1> HIDE DEF q
<1>7. WellPlaced(q) /\ SeenWithin(q) /\ Staked(q)
    BY <1>1, <1>2, <1>5, <1>6 DEF WellPlaced, SeenWithin, Staked
<1> QED BY <1>1, <1>3, <1>6, <1>7, WalletGoes DEF old

LEMMA TracingKeeps ==
    ASSUME Wal!AgentWalletAssumption, WalletInv, NEW r \in Stakings,
           Wal!saveVault(r) \/ \E v \in Vaults : Wal!readVault(r, v)
    PROVE  WalletInv'
<1> DEFINE old == walletRequest[r]
<1>1. old \in WalletCall /\ WellPlaced(old) /\ Staked(old)
    BY AtRequest
<1>2. UNCHANGED <<staker, seed, profiles, processed, booked>>
    BY DEF Wal!saveVault, Wal!readVault
<1>3. profiles' \in [Owners -> Profile] /\ \A b \in Owners : Within(profiles'[b], b)
    BY <1>2 DEF WalletInv, WalletTypes
<1>4. old.pc \in {"claim", "trace"}
    BY DEF Wal!saveVault, Wal!readVault
<1>5. old.claim \in 1 .. MaxClaims /\ old.agent \in Owners /\ (old.pc = "trace" => old.tx \in Vaults)
    BY <1>1, <1>4 DEF WellPlaced
<1>6. ASSUME NEW v \in Vaults, Wal!readVault(r, v) PROVE WalletInv'
    <2> DEFINE q == [old EXCEPT !.pc = "trace", !.tx = v, !.list = claimTraces[v]]
    <2>1. Wal!Goto(r, q) /\ UNCHANGED claimTraces
        BY <1>6 DEF Wal!readVault
    <2>2. claimTraces[v] \subseteq 1 .. MaxClaims /\ claimTraces \in [Vaults -> SUBSET (1 .. MaxClaims)]
        BY DEF WalletInv, WalletTypes
    <2> HIDE DEF old
    <2>3. q \in WalletCall /\ q.pc = "trace" /\ q.tx = v /\ q.claim = old.claim /\ q.agent = old.agent
        BY <1>1, <2>2 DEF WalletCall
    <2> HIDE DEF q
    <2>4. WellPlaced(q) /\ SeenWithin(q) /\ Staked(q)
        BY <1>5, <2>3 DEF WellPlaced, SeenWithin, Staked
    <2> QED BY <1>2, <1>3, <1>4, <2>1, <2>2, <2>3, <2>4, WalletGoes DEF old
<1>7. ASSUME Wal!saveVault(r) PROVE WalletInv'
    <2> DEFINE v == old.tx
               q == [old EXCEPT !.pc = "claim", !.vaults = @ \ {v}]
    <2>1. claimTraces' = [claimTraces EXCEPT ![v] = old.list \cup {old.claim}] /\ (Wal!Goto(r, Wal!Idle) \/ Wal!Goto(r, q))
        BY <1>7 DEF Wal!saveVault, Wal!appended, Wal!Finish
    <2>2. old.list \subseteq 1 .. MaxClaims
        BY <1>1 DEF WalletCall
    <2> HIDE DEF old
    <2>3. claimTraces' \in [Vaults -> SUBSET (1 .. MaxClaims)]
        BY <1>5, <2>1, <2>2 DEF WalletInv, WalletTypes
    <2>4. q \in WalletCall /\ q.pc = "claim" /\ q.claim = old.claim /\ q.agent = old.agent
        BY <1>1 DEF WalletCall
    <2> HIDE DEF q
    <2>5. WellPlaced(q) /\ SeenWithin(q) /\ Staked(q)
        BY <1>5, <2>4 DEF WellPlaced, SeenWithin, Staked
    <2>6. Wal!Idle.pc = "idle"
        BY DEF Wal!Idle
    <2>7. CASE Wal!Goto(r, Wal!Idle)
        BY <1>2, <1>3, <1>4, <2>3, <2>6, <2>7, IdleIsPlaced, WalletGoes DEF old
    <2>8. CASE Wal!Goto(r, q)
        BY <1>2, <1>3, <1>4, <2>3, <2>4, <2>5, <2>8, WalletGoes DEF old
    <2> QED BY <2>1, <2>7, <2>8
<1> QED BY <1>6, <1>7

(* A stake is mined, and may be what a request is waiting for. *)
LEMMA MiningKeeps ==
    ASSUME Wal!AgentWalletAssumption, WalletInv, NEW t \in Txs, NEW a \in Owners,
           staker[t] = Wal!Nobody, staker' = [staker EXCEPT ![t] = a],
           UNCHANGED <<seed, profiles, processed, claimTraces, booked>>,
           \/ ~Mock /\ UNCHANGED walletRequest
           \/ \E r \in Stakings :
                 /\ walletRequest[r].pc = "verify" /\ walletRequest[r].tx = t /\ walletRequest[r].agent = a
                 /\ Wal!Goto(r, [walletRequest[r] EXCEPT !.pc = "read"])
    PROVE  WalletInv'
<1>1. \A x \in Txs : staker'[x] = staker[x] \/ (x = t /\ staker'[x] = a)
    BY DEF WalletInv, WalletTypes
<1>2. Wal!Nobody \notin Owners
    BY DEF Wal!AgentWalletAssumption, Wal!Nobody
<1>3. t \notin processed /\ staker'[t] = a
    BY <1>2 DEF WalletInv, WalletTypes
<1>4. processed \subseteq Txs
    BY DEF WalletInv, WalletTypes
<1>5. \A x \in processed : staker'[x] = staker[x]
    BY <1>1, <1>3, <1>4
<1>6. ASSUME NEW s \in Stakings
      PROVE  /\ walletRequest'[s] \in WalletCall
             /\ \/ walletRequest'[s] = walletRequest[s]
                \/ /\ walletRequest[s].pc = "verify" /\ walletRequest[s].tx = t /\ walletRequest[s].agent = a
                   /\ walletRequest'[s].pc = "read" /\ walletRequest'[s].tx = t /\ walletRequest'[s].agent = a
    BY AtRequest DEF Wal!Goto, WalletInv, WalletTypes, WalletCall
<1>7. WalletTypes'
    <2>1. walletRequest' \in [Stakings -> WalletCall]
        <3>2. DOMAIN walletRequest' = Stakings /\ walletRequest' = [s \in Stakings |-> walletRequest'[s]]
            BY DEF Wal!Goto, WalletInv, WalletTypes
        <3> QED BY <1>6, <3>2
    <2> QED BY <2>1 DEF WalletInv, WalletTypes
<1>8. \A s \in Stakings : \A x : Holds(walletRequest[s], x)' <=> Holds(walletRequest[s], x)
    <2>1. ASSUME NEW s \in Stakings, NEW x PROVE Holds(walletRequest'[s], x) <=> Holds(walletRequest[s], x)
        BY <1>6 DEF Holds
    <2> QED BY <2>1 DEF Holds
<1>9. \A b : Counted(b)' = Counted(b)
    BY <1>5, <1>8 DEF Counted
<1>10. ASSUME NEW s \in Stakings
       PROVE  WellPlaced(walletRequest[s])' /\ SeenWithin(walletRequest[s])' /\ Staked(walletRequest[s])'
    <2>1. WellPlaced(walletRequest[s]) /\ SeenWithin(walletRequest[s]) /\ Staked(walletRequest[s])
        BY AtRequest
    <2>2. CASE walletRequest'[s] = walletRequest[s]
        <3>1. WellPlaced(walletRequest'[s]) /\ SeenWithin(walletRequest[s])'
            BY <1>9, <2>1, <2>2 DEF SeenWithin, Within
        <3>2. walletRequest[s].pc \in {"read", "record", "save"} =>
                 staker'[walletRequest[s].tx] = staker[walletRequest[s].tx]
            <4>1. walletRequest[s].pc \in {"read", "record", "save"} =>
                     walletRequest[s].tx \in Txs /\ staker[walletRequest[s].tx] \in Owners
                BY <2>1 DEF WellPlaced, Staked
            <4> QED BY <1>1, <1>2, <4>1
        <3>3. Staked(walletRequest[s])'
            BY <2>1, <2>2, <3>2 DEF Staked
        <3> QED BY <3>1, <3>3 DEF WellPlaced
    <2>3. CASE walletRequest'[s].pc = "read" /\ walletRequest'[s].tx = t /\ walletRequest'[s].agent = a
        BY <1>3, <2>3 DEF WellPlaced, SeenWithin, Staked
    <2> QED BY <1>6, <2>2, <2>3
<1>11. \A b \in Owners : Within(profiles[b], b)'
    BY <1>9 DEF WalletInv, Within
<1>12. \A s, p \in Stakings : s # p /\ Holds(walletRequest[s], walletRequest[s].tx)' =>
          /\ ~Holds(walletRequest[p], walletRequest[s].tx)'
          /\ WalletPostgres => ~(walletRequest[p].pc = "save" /\ walletRequest[p].tx = walletRequest[s].tx)'
    <2>1. ASSUME NEW s \in Stakings, NEW p \in Stakings, s # p,
                 Holds(walletRequest'[s], walletRequest'[s].tx)
          PROVE  /\ ~Holds(walletRequest'[p], walletRequest'[s].tx)
                 /\ WalletPostgres => ~(walletRequest'[p].pc = "save" /\ walletRequest'[p].tx = walletRequest'[s].tx)
        <3>1. walletRequest'[s] = walletRequest[s] /\ Holds(walletRequest[s], walletRequest[s].tx)
            BY <1>6, <2>1 DEF Holds
        <3>2. walletRequest'[p] = walletRequest[p] \/ walletRequest'[p].pc # "save"
            BY <1>6
        <3> QED BY <2>1, <3>1, <3>2 DEF WalletInv, Holds
    <2> QED BY <2>1 DEF Holds
<1>13. \A x \in processed' : staker'[x] \in Owners
    BY <1>5 DEF WalletInv
<1>14. Mock => \A x \in Txs : staker'[x] # Wal!Nobody =>
          x \in processed' \/ \E s \in Stakings : walletRequest'[s].pc \in {"read", "record"} /\ walletRequest'[s].tx = x
    <2> SUFFICES ASSUME Mock, NEW x \in Txs, staker'[x] # Wal!Nobody
                 PROVE  x \in processed \/ \E s \in Stakings :
                            walletRequest'[s].pc \in {"read", "record"} /\ walletRequest'[s].tx = x
        OBVIOUS
    <2>1. CASE x = t
        <3>1. PICK r \in Stakings : walletRequest[r].pc = "verify" /\ walletRequest[r].tx = t
                                    /\ Wal!Goto(r, [walletRequest[r] EXCEPT !.pc = "read"])
            OBVIOUS
        <3>2. walletRequest'[r].pc = "read" /\ walletRequest'[r].tx = t
            BY <3>1, AtRequest DEF Wal!Goto, WalletInv, WalletTypes, WalletCall
        <3> QED BY <2>1, <3>2
    <2>2. CASE x # t
        <3>1. staker[x] # Wal!Nobody
            BY <1>1, <2>2
        <3>2. x \in processed \/ \E s \in Stakings : walletRequest[s].pc \in {"read", "record"} /\ walletRequest[s].tx = x
            BY <3>1 DEF WalletInv
        <3>3. \A s \in Stakings : walletRequest[s].pc \in {"read", "record"} => walletRequest'[s] = walletRequest[s]
            BY <1>6
        <3> QED BY <3>2, <3>3
    <2> QED BY <2>1, <2>2
<1> QED BY <1>7, <1>10, <1>11, <1>12, <1>13, <1>14 DEF WalletInv

LEMMA VerifiedKeeps ==
    ASSUME Wal!AgentWalletAssumption, Trusted, WalletInv, NEW r \in Stakings, Wal!verified(r)
    PROVE  WalletInv'
<1> DEFINE old == walletRequest[r]
           q == [old EXCEPT !.pc = "read"]
           a == old.agent
           t == old.tx
<1>1. Wal!Goto(r, q) /\ old.pc = "verify" /\ UNCHANGED <<seed, profiles, processed, claimTraces, booked>>
    BY DEF Wal!verified
<1>2. old \in WalletCall /\ WellPlaced(old)
    BY AtRequest
<1>3. a \in Owners /\ t \in Txs
    BY <1>1, <1>2 DEF WellPlaced
<1>4. CASE Mock /\ staker[t] = Wal!Nobody
    <2>1. staker' = [staker EXCEPT ![t] = a]
        BY <1>4 DEF Wal!verified, Wal!verifyExecution
    <2> QED BY <1>1, <1>3, <1>4, <2>1, MiningKeeps
<1>5. CASE ~(Mock /\ staker[t] = Wal!Nobody)
    <2>1. UNCHANGED staker /\ (~Mock => staker[t] = a)
        BY <1>5 DEF Wal!verified, Wal!verifyExecution
    <2>2. staker[t] \in Owners
        BY <1>3, <1>5, <2>1 DEF WalletInv, WalletTypes
    <2>3. Mock => t \in processed
        <3> SUFFICES ASSUME Mock PROVE t \in processed
            OBVIOUS
        <3>1. t \in processed \/ \E s \in Stakings : walletRequest[s].pc \in {"read", "record"} /\ walletRequest[s].tx = t
            BY <1>3, <1>5 DEF WalletInv
        <3>2. \A s \in Stakings : s = r
            BY DEF Trusted, Single
        <3> QED BY <1>1, <3>1, <3>2
    <2>4. profiles' \in [Owners -> Profile] /\ (\A b \in Owners : Within(profiles'[b], b))
          /\ claimTraces' \in [Vaults -> SUBSET (1 .. MaxClaims)]
        BY <1>1 DEF WalletInv, WalletTypes
    <2>5. t \notin processed => staker[t] = a
        BY <2>1, <2>3
    <2> DEFINE b == staker[t]
    <2>6. b \in Owners /\ (t \notin processed => b = a) /\ (~Mock => b = a)
        BY <2>1, <2>2, <2>5
    <2>7. q \in WalletCall /\ q.pc = "read" /\ q.tx = t /\ q.agent = a
        BY <1>2 DEF WalletCall
    <2> HIDE DEF q
    <2>8. Staked(q)
        BY <2>6, <2>7 DEF Staked
    <2>9. WellPlaced(q) /\ SeenWithin(q)
        BY <1>3, <2>7 DEF WellPlaced, SeenWithin
    <2> QED BY <1>1, <2>1, <2>4, <2>7, <2>8, <2>9, WalletGoes
<1> QED BY <1>4, <1>5

(* A hash inserted counts only when its request has saved the profile. *)
LEMMA RecordingKeeps ==
    ASSUME Wal!AgentWalletAssumption, WalletInv, NEW r \in Stakings, Wal!recordAgentStakeTransaction(r)
    PROVE  WalletInv'
<1> DEFINE old == walletRequest[r]
<1>0. PICK t : t = old.tx
    OBVIOUS
<1> DEFINE new == t \notin processed
           q == [old EXCEPT !.pc = "save", !.new = new]
<1>1. Wal!Goto(r, q) /\ old.pc = "record" /\ processed' = processed \cup {t}
      /\ UNCHANGED <<staker, seed, profiles, claimTraces, booked>> /\ (WalletPostgres => ~Wal!insertedByOther(r))
    BY <1>0 DEF Wal!recordAgentStakeTransaction
<1>2. old \in WalletCall /\ WellPlaced(old) /\ SeenWithin(old) /\ Staked(old)
    BY AtRequest
<1>3. t \in Txs /\ old.agent \in Owners
    BY <1>0, <1>1, <1>2 DEF WellPlaced
<1>4. q \in WalletCall /\ q.pc = "save" /\ (q.new <=> new) /\ q.tx = t /\ q.agent = old.agent
      /\ q.seen = old.seen
    BY <1>0, <1>2 DEF WalletCall
<1>5. ASSUME NEW s \in Stakings
      PROVE  walletRequest'[s] = walletRequest[s] \/ (s = r /\ walletRequest'[s] = q)
    BY <1>1 DEF Wal!Goto, WalletInv, WalletTypes
<1>6. walletRequest'[r] = q
    BY <1>1 DEF Wal!Goto, WalletInv, WalletTypes
<1> HIDE DEF q
<1>7. WalletTypes'
    BY <1>1, <1>3, <1>4 DEF WalletInv, WalletTypes, Wal!Goto
<1>8. ASSUME NEW s \in Stakings, NEW x
      PROVE  Holds(walletRequest'[s], x) <=> Holds(walletRequest[s], x) \/ (s = r /\ x = t /\ new)
    BY <1>0, <1>1, <1>4, <1>5, <1>6 DEF Holds
<1>9. ASSUME NEW s \in Stakings, walletRequest[s].pc = "save" PROVE walletRequest[s].tx \in processed
    BY <1>9, AtRequest DEF Staked
<1>10. \A b : Counted(b)' = Counted(b)
    <2> SUFFICES ASSUME NEW b PROVE Counted(b)' = Counted(b)
        OBVIOUS
    <2>1. CASE t \in processed
        <3>1. processed' = processed /\ \A s \in Stakings : \A x : Holds(walletRequest'[s], x) <=> Holds(walletRequest[s], x)
            BY <1>1, <1>8, <2>1
        <3>2. \A s \in Stakings : \A x : Holds(walletRequest[s], x)' <=> Holds(walletRequest[s], x)
            BY <3>1 DEF Holds
        <3> QED BY <1>1, <3>1, <3>2 DEF Counted
    <2>2. CASE t \notin processed
        <3>1. Holds(walletRequest'[r], t)
            BY <1>8, <2>2
        <3>2. \A x \in processed : \A s \in Stakings : Holds(walletRequest'[s], x) <=> Holds(walletRequest[s], x)
            BY <1>8, <2>2
        <3>3. Holds(walletRequest[r], t)' /\ \A x \in processed : \A s \in Stakings : Holds(walletRequest[s], x)' <=> Holds(walletRequest[s], x)
            BY <3>1, <3>2 DEF Holds
        <3> QED BY <1>1, <3>3 DEF Counted
    <2> QED BY <2>1, <2>2
<1>11. ASSUME NEW s \in Stakings
       PROVE  WellPlaced(walletRequest[s])' /\ SeenWithin(walletRequest[s])' /\ Staked(walletRequest[s])'
    <2>1. WellPlaced(walletRequest[s]) /\ SeenWithin(walletRequest[s]) /\ Staked(walletRequest[s])
        BY AtRequest
    <2>2. CASE walletRequest'[s] = walletRequest[s]
        BY <1>1, <1>10, <2>1, <2>2 DEF WellPlaced, SeenWithin, Within, Staked
    <2>3. CASE walletRequest'[s] = q
        <3>1. WellPlaced(q)
            BY <1>3, <1>4 DEF WellPlaced
        <3>2. Within(q.seen, q.agent)
            BY <1>1, <1>2, <1>4 DEF SeenWithin
        <3>3. SeenWithin(walletRequest[s])'
            BY <1>10, <2>3, <3>2 DEF SeenWithin, Within
        <3>4. staker[t] \in Owners /\ (t \notin processed => staker[t] = old.agent)
              /\ (~Mock => staker[t] = old.agent)
            BY <1>0, <1>1, <1>2 DEF Staked
        <3>5. new => t \notin booked
            BY DEF WalletInv, WalletTypes
        <3> DEFINE x == staker[t]
        <3>6. staker'[t] = x /\ t \in processed' /\ booked' = booked
            BY <1>1
        <3>7. Staked(walletRequest[s])'
            BY <1>4, <2>3, <3>4, <3>5, <3>6 DEF Staked
        <3> QED BY <2>3, <3>1, <3>3, <3>7 DEF WellPlaced
    <2> QED BY <1>5, <2>2, <2>3
<1>12. \A b \in Owners : Within(profiles[b], b)'
    BY <1>1, <1>10 DEF WalletInv, Within
<1>13. \A s, p \in Stakings : s # p /\ Holds(walletRequest[s], walletRequest[s].tx)' =>
          /\ ~Holds(walletRequest[p], walletRequest[s].tx)'
          /\ WalletPostgres => ~(walletRequest[p].pc = "save" /\ walletRequest[p].tx = walletRequest[s].tx)'
    <2>1. ASSUME NEW s \in Stakings, NEW p \in Stakings, s # p,
                 Holds(walletRequest'[s], walletRequest'[s].tx)
          PROVE  /\ ~Holds(walletRequest'[p], walletRequest'[s].tx)
                 /\ WalletPostgres => ~(walletRequest'[p].pc = "save" /\ walletRequest'[p].tx = walletRequest'[s].tx)
        <3>1. CASE s = r
            <4>1. new /\ walletRequest'[s].tx = t /\ walletRequest'[p] = walletRequest[p]
                BY <1>4, <1>5, <1>6, <2>1, <3>1 DEF Holds
            <4>2. ~(walletRequest[p].pc = "save" /\ walletRequest[p].tx = t)
                BY <1>9, <4>1
            <4> QED BY <4>1, <4>2 DEF Holds
        <3>2. CASE s # r /\ p # r
            BY <1>5, <2>1, <3>2 DEF WalletInv, Holds
        <3>3. CASE p = r
            <4>1. walletRequest'[s] = walletRequest[s] /\ Holds(walletRequest[s], walletRequest[s].tx)
                BY <1>5, <2>1, <3>3
            <4>2. walletRequest[s].tx \in processed
                BY <1>9, <4>1 DEF Holds
            <4>3. Holds(walletRequest'[r], walletRequest[s].tx) => Holds(walletRequest[r], walletRequest[s].tx)
                BY <1>8, <4>2
            <4>4. ~Holds(walletRequest'[r], walletRequest[s].tx)
                BY <1>1, <4>3 DEF Holds
            <4>5. WalletPostgres => walletRequest[s].tx # t
                BY <1>0, <1>1, <2>1, <3>3, <4>1 DEF Wal!insertedByOther, Holds
            <4> QED BY <1>4, <1>6, <3>3, <4>1, <4>4, <4>5
        <3> QED BY <3>1, <3>2, <3>3
    <2> QED BY <2>1 DEF Holds
<1>14. \A x \in processed' : staker'[x] \in Owners
    BY <1>0, <1>1, <1>2 DEF WalletInv, Staked
<1>15. Mock => \A x \in Txs : staker'[x] # Wal!Nobody =>
          x \in processed' \/ \E s \in Stakings : walletRequest'[s].pc \in {"read", "record"} /\ walletRequest'[s].tx = x
    <2> SUFFICES ASSUME Mock, NEW x \in Txs, staker[x] # Wal!Nobody, x \notin processed, x # t
                 PROVE  \E s \in Stakings : walletRequest'[s].pc \in {"read", "record"} /\ walletRequest'[s].tx = x
        BY <1>1
    <2>1. PICK s \in Stakings : walletRequest[s].pc \in {"read", "record"} /\ walletRequest[s].tx = x
        BY DEF WalletInv
    <2>2. walletRequest'[s] = walletRequest[s]
        BY <1>0, <1>5, <2>1
    <2> QED BY <2>1, <2>2
<1> QED BY <1>7, <1>11, <1>12, <1>13, <1>14, <1>15 DEF WalletInv

LEMMA BookingKeeps ==
    ASSUME Wal!AgentWalletAssumption, WalletInv, NEW r \in Stakings, Wal!bookStake(r)
    PROVE  WalletInv'
<1> DEFINE old == walletRequest[r]
<1>0. PICK t, a, profile : t = old.tx /\ a = old.agent
                           /\ profile = [old.seen EXCEPT !.activeStake = Wal!nextStake(r)]
    OBVIOUS
<1>1. Wal!Goto(r, Wal!Idle) /\ old.pc = "save" /\ Wal!saveAgent(a, profile) /\ booked' = booked \cup {t}
      /\ UNCHANGED <<staker, seed, processed, claimTraces>>
    BY <1>0 DEF Wal!bookStake, Wal!Finish
<1>2. old \in WalletCall /\ WellPlaced(old) /\ SeenWithin(old) /\ Staked(old) /\ old.seen \in Profile
    BY AtRequest
<1>3. t \in Txs /\ a \in Owners /\ t \in processed /\ Within(old.seen, a)
    BY <1>0, <1>1, <1>2 DEF WellPlaced, Staked, SeenWithin
<1>4. ASSUME NEW s \in Stakings
      PROVE  walletRequest'[s] = (IF s = r THEN Wal!Idle ELSE walletRequest[s])
    BY <1>1 DEF Wal!Goto, WalletInv, WalletTypes
<1>5. Wal!nextStake(r) = (IF old.new THEN old.seen.activeStake + 1 ELSE old.seen.activeStake)
    BY DEF Wal!nextStake, Wal!addIntegerString
<1>6. Wal!nextStake(r) \in Nat
    BY <1>2, <1>5 DEF Profile
<1>7. profile \in Profile /\ profile.activeStake = Wal!nextStake(r)
    BY <1>0, <1>2, <1>6 DEF Profile
<1>8. WalletTypes'
    BY <1>1, <1>3, <1>7, IdleIsPlaced DEF WalletInv, WalletTypes, Wal!Goto, Wal!saveAgent
<1>9. ASSUME NEW s \in Stakings, NEW x
      PROVE  Holds(walletRequest'[s], x) <=> Holds(walletRequest[s], x) /\ s # r
    BY <1>4, IdleIsPlaced
<1>10. \A b : Counted(b) \subseteq Counted(b)'
    <2>1. ASSUME NEW b, NEW x \in Counted(b) PROVE x \in Counted(b)'
        <3>1. \A s \in Stakings : ~Holds(walletRequest'[s], x)
            BY <1>9 DEF Counted
        <3>2. \A s \in Stakings : ~Holds(walletRequest[s], x)'
            BY <3>1 DEF Holds
        <3> QED BY <1>1, <3>2 DEF Counted
    <2> QED BY <2>1
<1>11. Within(profile, a)'
    <2>1. CASE ~old.new
        <3>1. profile.activeStake = old.seen.activeStake
            BY <1>5, <1>7, <2>1
        <3>2. Within(profile, a) /\ profile.activeStake \in Nat
            BY <1>3, <1>6, <1>7, <3>1 DEF Within
        <3>3. WalletTypes
            BY DEF WalletInv
        <3>4. Cardinality(Counted(a)) \in Nat /\ IsFiniteSet(Counted(a)')
              /\ Cardinality(Counted(a)') \in Nat
            <4>1. Counted(a)' \subseteq Txs /\ IsFiniteSet(Txs)
                BY <1>8, WalCounts DEF Counted, WalletTypes, Wal!AgentWalletAssumption
            <4> QED BY <3>3, <4>1, CountedIsFinite, FS_Subset, FS_CardinalityType
        <3>5. Cardinality(Counted(a)) <= Cardinality(Counted(a)')
            BY <1>10, <3>4, FS_Subset
        <3> DEFINE m == Cardinality(Counted(a))  n == Cardinality(Counted(a)')  k == profile.activeStake
        <3>6. k <= m /\ m <= n /\ k \in Nat /\ m \in Nat /\ n \in Nat
            BY <3>2, <3>4, <3>5 DEF Within
        <3> HIDE DEF k, m, n
        <3>7. k <= n
            BY <3>6
        <3>8. profile.activeStake <= Cardinality(Counted(a)')
            BY <3>7 DEF k, n
        <3> QED BY <3>8 DEF Within
    <2>2. CASE old.new
        <3>1. Holds(old, t) /\ staker[t] = a
            BY <1>0, <1>1, <1>2, <2>2 DEF Holds, Staked
        <3>2. t \notin Counted(a)
            BY <3>1 DEF Counted
        <3>3. ASSUME NEW s \in Stakings PROVE ~Holds(walletRequest'[s], t)
            <4>1. Holds(walletRequest[r], walletRequest[r].tx) /\ walletRequest[r].tx = t
                BY <1>0, <3>1
            <4>2. s # r => ~Holds(walletRequest[s], t)
                BY <4>1 DEF WalletInv
            <4> QED BY <1>9, <4>2
        <3>4. t \in Counted(a)'
            <4>1. \A s \in Stakings : ~Holds(walletRequest[s], t)'
                BY <3>3 DEF Holds
            <4> QED BY <1>1, <1>3, <3>1, <4>1 DEF Counted
        <3>5. Counted(a) \cup {t} \subseteq Counted(a)'
            BY <1>10, <3>4
        <3>6. IsFiniteSet(Counted(a)) /\ Cardinality(Counted(a)) \in Nat
            BY CountedIsFinite DEF WalletInv
        <3>7. IsFiniteSet(Counted(a)') /\ Cardinality(Counted(a)') \in Nat
            <4>1. Counted(a)' \subseteq Txs /\ IsFiniteSet(Txs)
                BY <1>8, WalCounts DEF Counted, WalletTypes, Wal!AgentWalletAssumption
            <4> QED BY <4>1, FS_Subset, FS_CardinalityType
        <3>8. Cardinality(Counted(a) \cup {t}) = Cardinality(Counted(a)) + 1
            BY <3>2, <3>6, FS_AddElement
        <3>9. Cardinality(Counted(a) \cup {t}) <= Cardinality(Counted(a)')
            BY <3>5, <3>7, FS_Subset
        <3> DEFINE m == Cardinality(Counted(a))  n == Cardinality(Counted(a)')  k == old.seen.activeStake
        <3>10. k <= m /\ k \in Nat /\ m \in Nat /\ n \in Nat /\ m + 1 <= n
            BY <1>2, <1>3, <3>6, <3>7, <3>8, <3>9 DEF Within, Profile
        <3>11. profile.activeStake = k + 1
            BY <1>5, <1>7, <2>2
        <3> HIDE DEF k, m, n
        <3>12. k + 1 <= n
            BY <3>10
        <3>13. profile.activeStake <= Cardinality(Counted(a)')
            BY <3>11, <3>12 DEF n
        <3> QED BY <3>13 DEF Within
    <2> QED BY <2>1, <2>2
<1>12. ASSUME NEW s \in Stakings
       PROVE  WellPlaced(walletRequest[s])' /\ SeenWithin(walletRequest[s])' /\ Staked(walletRequest[s])'
    <2>1. WellPlaced(walletRequest[s]) /\ SeenWithin(walletRequest[s]) /\ Staked(walletRequest[s])
        BY AtRequest
    <2>2. CASE s = r
        <3>1. walletRequest'[s] = Wal!Idle
            BY <1>4, <2>2
        <3> QED BY <3>1 DEF Wal!Idle, WellPlaced, SeenWithin, Staked
    <2>3. CASE s # r
        <3>1. walletRequest'[s] = walletRequest[s]
            BY <1>4, <2>3
        <3>2. WellPlaced(walletRequest[s])'
            BY <2>1, <3>1 DEF WellPlaced
        <3>3. SeenWithin(walletRequest[s])'
            <4>1. PICK c : c = walletRequest[s]
                OBVIOUS
            <4>2. SeenWithin(c) /\ c.seen.activeStake \in Nat /\ WalletTypes
                BY <2>1, <4>1, AtRequest DEF Profile, WalletInv
            <4>3. c.pc \in {"ensure", "record", "save"} => Within(c.seen, c.agent)'
                BY <1>8, <1>10, <4>2, CountingOn DEF SeenWithin
            <4> QED BY <3>1, <4>1, <4>3 DEF SeenWithin, Within, Counted
        <3>4. Staked(walletRequest[s])'
            <4>1. WalletPostgres /\ walletRequest[s].pc = "save" /\ walletRequest[s].new => walletRequest[s].tx # t
                BY <1>0, <1>1, <2>3 DEF WalletInv, Holds
            <4> QED BY <1>1, <2>1, <3>1, <4>1 DEF Staked
        <3> QED BY <3>2, <3>3, <3>4
    <2> QED BY <2>2, <2>3
<1>13. ASSUME NEW b \in Owners PROVE Within(profiles[b], b)'
    <2>1. PICK p : p = profiles'[b]
        OBVIOUS
    <2>2. CASE b = a
        <3>1. p = profile
            BY <1>1, <1>3, <2>1, <2>2 DEF Wal!saveAgent, WalletInv, WalletTypes
        <3> QED BY <1>11, <2>1, <2>2, <3>1 DEF Within
    <2>3. CASE b # a
        <3>1. p = profiles[b]
            BY <1>1, <2>1, <2>3 DEF Wal!saveAgent, WalletInv, WalletTypes
        <3>2. Within(p, b) /\ p.activeStake \in Nat /\ WalletTypes
            BY <3>1 DEF WalletInv, WalletTypes, Profile
        <3>3. Within(p, b)'
            BY <1>8, <1>10, <3>2, CountingOn
        <3> QED BY <2>1, <3>3 DEF Within
    <2> QED BY <2>2, <2>3
<1>14. \A s, p \in Stakings : s # p /\ Holds(walletRequest[s], walletRequest[s].tx)' =>
          /\ ~Holds(walletRequest[p], walletRequest[s].tx)'
          /\ WalletPostgres => ~(walletRequest[p].pc = "save" /\ walletRequest[p].tx = walletRequest[s].tx)'
    <2>1. ASSUME NEW s \in Stakings, NEW p \in Stakings, s # p,
                 Holds(walletRequest'[s], walletRequest'[s].tx)
          PROVE  /\ ~Holds(walletRequest'[p], walletRequest'[s].tx)
                 /\ WalletPostgres => ~(walletRequest'[p].pc = "save" /\ walletRequest'[p].tx = walletRequest'[s].tx)
        <3>1. walletRequest'[s] = walletRequest[s] /\ Holds(walletRequest[s], walletRequest[s].tx)
            BY <1>4, <2>1, IdleIsPlaced
        <3>2. walletRequest'[p] = walletRequest[p] \/ walletRequest'[p].pc = "idle"
            BY <1>4 DEF Wal!Idle
        <3> QED BY <2>1, <3>1, <3>2 DEF WalletInv, Holds
    <2> QED BY <2>1 DEF Holds
<1>15. \A x \in processed' : staker'[x] \in Owners
    BY <1>1 DEF WalletInv
<1>16. Mock => \A x \in Txs : staker'[x] # Wal!Nobody =>
          x \in processed' \/ \E s \in Stakings : walletRequest'[s].pc \in {"read", "record"} /\ walletRequest'[s].tx = x
    BY <1>1, <1>4 DEF WalletInv
<1> QED BY <1>8, <1>12, <1>13, <1>14, <1>15, <1>16 DEF WalletInv

(* A restart takes back what was not saved: nothing that counts. *)
LEMMA RestartingKeeps ==
    ASSUME Wal!AgentWalletAssumption, Trusted, WalletInv, Wal!restart
    PROVE  WalletInv'
<1>1. walletRequest' = [r \in Stakings |-> Wal!Idle] /\ WalletPostgres /\ ~Mock
      /\ UNCHANGED <<staker, seed, profiles, claimTraces, booked>>
    BY DEF Wal!restart, Trusted
<1>2. processed' = {t \in processed : \A r \in Stakings : ~Holds(walletRequest[r], t)}
    BY DEF Wal!restart, Holds
<1>3. booked \subseteq processed'
    <2>1. ASSUME NEW t \in booked, NEW r \in Stakings PROVE ~Holds(walletRequest[r], t)
        BY <1>1, AtRequest DEF Staked, Holds
    <2> QED BY <1>2, <2>1 DEF WalletInv, WalletTypes
<1>4. WalletTypes'
    BY <1>1, <1>2, <1>3, IdleIsPlaced DEF WalletInv, WalletTypes
<1>5. \A r \in Stakings : walletRequest'[r] = Wal!Idle
    BY <1>1
<1>6. \A b : Counted(b)' = Counted(b)
    <2>1. \A r \in Stakings : \A x : ~Holds(walletRequest'[r], x)
        BY <1>5, IdleIsPlaced
    <2>2. \A r \in Stakings : \A x : ~Holds(walletRequest[r], x)'
        BY <2>1 DEF Holds
    <2> QED BY <1>1, <1>2, <2>2 DEF Counted
<1>7. \A r \in Stakings : WellPlaced(walletRequest[r])' /\ SeenWithin(walletRequest[r])' /\ Staked(walletRequest[r])'
    BY <1>5 DEF Wal!Idle, WellPlaced, SeenWithin, Staked
<1>8. \A b \in Owners : Within(profiles[b], b)'
    BY <1>1, <1>6 DEF WalletInv, Within
<1>9. \A r \in Stakings : ~(walletRequest'[r].pc = "save")
    BY <1>5 DEF Wal!Idle
<1>10. \A t \in processed' : staker'[t] \in Owners
    BY <1>1, <1>2 DEF WalletInv
<1> QED BY <1>1, <1>4, <1>7, <1>8, <1>9, <1>10 DEF WalletInv, Holds

LEMMA WalletStutters ==
    ASSUME WalletInv, UNCHANGED Wal!vars PROVE WalletInv'
<1>1. UNCHANGED <<staker, seed, profiles, processed, claimTraces, walletRequest, booked>>
    BY DEF Wal!vars
<1>2. \A b : Counted(b)' = Counted(b)
    BY <1>1 DEF Counted, Holds
<1>3. WalletTypes'
    BY <1>1 DEF WalletInv, WalletTypes
<1>4. \A r \in Stakings : WellPlaced(walletRequest[r])' /\ SeenWithin(walletRequest[r])' /\ Staked(walletRequest[r])'
    BY <1>1, <1>2 DEF WalletInv, WellPlaced, SeenWithin, Staked, Within
<1>5. \A b \in Owners : Within(profiles[b], b)'
    BY <1>1, <1>2 DEF WalletInv, Within
<1> QED BY <1>1, <1>3, <1>4, <1>5 DEF WalletInv, Holds

LEMMA WalletStays ==
    ASSUME Wal!AgentWalletAssumption, Trusted, ~MaySeed, WalletInv, [Wal!Next]_Wal!vars
    PROVE  WalletInv'
<1>1. ASSUME NEW a \in Owners PROVE ~Wal!beginSeed(a) /\ ~Wal!persistSeed(a)
    BY DEF Wal!beginSeed, Wal!persistSeed, WalletInv, WalletTypes
<1>2. ASSUME NEW a \in Owners, NEW t \in Txs, ~Mock, Wal!stakeOnChain(a, t) PROVE WalletInv'
    BY <1>2, MiningKeeps DEF Wal!stakeOnChain
<1>3. ASSUME NEW r \in Stakings, NEW a \in Owners, NEW t \in Txs, Wal!stakeForAgent(r, a, t)
      PROVE  WalletInv'
    <2>1. 0 \in 0 .. MaxClaims
        BY DEF Wal!AgentWalletAssumption
    <2>2. Wal!begin(r, a, t, 0, {})
        BY <1>3 DEF Wal!stakeForAgent
    <2> QED BY <2>1, <2>2, BeginningKeeps
<1>4. ASSUME NEW r \in Stakings, NEW a \in Owners, NEW id \in 1 .. MaxClaims,
             NEW vs \in (SUBSET Vaults) \ {{}}, Wal!claimRewards(r, a, id, vs)
      PROVE  WalletInv'
    <2>1. Wal!begin(r, a, "none", id, vs)
        BY <1>4 DEF Wal!claimRewards
    <2>2. id \in 0 .. MaxClaims
        BY DEF Wal!AgentWalletAssumption
    <2>3. vs \in SUBSET Vaults /\ vs # {}
        OBVIOUS
    <2> QED BY <2>1, <2>2, <2>3, BeginningKeeps
<1>5. ASSUME NEW r \in Stakings,
             \/ Wal!ensureAgent(r) \/ Wal!verified(r) \/ Wal!rejected(r) \/ Wal!readProfile(r)
             \/ Wal!recordAgentStakeTransaction(r) \/ Wal!bookStake(r)
             \/ (\E v \in Vaults : Wal!readVault(r, v)) \/ Wal!saveVault(r)
      PROVE  WalletInv'
    BY <1>5, EnsuringKeeps, VerifiedKeeps, RejectingKeeps, ReadingKeeps, RecordingKeeps,
       BookingKeeps, TracingKeeps
<1> QED BY <1>1, <1>2, <1>3, <1>4, <1>5, RestartingKeeps, WalletStutters DEF Wal!Next

LEMMA InvIsOverstated ==
    ASSUME Wal!AgentWalletAssumption, WalletInv PROVE Wal!TypeOK /\ Wal!NeverOverstated
<1>1. Wal!TypeOK
    BY DEF WalletInv, WalletTypes, Wal!TypeOK, Profile
<1>2. ASSUME NEW a \in Owners PROVE profiles[a].activeStake <= Wal!stakedOnChain(a)
    <2> DEFINE all == {t \in Txs : staker[t] = a}
    <2>1. Counted(a) \subseteq all /\ IsFiniteSet(all)
        BY FS_Subset, WalCounts DEF Counted, WalletInv, WalletTypes, Wal!AgentWalletAssumption
    <2>2. Cardinality(Counted(a)) <= Cardinality(all) /\ Cardinality(Counted(a)) \in Nat
          /\ Cardinality(all) \in Nat
        BY <2>1, FS_Subset, FS_CardinalityType
    <2>3. Wal!stakedOnChain(a) = Cardinality(all) + 0
        BY WalCounts DEF Wal!stakedOnChain, WalletInv, WalletTypes
    <2> DEFINE m == Cardinality(Counted(a))  n == Cardinality(all)  k == profiles[a].activeStake
    <2>4. k <= m /\ k \in Nat
        BY DEF WalletInv, WalletTypes, Within, Profile
    <2>5. m <= n /\ m \in Nat /\ n \in Nat /\ Wal!stakedOnChain(a) = n + 0
        BY <2>2, <2>3
    <2> HIDE DEF m, n, k
    <2>6. k <= Wal!stakedOnChain(a)
        BY <2>4, <2>5
    <2> QED BY <2>6 DEF k
<1> QED BY <1>1, <1>2 DEF Wal!NeverOverstated

(* No profile shows more stake than its agent put on the chain, however many requests, hashes and
   restarts there are; with the mock provider, for one request in memory (stakeForAgent,
   recordAgentStakeTransaction). *)
THEOREM StakesAreNeverOverstated ==
    ASSUME Wal!AgentWalletAssumption, Trusted, ~MaySeed
    PROVE  Wal!Spec => [](Wal!TypeOK /\ Wal!NeverOverstated)
<1> DEFINE Good == Wal!TypeOK /\ Wal!NeverOverstated
<1>1. Wal!Init => WalletInv
    BY WalletStarts
<1>2. WalletInv /\ [Wal!Next]_Wal!vars => WalletInv'
    BY WalletStays
<1>3. WalletInv => Good
    BY InvIsOverstated
<1> HIDE DEF Good
<1>4. Wal!Spec => []Good
    BY <1>1, <1>2, <1>3, PTL DEF Wal!Spec
<1> QED BY <1>4 DEF Good

-----------------------------------------------------------------------------
(* One request after another. *)
Fresh(q) == q.pc \in {"ensure", "record", "save"} => q.seen = profiles[q.agent]
CountedBooked(a) == {t \in booked : staker[t] = a}
SingleInv ==
    /\ \A r \in Stakings : Fresh(walletRequest[r])
    /\ processed \subseteq booked \cup {t \in Txs : \E r \in Stakings : Holds(walletRequest[r], t)}
    /\ Wal!StakeBooked
    /\ \A r \in Stakings : walletRequest[r].pc = "trace" => walletRequest[r].list = claimTraces[walletRequest[r].tx]
    /\ claims \subseteq (1 .. MaxClaims) \X Vaults /\ Wal!ClaimsTraced

LEMMA SingleStarts == ASSUME Wal!AgentWalletAssumption, Wal!Init PROVE SingleInv
<1>1. \A r \in Stakings : Fresh(walletRequest[r]) /\ walletRequest[r].pc # "trace"
    BY DEF Wal!Init, Wal!Idle, Fresh
<1>2. processed = {} /\ claims = {}
    BY DEF Wal!Init
<1>3. Wal!StakeBooked
    <2>1. ASSUME NEW a \in Owners PROVE profiles[a].activeStake >= Cardinality({t \in booked : staker[t] = a})
        <3>1. {t \in booked : staker[t] = a} = {} /\ profiles[a].activeStake = 0
            BY DEF Wal!Init, Wal!FallbackProfile
        <3> QED BY <3>1, FS_EmptySet
    <2> QED BY <2>1, WalCounts DEF Wal!StakeBooked
<1> QED BY <1>1, <1>2, <1>3 DEF SingleInv, Wal!ClaimsTraced

(* A step that books nothing. *)
LEMMA SingleGoes ==
    ASSUME Wal!AgentWalletAssumption, WalletInv, SingleInv, UNCHANGED booked,
           \A t \in booked : staker'[t] = staker[t],
           \A a \in Owners : profiles'[a].activeStake = profiles[a].activeStake,
           \A r \in Stakings : Fresh(walletRequest[r])',
           processed' \subseteq booked \cup {t \in Txs : \E r \in Stakings : Holds(walletRequest'[r], t)},
           \A r \in Stakings : walletRequest'[r].pc = "trace" => walletRequest'[r].list = claimTraces'[walletRequest'[r].tx],
           claims' \subseteq (1 .. MaxClaims) \X Vaults, Wal!ClaimsTraced'
    PROVE  SingleInv'
<1>1. Wal!StakeBooked'
    <2>1. ASSUME NEW a \in Owners
          PROVE  profiles'[a].activeStake >= Cardinality({t \in booked' : staker'[t] = a})
        <3>1. {t \in booked' : staker'[t] = a} = {t \in booked : staker[t] = a}
            OBVIOUS
        <3> QED BY <3>1, WalCounts DEF SingleInv, Wal!StakeBooked
    <2> QED BY <2>1, WalCounts DEF Wal!StakeBooked
<1>2. (processed \subseteq booked \cup {t \in Txs : \E r \in Stakings : Holds(walletRequest[r], t)})'
    BY DEF Holds
<1> QED BY <1>1, <1>2 DEF SingleInv

LEMMA SingleBooks ==
    ASSUME Wal!AgentWalletAssumption, WalletInv, SingleInv, Single, NEW r \in Stakings, Wal!bookStake(r)
    PROVE  SingleInv'
<1>0. PICK t, a, profile : t = walletRequest[r].tx /\ a = walletRequest[r].agent
                           /\ profile = [walletRequest[r].seen EXCEPT !.activeStake = Wal!nextStake(r)]
    OBVIOUS
<1> DEFINE old == walletRequest[r]
<1>1. old.pc = "save" /\ walletRequest' = [walletRequest EXCEPT ![r] = Wal!Idle] /\ Wal!saveAgent(a, profile)
      /\ booked' = booked \cup {t} /\ UNCHANGED <<staker, seed, processed, claimTraces, claims>>
    BY <1>0 DEF Wal!bookStake, Wal!Finish, Wal!Goto
<1>2. old \in WalletCall /\ WellPlaced(old) /\ Staked(old) /\ old.seen \in Profile
    BY AtRequest
<1>3. t \in Txs /\ a \in Owners /\ t \in processed /\ old.seen = profiles[a]
    BY <1>0, <1>1, <1>2 DEF WellPlaced, Staked, SingleInv, Fresh
<1>4. \A s \in Stakings : s = r
    BY DEF Single
<1>5. walletRequest'[r] = Wal!Idle
    BY <1>1 DEF WalletInv, WalletTypes
<1>6. \A s \in Stakings : Fresh(walletRequest[s])' /\ walletRequest'[s].pc # "trace"
    BY <1>4, <1>5 DEF Fresh, Wal!Idle
<1>7. processed' \subseteq booked'
    BY <1>0, <1>1, <1>4 DEF SingleInv, Holds
<1>8. booked \subseteq Txs
    BY DEF WalletInv, WalletTypes
<1>9. ASSUME NEW b \in Owners
      PROVE  profiles'[b].activeStake >= Cardinality({x \in booked' : staker'[x] = b})
    <2> DEFINE was == {x \in booked : staker[x] = b}
               is == {x \in booked' : staker'[x] = b}
    <2>1. IsFiniteSet(was) /\ Cardinality(was) \in Nat
        BY <1>8, FS_Subset, FS_CardinalityType, WalCounts DEF Wal!AgentWalletAssumption
    <2>2. profiles[b].activeStake >= Cardinality(was) /\ profiles[b].activeStake \in Nat
        BY WalCounts DEF SingleInv, Wal!StakeBooked, WalletInv, WalletTypes, Profile
    <2>3. CASE ~old.new
        <3>1. t \in booked
            BY <1>0, <1>3, <1>4, <2>3 DEF SingleInv, Holds
        <3>2. is = was
            BY <1>1, <3>1
        <3>3. profile.activeStake = profiles[a].activeStake
            BY <1>0, <1>2, <1>3, <2>3 DEF Wal!nextStake, Profile
        <3>4. profiles'[b].activeStake = profiles[b].activeStake
            BY <1>1, <1>3, <3>3 DEF Wal!saveAgent, WalletInv, WalletTypes
        <3> QED BY <2>2, <3>2, <3>4
    <2>4. CASE old.new
        <3>1. staker[t] = a
            BY <1>0, <1>1, <1>2, <2>4 DEF Staked
        <3>2. profile.activeStake = profiles[a].activeStake + 1
            BY <1>0, <1>2, <1>3, <2>4 DEF Wal!nextStake, Wal!addIntegerString, Profile
        <3>3. CASE b # a
            <4>1. is = was
                BY <1>1, <3>1, <3>3
            <4>2. profiles'[b].activeStake = profiles[b].activeStake
                BY <1>1, <1>3, <3>3 DEF Wal!saveAgent, WalletInv, WalletTypes
            <4> QED BY <2>2, <4>1, <4>2
        <3>4. CASE b = a
            <4>1. is = was \cup {t}
                BY <1>1, <3>1, <3>4
            <4>2. profiles'[b].activeStake = profiles[b].activeStake + 1
                BY <1>1, <1>3, <3>2, <3>4 DEF Wal!saveAgent, WalletInv, WalletTypes
            <4>3. Cardinality(was \cup {t}) = Cardinality(was) \/ Cardinality(was \cup {t}) = Cardinality(was) + 1
                BY <2>1, FS_AddElement
            <4> DEFINE m == Cardinality(was)  n == Cardinality(is)
                       k == profiles[b].activeStake  l == profiles'[b].activeStake
            <4>4. m \in Nat /\ k \in Nat /\ k >= m /\ (n = m \/ n = m + 1) /\ l = k + 1
                BY <2>1, <2>2, <4>1, <4>2, <4>3
            <4> HIDE DEF m, n, k, l
            <4>5. l >= n
                BY <4>4
            <4> QED BY <4>5 DEF l, n
        <3> QED BY <3>3, <3>4
    <2> QED BY <2>3, <2>4
<1>10. Wal!StakeBooked'
    BY <1>9, WalCounts DEF Wal!StakeBooked
<1>11. Wal!ClaimsTraced' /\ claims' \subseteq (1 .. MaxClaims) \X Vaults
    BY <1>1 DEF SingleInv, Wal!ClaimsTraced
<1>12. (processed \subseteq booked \cup {x \in Txs : \E s \in Stakings : Holds(walletRequest[s], x)})'
    BY <1>7
<1> QED BY <1>6, <1>10, <1>11, <1>12 DEF SingleInv

(* What most steps leave alone. *)
LEMMA SingleKeeps ==
    ASSUME Wal!AgentWalletAssumption, WalletInv, SingleInv, UNCHANGED <<booked, claimTraces, claims>>,
           \A t \in booked : staker'[t] = staker[t],
           \A a \in Owners : profiles'[a].activeStake = profiles[a].activeStake,
           \A r \in Stakings : Fresh(walletRequest[r])' /\ walletRequest'[r].pc # "trace",
           processed' \subseteq booked \cup {t \in Txs : \E r \in Stakings : Holds(walletRequest'[r], t)}
    PROVE  SingleInv'
<1>1. claims' \subseteq (1 .. MaxClaims) \X Vaults /\ Wal!ClaimsTraced'
    BY DEF SingleInv, Wal!ClaimsTraced
<1> QED BY <1>1, SingleGoes

(* With one request, that is at r and has no hash inserted. *)
LEMMA SingleAt ==
    ASSUME Wal!AgentWalletAssumption, WalletInv, SingleInv, Single, NEW r \in Stakings,
           walletRequest[r].pc # "save"
    PROVE  processed \subseteq booked
    BY DEF SingleInv, Single, Holds

LEMMA SingleStays ==
    ASSUME Wal!AgentWalletAssumption, Trusted, Single, ~MaySeed, WalletInv, SingleInv, [Wal!Next]_Wal!vars
    PROVE  SingleInv'
<1>1. \A a \in Owners : ~Wal!beginSeed(a) /\ ~Wal!persistSeed(a)
    BY DEF Wal!beginSeed, Wal!persistSeed, WalletInv, WalletTypes
<1>2. \A x \in booked : staker[x] \in Owners /\ x \in Txs
    BY DEF WalletInv, WalletTypes
<1>3. Wal!Nobody \notin Owners
    BY DEF Wal!AgentWalletAssumption, Wal!Nobody
<1>4. \A r, s \in Stakings : s = r
    BY DEF Single
<1>5. CASE UNCHANGED Wal!vars
    <2>1. UNCHANGED <<staker, profiles, processed, claimTraces, walletRequest, booked, claims>>
        BY <1>5 DEF Wal!vars
    <2> QED BY <2>1 DEF SingleInv, Fresh, Wal!StakeBooked, Wal!ClaimsTraced, Holds
<1>6. ASSUME NEW a \in Owners, NEW t \in Txs, Wal!stakeOnChain(a, t) PROVE SingleInv'
    <2>1. staker[t] = Wal!Nobody /\ staker' = [staker EXCEPT ![t] = a]
          /\ UNCHANGED <<profiles, processed, claimTraces, walletRequest, booked, claims>>
        BY <1>6 DEF Wal!stakeOnChain
    <2>2. \A x \in booked : staker'[x] = staker[x]
        BY <1>2, <1>3, <2>1
    <2>3. ASSUME NEW b \in Owners
          PROVE  profiles'[b].activeStake >= Cardinality({x \in booked' : staker'[x] = b})
        <3>1. {x \in booked' : staker'[x] = b} = {x \in booked : staker[x] = b}
            BY <2>1, <2>2
        <3> QED BY <2>1, <3>1, WalCounts DEF SingleInv, Wal!StakeBooked
    <2>4. Wal!StakeBooked'
        BY <2>3, WalCounts DEF Wal!StakeBooked
    <2> QED BY <2>1, <2>4 DEF SingleInv, Fresh, Wal!ClaimsTraced, Holds
<1>7. ASSUME NEW r \in Stakings, NEW a \in Owners, NEW t, NEW id, NEW vs, Wal!begin(r, a, t, id, vs)
      PROVE  SingleInv'
    <2>1. walletRequest[r].pc = "idle" /\ UNCHANGED <<staker, profiles, processed, claimTraces, booked, claims>>
        BY <1>7 DEF Wal!begin
    <2>2. walletRequest'[r].pc = "ensure" /\ walletRequest'[r].seen = profiles[a] /\ walletRequest'[r].agent = a
        BY <1>7 DEF Wal!begin, Wal!Goto, Wal!Idle, WalletInv, WalletTypes
    <2>3. \A s \in Stakings : Fresh(walletRequest[s])' /\ walletRequest'[s].pc # "trace"
        BY <1>4, <2>1, <2>2 DEF Fresh
    <2>4. processed' \subseteq booked
        BY <2>1, SingleAt
    <2> QED BY <2>1, <2>3, <2>4, SingleKeeps
<1>8. ASSUME NEW r \in Stakings, Wal!ensureAgent(r) PROVE SingleInv'
    <2>1. PICK a, profile : a = walletRequest[r].agent /\ profile = Wal!ensureWallet(walletRequest[r].seen)
        OBVIOUS
    <2>2. walletRequest[r].pc = "ensure" /\ Wal!saveAgent(a, profile)
          /\ UNCHANGED <<staker, processed, claimTraces, booked, claims>>
        BY <1>8, <2>1 DEF Wal!ensureAgent
    <2>3. walletRequest'[r].pc \in {"verify", "claim"}
        BY <1>8, AtRequest DEF Wal!ensureAgent, Wal!Goto, WalletInv, WalletTypes, WalletCall
    <2>4. \A s \in Stakings : Fresh(walletRequest[s])' /\ walletRequest'[s].pc # "trace"
        BY <1>4, <2>3 DEF Fresh
    <2>5. a \in Owners /\ profile.activeStake = profiles[a].activeStake
        BY <2>1, <2>2, AtRequest DEF WellPlaced, SingleInv, Fresh, Wal!ensureWallet, Profile
    <2>6. \A b \in Owners : profiles'[b].activeStake = profiles[b].activeStake
        BY <2>2, <2>5 DEF Wal!saveAgent, WalletInv, WalletTypes
    <2>7. processed' \subseteq booked
        BY <2>2, SingleAt
    <2> QED BY <2>2, <2>4, <2>6, <2>7, SingleKeeps
<1>9. ASSUME NEW r \in Stakings, Wal!verified(r) \/ Wal!rejected(r) PROVE SingleInv'
    <2>1. walletRequest[r].pc = "verify" /\ UNCHANGED <<profiles, processed, claimTraces, booked, claims>>
        BY <1>9 DEF Wal!verified, Wal!rejected
    <2>2. walletRequest'[r].pc \in {"read", "idle"}
        BY <1>9, AtRequest
           DEF Wal!verified, Wal!rejected, Wal!Finish, Wal!Goto, Wal!Idle, WalletInv, WalletTypes,
               WalletCall
    <2>3. \A s \in Stakings : Fresh(walletRequest[s])' /\ walletRequest'[s].pc # "trace"
        BY <1>4, <2>2 DEF Fresh
    <2>4. \A x \in booked : staker'[x] = staker[x]
        <3>1. PICK t, a : t = walletRequest[r].tx /\ a = walletRequest[r].agent
            OBVIOUS
        <3>2. UNCHANGED staker \/ (staker[t] = Wal!Nobody /\ staker' = [staker EXCEPT ![t] = a])
            BY <1>9, <3>1 DEF Wal!verified, Wal!rejected, Wal!verifyExecution
        <3>3. staker[t] = Wal!Nobody => t \notin booked
            BY <1>2, <1>3
        <3>4. staker \in [Txs -> Owners \cup {Wal!Nobody}]
            BY DEF WalletInv, WalletTypes
        <3>5. ASSUME NEW x \in booked PROVE staker'[x] = staker[x]
            <4>1. x \in Txs
                BY <1>2
            <4>2. x # t \/ UNCHANGED staker
                BY <3>2, <3>3
            <4> QED BY <3>2, <3>4, <4>1, <4>2
        <3> QED BY <3>5
    <2>5. processed' \subseteq booked
        BY <2>1, SingleAt
    <2> QED BY <2>1, <2>3, <2>4, <2>5, SingleKeeps
<1>10. ASSUME NEW r \in Stakings, Wal!readProfile(r) PROVE SingleInv'
    <2>1. walletRequest[r].pc = "read" /\ UNCHANGED <<staker, profiles, processed, claimTraces, booked, claims>>
        BY <1>10 DEF Wal!readProfile
    <2>2. walletRequest'[r].pc = "record" /\ walletRequest'[r].agent = walletRequest[r].agent
          /\ walletRequest'[r].seen = profiles[walletRequest[r].agent]
        BY <1>10, AtRequest DEF Wal!readProfile, Wal!Goto, WalletInv, WalletTypes, WalletCall
    <2>3. \A s \in Stakings : Fresh(walletRequest[s])' /\ walletRequest'[s].pc # "trace"
        BY <1>4, <2>1, <2>2 DEF Fresh
    <2>4. processed' \subseteq booked
        BY <2>1, SingleAt
    <2> QED BY <2>1, <2>3, <2>4, SingleKeeps
<1>11. ASSUME NEW r \in Stakings, Wal!recordAgentStakeTransaction(r) PROVE SingleInv'
    <2>1. PICK t : t = walletRequest[r].tx
        OBVIOUS
    <2>2. walletRequest[r].pc = "record" /\ UNCHANGED <<staker, profiles, claimTraces, booked, claims>>
          /\ processed' = processed \cup {t}
        BY <1>11, <2>1 DEF Wal!recordAgentStakeTransaction
    <2>3. walletRequest'[r].pc = "save" /\ walletRequest'[r].tx = t /\ (walletRequest'[r].new <=> t \notin processed)
          /\ walletRequest'[r].agent = walletRequest[r].agent /\ walletRequest'[r].seen = walletRequest[r].seen
        <3>1. PICK old, new : old = walletRequest[r] /\ new = (t \notin processed)
            OBVIOUS
        <3>2. walletRequest' = [walletRequest EXCEPT ![r] = [old EXCEPT !.pc = "save", !.new = new]]
            BY <1>11, <2>1, <3>1 DEF Wal!recordAgentStakeTransaction, Wal!Goto
        <3>3. old \in WalletCall /\ old.tx = t
            BY <2>1, <3>1, AtRequest
        <3>4. walletRequest'[r] = [old EXCEPT !.pc = "save", !.new = new]
            BY <3>2 DEF WalletInv, WalletTypes
        <3>5. walletRequest'[r].pc = "save" /\ walletRequest'[r].tx = t /\ walletRequest'[r].new = new
              /\ walletRequest'[r].agent = old.agent /\ walletRequest'[r].seen = old.seen
            BY <3>3, <3>4 DEF WalletCall
        <3> QED BY <3>1, <3>5
    <2>4. \A s \in Stakings : Fresh(walletRequest[s])' /\ walletRequest'[s].pc # "trace"
        BY <1>4, <2>2, <2>3 DEF Fresh, SingleInv
    <2>5. t \in Txs
        BY <2>1, <2>2, AtRequest DEF WellPlaced
    <2>6. processed \subseteq booked /\ (t \notin processed => Holds(walletRequest'[r], t))
        BY <2>2, <2>3, SingleAt DEF Holds
    <2>7. processed' \subseteq booked \cup {x \in Txs : \E s \in Stakings : Holds(walletRequest'[s], x)}
        BY <2>2, <2>5, <2>6
    <2> QED BY <2>2, <2>4, <2>7, SingleKeeps
<1>12. ASSUME NEW r \in Stakings, NEW v \in Vaults, Wal!readVault(r, v) PROVE SingleInv'
    <2>1. walletRequest[r].pc = "claim" /\ UNCHANGED <<staker, profiles, processed, claimTraces, booked, claims>>
        BY <1>12 DEF Wal!readVault
    <2>2. walletRequest'[r].pc = "trace" /\ walletRequest'[r].tx = v /\ walletRequest'[r].list = claimTraces[v]
        BY <1>12, AtRequest DEF Wal!readVault, Wal!Goto, WalletInv, WalletTypes, WalletCall
    <2>3. \A s \in Stakings : Fresh(walletRequest[s])' /\ walletRequest'[s].list = claimTraces'[walletRequest'[s].tx]
        BY <1>4, <2>1, <2>2 DEF Fresh
    <2>4. processed' \subseteq booked
        BY <2>1, SingleAt
    <2>5. claims' \subseteq (1 .. MaxClaims) \X Vaults /\ Wal!ClaimsTraced'
        BY <2>1 DEF SingleInv, Wal!ClaimsTraced
    <2> QED BY <2>1, <2>3, <2>4, <2>5, SingleGoes
<1>13. ASSUME NEW r \in Stakings, Wal!saveVault(r) PROVE SingleInv'
    <2>1. PICK v, id, list : v = walletRequest[r].tx /\ id = walletRequest[r].claim /\ list = walletRequest[r].list
        OBVIOUS
    <2>2. walletRequest[r].pc = "trace" /\ UNCHANGED <<staker, profiles, processed, booked>>
          /\ claimTraces' = [claimTraces EXCEPT ![v] = list \cup {id}] /\ claims' = claims \cup {<<id, v>>}
        BY <1>13, <2>1 DEF Wal!saveVault, Wal!appended
    <2>3. walletRequest'[r].pc \in {"idle", "claim"}
        <3> DEFINE q == [walletRequest[r] EXCEPT !.pc = "claim", !.vaults = @ \ {walletRequest[r].tx}]
        <3>1. Wal!Goto(r, Wal!Idle) \/ Wal!Goto(r, q)
            BY <1>13 DEF Wal!saveVault, Wal!Finish
        <3>2. q.pc = "claim" /\ Wal!Idle.pc = "idle"
            BY AtRequest DEF WalletCall, Wal!Idle
        <3> HIDE DEF q
        <3> QED BY <3>1, <3>2 DEF Wal!Goto, WalletInv, WalletTypes
    <2>4. \A s \in Stakings : Fresh(walletRequest[s])' /\ walletRequest'[s].pc # "trace"
        BY <1>4, <2>3 DEF Fresh
    <2>5. v \in Vaults /\ id \in 1 .. MaxClaims /\ list = claimTraces[v]
        BY <2>1, <2>2, AtRequest DEF WellPlaced, SingleInv
    <2>6. claimTraces'[v] = claimTraces[v] \cup {id} /\ \A u \in Vaults : claimTraces[u] \subseteq claimTraces'[u]
        BY <2>2, <2>5 DEF WalletInv, WalletTypes
    <2>7. claims' \subseteq (1 .. MaxClaims) \X Vaults
        BY <2>2, <2>5 DEF SingleInv
    <2>8. ASSUME NEW claim \in claims' PROVE claim[1] \in claimTraces'[claim[2]]
        <3>1. CASE claim = <<id, v>>
            BY <2>6, <3>1
        <3>2. CASE claim \in claims
            BY <2>6, <3>2 DEF SingleInv, Wal!ClaimsTraced
        <3> QED BY <2>2, <3>1, <3>2
    <2>9. processed' \subseteq booked
        BY <2>2, SingleAt
    <2>10. Wal!ClaimsTraced'
        BY <2>8 DEF Wal!ClaimsTraced
    <2> QED BY <2>2, <2>4, <2>7, <2>9, <2>10, SingleGoes
<1>14. CASE Wal!restart
    <2>1. walletRequest' = [r \in Stakings |-> Wal!Idle] /\ UNCHANGED <<staker, profiles, claimTraces, booked, claims>>
        BY <1>14 DEF Wal!restart
    <2>2. processed' = {t \in processed : \A r \in Stakings : ~Holds(walletRequest[r], t)}
        BY <1>14 DEF Wal!restart, Holds
    <2>3. \A s \in Stakings : Fresh(walletRequest[s])' /\ walletRequest'[s].pc # "trace"
        BY <2>1 DEF Fresh, Wal!Idle
    <2>4. processed' \subseteq booked
        BY <2>2 DEF SingleInv
    <2> QED BY <2>1, <2>3, <2>4, SingleKeeps
<1>15. ASSUME NEW r \in Stakings, Wal!bookStake(r) PROVE SingleInv'
    BY <1>15, SingleBooks
<1> QED BY <1>1, <1>5, <1>6, <1>7, <1>8, <1>9, <1>10, <1>11, <1>12, <1>13, <1>14, <1>15
        DEF Wal!Next, Wal!stakeForAgent, Wal!claimRewards

(* One request after another loses nothing: a stake that was answered shows in the profile, a claim
   in the trace list of every vault it named (stakeForAgent, claimRewards). *)
THEOREM StakesAreBookedOneByOne ==
    ASSUME Wal!AgentWalletAssumption, Trusted, Single, ~MaySeed
    PROVE  Wal!Spec => [](Wal!NeverOverstated /\ Wal!StakeBooked /\ Wal!ClaimsTraced)
<1> DEFINE Good == Wal!NeverOverstated /\ Wal!StakeBooked /\ Wal!ClaimsTraced
           Both == WalletInv /\ SingleInv
<1>1. Wal!Init => Both
    BY WalletStarts, SingleStarts
<1>2. Both /\ [Wal!Next]_Wal!vars => Both'
    BY WalletStays, SingleStays
<1>3. Both => Good
    BY InvIsOverstated DEF SingleInv
<1> HIDE DEF Good, Both
<1>4. Wal!Spec => []Good
    BY <1>1, <1>2, <1>3, PTL DEF Wal!Spec
<1> QED BY <1>4 DEF Good

-----------------------------------------------------------------------------
(* Uploads. *)
CONSTANTS Uploads, Signers, Contents, UploadKinds, Gateways, Configured, Defaults, Pinata, Steady,
          Provider, UploadProduction, MaxUploadRounds, MaxSigned, MaxUploads
VARIABLES round, signed, uploadRequest, stored, calls
Up == INSTANCE PayloadUpload WITH
          Requests <- Uploads, Wallets <- Signers, Kinds <- UploadKinds,
          Production <- UploadProduction, MaxRounds <- MaxUploadRounds, MaxCalls <- MaxUploads,
          request <- uploadRequest
UploadVaults == {"none", "vault"}
UploadRecord ==
    [payload : Up!Payload \cup {Up!NoPayload}, vault : UploadVaults, uri : Up!Payload \cup {Up!NoPayload},
     by : {"none", "session", "nobody", "operator", "signature"}, wallet : Signers \cup {"none"},
     sent : Up!Payload \cup {Up!NoPayload}, at : 0 .. MaxUploadRounds]
UploadMessage ==
    [wallet : Signers \cup {"none"}, payload : Up!Payload \cup {Up!NoPayload}, vault : UploadVaults]
UploadCall ==
    [pc : {"idle", "authorize", "normalize", "store", "pin", "verify", "unverified"},
     message : UploadMessage, session : BOOLEAN, token : BOOLEAN, upload : UploadRecord,
     attempt : 0 .. Up!IPFS_VERIFICATION_MAX_ATTEMPTS - 1, gateway : Up!resolveVerificationGateways]

(* What was uploaded under a session is what was sent, with its round, and what was uploaded under
   a signature is what was signed. *)
FromSession(u) ==
    u.by = "session" /\ u.vault # "none" => u.payload = Up!normalizePayloadRound(u.sent, u.at)
FromSignature(u) ==
    u.by = "signature" => Up!buildPayloadUploadMessage(u.wallet, u.payload, u.vault) \in signed

AsAuthorized(q) ==
    /\ q.pc # "idle" => q.upload.payload \in Up!Payload /\ q.upload.sent \in Up!Payload
    /\ q.pc = "authorize" => q.upload.by = "none"
    /\ q.pc \in {"authorize", "normalize"} => q.upload.payload = q.upload.sent
    /\ q.pc = "normalize" => q.upload.by = "session"
    /\ q.pc \in {"store", "pin", "verify"} => FromSession(q.upload) /\ FromSignature(q.upload)
    /\ q.pc \in {"pin", "verify"} => Provider = "ipfs"

(* The gateways before the one whose turn it is do not serve what was pinned: they were asked. *)
Unserved(q, i) == i < q.gateway \/ q.attempt > 0 => Up!gateways[i] \notin Steady
GatewaysFailed(q) ==
    /\ q.pc = "authorize" => q.attempt = 0 /\ q.gateway = 1
    /\ q.pc \in {"normalize", "store", "pin"} => q.attempt = 0 /\ q.gateway = 1
    /\ q.pc = "verify" /\ q.upload.uri = q.upload.payload =>
            \A i \in Up!resolveVerificationGateways : Unserved(q, i)
    /\ q.pc = "unverified" /\ q.upload.uri = q.upload.payload =>
            \A i \in Up!resolveVerificationGateways : Up!gateways[i] \notin Steady

StoredAsSent(u) ==
    /\ u.payload \in Up!Payload /\ FromSession(u) /\ FromSignature(u)
    /\ UploadProduction => u.uri = u.payload

UploadTypes ==
    /\ round \in 0 .. MaxUploadRounds
    /\ signed \subseteq UploadMessage /\ IsFiniteSet(signed) /\ Cardinality(signed) <= MaxSigned
    /\ uploadRequest \in [Uploads -> UploadCall]
    /\ stored \subseteq UploadRecord
UploadInv ==
    /\ UploadTypes
    /\ \A r \in Uploads : AsAuthorized(uploadRequest[r]) /\ GatewaysFailed(uploadRequest[r])
    /\ \A u \in stored : StoredAsSent(u)
    /\ \A u, v \in stored : u.payload = v.payload => u = v

-----------------------------------------------------------------------------
(* The module's counting is the library's. *)
LEMMA UpCounts == \A S : Up!Cardinality(S) = Cardinality(S) /\ (Up!IsFiniteSet(S) <=> IsFiniteSet(S))
<1>1. \A S : Up!IsFiniteSet(S) <=> IsFiniteSet(S)
    BY DEF Up!IsFiniteSet, IsFiniteSet
<1>2. \A S : Up!Cardinality(S) = Cardinality(S)
    BY DEF Up!Cardinality, Cardinality
<1> QED BY <1>1, <1>2

LEMMA GatewaysFit ==
    ASSUME Up!PayloadUploadAssumption
    PROVE  /\ Up!gateways \in Seq(Gateways) /\ Len(Up!gateways) \in Nat
           /\ DOMAIN Up!gateways = 1 .. Len(Up!gateways)
           /\ 1 \in Up!resolveVerificationGateways
           /\ Up!resolveVerificationGateways \subseteq Nat
<1> DEFINE pinning == IF Pinata THEN <<Defaults[1]>> ELSE <<>>
<1>1. Defaults[1] \in Gateways
    BY ElementOfSeq, EmptySeq, LenProperties DEF Up!PayloadUploadAssumption
<1>2. pinning \in Seq(Gateways)
    BY <1>1
<1>3. <<Configured>> \in Seq(Gateways) /\ Len(<<Configured>>) = 1 /\ Defaults \in Seq(Gateways)
    BY DEF Up!PayloadUploadAssumption
<1> HIDE DEF pinning
<1>4. pinning \o <<Configured>> \in Seq(Gateways) /\ Len(pinning \o <<Configured>>) = Len(pinning) + 1
    BY <1>2, <1>3
<1>5. Up!gateways = (pinning \o <<Configured>>) \o Defaults
    BY DEF Up!gateways, pinning
<1>6. Up!gateways \in Seq(Gateways) /\ Len(Up!gateways) = Len(pinning) + 1 + Len(Defaults)
    BY <1>3, <1>4, <1>5
<1>7. Len(pinning) \in Nat /\ Len(Defaults) \in Nat
    BY <1>2, <1>3, LenProperties
<1>8. Len(Up!gateways) \in Nat /\ Len(Up!gateways) >= 1 /\ DOMAIN Up!gateways = 1 .. Len(Up!gateways)
    BY <1>6, <1>7, LenProperties
<1>9. 1 \in DOMAIN Up!gateways /\ \A j \in DOMAIN Up!gateways : ~ j < 1
    BY <1>8
<1>10. DOMAIN Up!gateways \subseteq Nat
    BY <1>8
<1> QED BY <1>6, <1>8, <1>9, <1>10 DEF Up!resolveVerificationGateways

(* The next gateway to ask is the least of those after it. *)
LEMMA NextGateway ==
    ASSUME Up!PayloadUploadAssumption, NEW g, Up!after(g) # {}
    PROVE  LET i == CHOOSE i \in Up!after(g) : \A j \in Up!after(g) : i <= j
           IN  i \in Up!after(g) /\ \A j \in Up!after(g) : i <= j
<1>1. Up!after(g) \subseteq Nat
    BY GatewaysFit DEF Up!after
<1> DEFINE less == {p \in Nat \X Nat : p[1] < p[2]}
<1>2. OpToRel(<, Nat) = less
    BY Zenon DEF OpToRel
<1>3. IsWellFoundedOn(less, Nat)
    BY <1>2, NatLessThanWellFounded, Zenon
<1>4. PICK i \in Up!after(g) : \A j \in Up!after(g) : ~(<<j, i>> \in less)
    BY <1>1, <1>3, WFMin
<1>5. ASSUME NEW j \in Up!after(g) PROVE i <= j
    <2>1. i \in Nat /\ j \in Nat
        BY <1>1
    <2>2. <<j, i>> \in less => FALSE
        BY <1>4
    <2>3. j < i => <<j, i>> \in less
        BY <2>1
    <2> QED BY <2>1, <2>2, <2>3
<1> QED BY <1>5

-----------------------------------------------------------------------------
LEMMA NothingIsNoPayload == ASSUME Up!PayloadUploadAssumption PROVE Up!NoPayload \notin Up!Payload
    BY DEF Up!PayloadUploadAssumption, Up!NoPayload, Up!Payload

LEMMA IdleIsFine ==
    ASSUME Up!PayloadUploadAssumption
    PROVE  Up!Idle \in UploadCall /\ AsAuthorized(Up!Idle) /\ GatewaysFailed(Up!Idle)
<1>1. Up!NoUpload \in UploadRecord
    BY DEF Up!NoUpload, UploadRecord, UploadVaults, Up!PayloadUploadAssumption
<1>2. Up!NoMessage \in UploadMessage
    BY DEF Up!NoMessage, UploadMessage, UploadVaults
<1>3. 1 \in Up!resolveVerificationGateways
    BY GatewaysFit
<1>4. Up!Idle \in UploadCall
    BY <1>1, <1>2, <1>3 DEF Up!Idle, UploadCall, Up!IPFS_VERIFICATION_MAX_ATTEMPTS
<1> QED BY <1>4 DEF Up!Idle, AsAuthorized, GatewaysFailed

LEMMA UploadStarts == ASSUME Up!PayloadUploadAssumption, Up!Init PROVE UploadInv
<1>1. UploadTypes
    <2>1. round \in 0 .. MaxUploadRounds
        BY DEF Up!Init, Up!PayloadUploadAssumption
    <2>2. IsFiniteSet(signed) /\ Cardinality(signed) = 0
        BY FS_EmptySet DEF Up!Init
    <2>3. uploadRequest \in [Uploads -> UploadCall]
        BY IdleIsFine DEF Up!Init
    <2> QED BY <2>1, <2>2, <2>3 DEF Up!Init, UploadTypes, Up!PayloadUploadAssumption
<1>2. \A r \in Uploads : AsAuthorized(uploadRequest[r]) /\ GatewaysFailed(uploadRequest[r])
    BY IdleIsFine DEF Up!Init
<1>3. stored = {}
    BY DEF Up!Init
<1> QED BY <1>1, <1>2, <1>3 DEF UploadInv

-----------------------------------------------------------------------------
(* A request that goes on while nothing else changes. *)
LEMMA UploadGoes ==
    ASSUME UploadInv, NEW r \in Uploads, NEW q \in UploadCall, AsAuthorized(q),
           GatewaysFailed(q), Up!goes(r, q), round' \in 0 .. MaxUploadRounds, UNCHANGED <<signed, stored>>
    PROVE  UploadInv'
<1>1. UploadTypes'
    BY DEF UploadInv, UploadTypes, Up!goes
<1>2. ASSUME NEW s \in Uploads
      PROVE  (AsAuthorized(uploadRequest[s]) /\ GatewaysFailed(uploadRequest[s]))'
    <2>1. uploadRequest'[s] = uploadRequest[s] \/ uploadRequest'[s] = q
        BY DEF Up!goes, UploadInv, UploadTypes
    <2>2. signed' = signed
        OBVIOUS
    <2>3. AsAuthorized(uploadRequest'[s]) /\ GatewaysFailed(uploadRequest'[s])
        BY <2>1 DEF UploadInv
    <2> QED BY <2>2, <2>3 DEF AsAuthorized, GatewaysFailed, FromSession, FromSignature, Unserved
<1>3. \A u \in stored' : StoredAsSent(u)'
    BY DEF UploadInv, StoredAsSent, FromSession, FromSignature
<1>4. \A u, v \in stored' : u.payload = v.payload => u = v
    BY DEF UploadInv
<1> QED BY <1>1, <1>2, <1>3, <1>4 DEF UploadInv

(* One that is stored. *)
LEMMA UploadStored ==
    ASSUME Up!PayloadUploadAssumption, UploadInv, NEW r \in Uploads, Up!goes(r, Up!Idle),
           NEW u \in UploadRecord, StoredAsSent(u), stored' = Up!put(stored, u),
           UNCHANGED <<round, signed>>
    PROVE  UploadInv'
<1>1. UploadTypes'
    BY IdleIsFine DEF UploadInv, UploadTypes, Up!goes, Up!put
<1>2. ASSUME NEW s \in Uploads
      PROVE  (AsAuthorized(uploadRequest[s]) /\ GatewaysFailed(uploadRequest[s]))'
    <2>1. uploadRequest'[s] = uploadRequest[s] \/ uploadRequest'[s] = Up!Idle
        BY DEF Up!goes, UploadInv, UploadTypes
    <2>2. signed' = signed
        OBVIOUS
    <2>3. AsAuthorized(uploadRequest'[s]) /\ GatewaysFailed(uploadRequest'[s])
        BY <2>1, IdleIsFine DEF UploadInv
    <2> QED BY <2>2, <2>3 DEF AsAuthorized, GatewaysFailed, FromSession, FromSignature, Unserved
<1>3. \A k \in stored' : StoredAsSent(k)'
    BY DEF UploadInv, StoredAsSent, FromSession, FromSignature, Up!put
<1>4. \A k, v \in stored' : k.payload = v.payload => k = v
    BY DEF UploadInv, Up!put
<1> QED BY <1>1, <1>2, <1>3, <1>4 DEF UploadInv

LEMMA SigningKeeps ==
    ASSUME Up!PayloadUploadAssumption, UploadInv, NEW w \in Signers, Up!sign(w)
    PROVE  UploadInv'
<1>1. PICK p \in Up!Payload, v \in {"none", "vault"} :
         signed' = signed \cup {Up!buildPayloadUploadMessage(w, p, v)}
    BY DEF Up!sign
<1> DEFINE m == Up!buildPayloadUploadMessage(w, p, v)
<1>2. m \in UploadMessage
    BY DEF Up!buildPayloadUploadMessage, UploadMessage, UploadVaults
<1>3. IsFiniteSet(signed) /\ Cardinality(signed) \in Nat /\ Cardinality(signed) < MaxSigned
    BY FS_CardinalityType, UpCounts DEF UploadInv, UploadTypes, Up!sign
<1>4. signed' = signed \cup {m}
    BY <1>1
<1> HIDE DEF m
<1>5. IsFiniteSet(signed \cup {m})
      /\ (Cardinality(signed \cup {m}) = Cardinality(signed) \/ Cardinality(signed \cup {m}) = Cardinality(signed) + 1)
    BY <1>3, FS_AddElement, Zenon
<1>6. MaxSigned \in Nat
    BY DEF Up!PayloadUploadAssumption
<1> DEFINE c == Cardinality(signed)  d == Cardinality(signed \cup {m})
<1>7. c \in Nat /\ c < MaxSigned /\ (d = c \/ d = c + 1)
    BY <1>3, <1>5
<1> HIDE DEF c, d
<1>8. d <= MaxSigned
    BY <1>6, <1>7
<1>9. IsFiniteSet(signed') /\ Cardinality(signed') <= MaxSigned
    BY <1>4, <1>5, <1>8 DEF d
<1>10. UNCHANGED <<round, uploadRequest, stored>> /\ signed \subseteq signed' /\ signed' \subseteq UploadMessage
    BY <1>2, <1>4 DEF Up!sign, UploadInv, UploadTypes
<1>11. UploadTypes'
    BY <1>9, <1>10 DEF UploadInv, UploadTypes
<1>12. ASSUME NEW s \in Uploads
       PROVE  (AsAuthorized(uploadRequest[s]) /\ GatewaysFailed(uploadRequest[s]))'
    <2>1. AsAuthorized(uploadRequest[s]) /\ GatewaysFailed(uploadRequest[s])
        BY DEF UploadInv
    <2>2. uploadRequest'[s] = uploadRequest[s]
        BY <1>10
    <2> QED BY <1>10, <2>1, <2>2 DEF AsAuthorized, GatewaysFailed, FromSession, FromSignature, Unserved
<1>13. \A u \in stored' : StoredAsSent(u)'
    BY <1>10 DEF UploadInv, StoredAsSent, FromSession, FromSignature
<1> QED BY <1>10, <1>11, <1>12, <1>13 DEF UploadInv

LEMMA PostingKeeps ==
    ASSUME Up!PayloadUploadAssumption, UploadInv, NEW r \in Uploads, Up!post(r)
    PROVE  UploadInv'
<1>1. PICK p \in Up!Payload, v \in {"none", "vault"}, w \in Signers \cup {"none"},
           msg \in signed \cup {Up!NoMessage}, s \in BOOLEAN, t \in BOOLEAN :
         Up!goes(r, [Up!Idle EXCEPT !.pc = "authorize", !.message = msg, !.session = s /\ w # "none",
                                    !.token = t,
                                    !.upload = [Up!NoUpload EXCEPT !.payload = p, !.sent = p,
                                                                   !.vault = v, !.wallet = w]])
    BY DEF Up!post, Up!goes
<1> DEFINE u == [Up!NoUpload EXCEPT !.payload = p, !.sent = p, !.vault = v, !.wallet = w]
           q == [Up!Idle EXCEPT !.pc = "authorize", !.message = msg, !.session = s /\ w # "none",
                                !.token = t, !.upload = u]
<1>2. u \in UploadRecord
    <2>1. Up!NoUpload \in UploadRecord
        BY IdleIsFine DEF UploadCall, Up!Idle
    <2> QED BY <2>1 DEF UploadRecord, UploadVaults
<1>3. u.payload = p /\ u.sent = p /\ u.by = "none"
    BY DEF Up!NoUpload
<1> HIDE DEF u
<1>4. msg \in UploadMessage
    BY DEF UploadInv, UploadTypes, Up!NoMessage, UploadMessage, UploadVaults
<1>5. q \in UploadCall /\ q.pc = "authorize" /\ q.upload = u /\ q.attempt = 0 /\ q.gateway = 1
    <2>1. Up!Idle \in UploadCall /\ Up!Idle.attempt = 0 /\ Up!Idle.gateway = 1
        BY IdleIsFine DEF Up!Idle
    <2>2. (s /\ w # "none") \in BOOLEAN
        OBVIOUS
    <2> QED BY <1>2, <1>4, <2>1, <2>2 DEF UploadCall
<1>6. Up!goes(r, q)
    BY <1>1 DEF q, u
<1> HIDE DEF q
<1>7. AsAuthorized(q) /\ GatewaysFailed(q)
    BY <1>3, <1>5 DEF AsAuthorized, GatewaysFailed
<1>8. round' \in 0 .. MaxUploadRounds /\ UNCHANGED <<signed, stored>>
    BY DEF Up!post, UploadInv, UploadTypes
<1> QED BY <1>5, <1>6, <1>7, <1>8, UploadGoes

-----------------------------------------------------------------------------
(* A request refused or done with. *)
LEMMA RefusingKeeps ==
    ASSUME Up!PayloadUploadAssumption, UploadInv, NEW r \in Uploads, Up!goes(r, Up!Idle),
           round' \in 0 .. MaxUploadRounds, UNCHANGED <<signed, stored>>
    PROVE  UploadInv'
    BY IdleIsFine, UploadGoes

LEMMA AuthorizingKeeps ==
    ASSUME Up!PayloadUploadAssumption, UploadInv, NEW r \in Uploads, Up!authorize(r)
    PROVE  UploadInv'
<1> DEFINE q == uploadRequest[r]
           by == Up!authorizedBy(q)
           next == [q EXCEPT !.upload.by = by, !.pc = IF by = "session" THEN "normalize" ELSE "store"]
<1>1. q \in UploadCall /\ AsAuthorized(q) /\ GatewaysFailed(q) /\ q.pc = "authorize"
    BY DEF UploadInv, UploadTypes, Up!authorize
<1>2. round' \in 0 .. MaxUploadRounds /\ UNCHANGED <<signed, stored>>
    BY DEF Up!authorize, UploadInv, UploadTypes
<1>3. by \in {"none", "session", "nobody", "operator", "signature"}
    BY DEF Up!authorizedBy
<1>4. by = "signature" => q.message \in signed /\ Up!matches(q)
    BY DEF Up!authorizedBy
<1>5. CASE by = "none"
    BY <1>2, <1>5, RefusingKeeps DEF Up!authorize, Up!refused
<1>6. CASE by # "none"
    <2>1. Up!goes(r, next)
        BY <1>6 DEF Up!authorize
    <2> HIDE DEF by, q
    <2>2. q.upload \in UploadRecord
        BY <1>1 DEF UploadCall
    <2> DEFINE u == [q.upload EXCEPT !.by = by]
    <2>3. u \in UploadRecord /\ u.by = by /\ u.payload = q.upload.payload /\ u.sent = q.upload.sent
          /\ u.vault = q.upload.vault /\ u.wallet = q.upload.wallet /\ u.at = q.upload.at
        BY <1>3, <2>2 DEF UploadRecord
    <2>4. next.upload = u /\ next.pc = (IF by = "session" THEN "normalize" ELSE "store")
          /\ next.attempt = q.attempt /\ next.gateway = q.gateway
        BY <1>1 DEF UploadCall
    <2>5. next \in UploadCall
        BY <1>1, <2>3, <2>4 DEF UploadCall
    <2>6. FromSession(u) \/ by = "session"
        BY <2>3 DEF FromSession
    <2>7. FromSignature(u)
        BY <1>4, <2>3 DEF FromSignature, Up!matches, q
    <2> HIDE DEF next, u
    <2>8. AsAuthorized(next)
        BY <1>1, <2>3, <2>4, <2>6, <2>7 DEF AsAuthorized
    <2>9. GatewaysFailed(next)
        BY <1>1, <2>4 DEF GatewaysFailed
    <2> QED BY <1>2, <2>1, <2>5, <2>8, <2>9, UploadGoes
<1> QED BY <1>5, <1>6

LEMMA NormalizedPayload ==
    ASSUME Up!PayloadUploadAssumption, NEW p \in Up!Payload, NEW n \in 0 .. MaxUploadRounds
    PROVE  Up!normalizePayloadRound(p, n) \in Up!Payload
    BY DEF Up!Payload, Up!normalizePayloadRound

LEMMA NormalizingKeeps ==
    ASSUME Up!PayloadUploadAssumption, UploadInv, NEW r \in Uploads, Up!normalizePayloadUploadInput(r)
    PROVE  UploadInv'
<1> DEFINE q == uploadRequest[r]
           p == q.upload.payload
           current == IF p.kind = "phase" /\ round = 0 THEN 1 ELSE round
           plain == [q EXCEPT !.pc = "store"]
           done == [q EXCEPT !.pc = "store", !.upload.at = current,
                             !.upload.payload = Up!normalizePayloadRound(p, current)]
<1>1. q \in UploadCall /\ AsAuthorized(q) /\ GatewaysFailed(q) /\ q.pc = "normalize"
    BY DEF UploadInv, UploadTypes, Up!normalizePayloadUploadInput
<1>2. q.upload.by = "session" /\ p = q.upload.sent /\ p \in Up!Payload /\ q.attempt = 0 /\ q.gateway = 1
    BY <1>1 DEF AsAuthorized, GatewaysFailed
<1>3. current \in 0 .. MaxUploadRounds /\ round \in 0 .. MaxUploadRounds
    BY DEF UploadInv, UploadTypes, Up!PayloadUploadAssumption
<1>4. UNCHANGED <<signed, stored>> /\ round' \in {round, current}
    BY DEF Up!normalizePayloadUploadInput
<1>5. round' \in 0 .. MaxUploadRounds
    BY <1>3, <1>4
<1>6. \/ Up!goes(r, Up!Idle)
      \/ q.upload.vault = "none" /\ Up!goes(r, plain)
      \/ Up!goes(r, done)
    BY DEF Up!normalizePayloadUploadInput, Up!refused
<1> HIDE DEF q, current
<1>7. q.upload \in UploadRecord
    BY <1>1 DEF UploadCall
<1>8. CASE Up!goes(r, Up!Idle)
    BY <1>4, <1>5, <1>8, RefusingKeeps
<1>9. CASE q.upload.vault = "none" /\ Up!goes(r, plain)
    <2>1. plain \in UploadCall /\ plain.pc = "store" /\ plain.upload = q.upload
          /\ plain.attempt = 0 /\ plain.gateway = 1
        BY <1>1, <1>2 DEF UploadCall
    <2> HIDE DEF plain
    <2>2. AsAuthorized(plain)
        BY <1>2, <1>9, <2>1 DEF AsAuthorized, FromSession, FromSignature
    <2>3. GatewaysFailed(plain)
        BY <2>1 DEF GatewaysFailed
    <2> QED BY <1>4, <1>5, <1>9, <2>1, <2>2, <2>3, UploadGoes
<1>10. CASE Up!goes(r, done)
    <2> DEFINE n == Up!normalizePayloadRound(p, current)
               u == [q.upload EXCEPT !.at = current, !.payload = n]
    <2>1. n \in Up!Payload
        BY <1>2, <1>3, NormalizedPayload
    <2>2. n = Up!normalizePayloadRound(q.upload.sent, current)
        BY <1>2
    <2> HIDE DEF n
    <2>3. u \in UploadRecord /\ u.by = "session" /\ u.at = current /\ u.payload = n
          /\ u.sent = q.upload.sent
        BY <1>2, <1>3, <1>7, <2>1 DEF UploadRecord
    <2>4. done.upload = u
        BY <1>1 DEF n, UploadCall
    <2>5. done.pc = "store" /\ done.attempt = q.attempt /\ done.gateway = q.gateway
        BY <1>1 DEF UploadCall
    <2>6. done \in UploadCall
        BY <1>1, <2>3, <2>4, <2>5 DEF UploadCall
    <2> HIDE DEF done, u
    <2>7. FromSession(u) /\ FromSignature(u)
        BY <2>2, <2>3 DEF FromSession, FromSignature
    <2>8. AsAuthorized(done)
        BY <1>2, <2>1, <2>3, <2>4, <2>5, <2>7 DEF AsAuthorized
    <2>9. GatewaysFailed(done)
        BY <1>2, <2>5 DEF GatewaysFailed
    <2> QED BY <1>4, <1>5, <1>10, <2>6, <2>8, <2>9, UploadGoes
<1> QED BY <1>6, <1>8, <1>9, <1>10

LEMMA RoundsKeep ==
    ASSUME Up!PayloadUploadAssumption, UploadInv, Up!nextRound PROVE UploadInv'
<1>1. UNCHANGED <<signed, uploadRequest, stored>>
    BY DEF Up!nextRound
<1>2. round' \in 0 .. MaxUploadRounds
    BY DEF Up!nextRound, Up!PayloadUploadAssumption
<1>3. UploadTypes'
    BY <1>1, <1>2 DEF UploadInv, UploadTypes
<1>4. \A s \in Uploads : (AsAuthorized(uploadRequest[s]) /\ GatewaysFailed(uploadRequest[s]))'
    BY <1>1 DEF UploadInv, AsAuthorized, GatewaysFailed, FromSession, FromSignature, Unserved
<1>5. \A u \in stored' : StoredAsSent(u)'
    BY <1>1 DEF UploadInv, StoredAsSent, FromSession, FromSignature
<1> QED BY <1>1, <1>3, <1>4, <1>5 DEF UploadInv

LEMMA StoringKeeps ==
    ASSUME Up!PayloadUploadAssumption, UploadInv, NEW r \in Uploads, Up!storePayload(r)
    PROVE  UploadInv'
<1> DEFINE q == uploadRequest[r]
           next == [q EXCEPT !.pc = "pin"]
<1>1. q \in UploadCall /\ AsAuthorized(q) /\ GatewaysFailed(q) /\ q.pc = "store"
    BY DEF UploadInv, UploadTypes, Up!storePayload
<1>2. UNCHANGED <<round, signed>> /\ round \in 0 .. MaxUploadRounds
    BY DEF Up!storePayload, UploadInv, UploadTypes
<1>3. CASE Provider = "ipfs"
    <2>1. Up!goes(r, next) /\ stored' = stored
        BY <1>3 DEF Up!storePayload
    <2> HIDE DEF q
    <2>2. next \in UploadCall /\ next.pc = "pin" /\ next.upload = q.upload
          /\ next.attempt = q.attempt /\ next.gateway = q.gateway
        BY <1>1 DEF UploadCall
    <2> HIDE DEF next
    <2>3. AsAuthorized(next)
        BY <1>1, <1>3, <2>2 DEF AsAuthorized
    <2>4. GatewaysFailed(next)
        BY <1>1, <2>2 DEF GatewaysFailed
    <2> QED BY <1>2, <2>1, <2>2, <2>3, <2>4, UploadGoes
<1>4. CASE Provider # "ipfs" /\ UploadProduction
    <2>1. Up!goes(r, Up!Idle) /\ stored' = stored
        BY <1>4 DEF Up!storePayload, Up!refused
    <2> QED BY <1>2, <2>1, RefusingKeeps
<1>5. CASE Provider # "ipfs" /\ ~UploadProduction
    <2>1. Up!goes(r, Up!Idle) /\ stored' = Up!put(stored, q.upload)
        BY <1>5 DEF Up!storePayload, Up!refused
    <2>2. q.upload \in UploadRecord
        BY <1>1 DEF UploadCall
    <2>3. StoredAsSent(q.upload)
        BY <1>1, <1>5 DEF StoredAsSent, AsAuthorized
    <2> HIDE DEF q
    <2> QED BY <1>2, <2>1, <2>2, <2>3, UploadStored
<1> QED BY <1>3, <1>4, <1>5

LEMMA PinningKeeps ==
    ASSUME Up!PayloadUploadAssumption, UploadInv, NEW r \in Uploads, Up!pinToIpfs(r)
    PROVE  UploadInv'
<1> DEFINE q == uploadRequest[r]
<1>1. q \in UploadCall /\ AsAuthorized(q) /\ GatewaysFailed(q) /\ q.pc = "pin"
    BY DEF UploadInv, UploadTypes, Up!pinToIpfs
<1>2. UNCHANGED <<round, signed, stored>> /\ round \in 0 .. MaxUploadRounds
    BY DEF Up!pinToIpfs, UploadInv, UploadTypes
<1>3. CASE Up!goes(r, Up!Idle)
    BY <1>2, <1>3, RefusingKeeps
<1>4. CASE \E uri \in {q.upload.payload, Up!NoPayload} :
             Up!goes(r, [q EXCEPT !.pc = "verify", !.upload.uri = uri])
    <2>1. PICK uri \in {q.upload.payload, Up!NoPayload} :
             Up!goes(r, [q EXCEPT !.pc = "verify", !.upload.uri = uri])
        BY <1>4
    <2> DEFINE next == [q EXCEPT !.pc = "verify", !.upload.uri = uri]
               u == [q.upload EXCEPT !.uri = uri]
    <2> HIDE DEF q
    <2>2. q.upload \in UploadRecord
        BY <1>1 DEF UploadCall
    <2>3. uri \in Up!Payload \cup {Up!NoPayload}
        BY <2>2 DEF UploadRecord
    <2>4. u \in UploadRecord /\ u.payload = q.upload.payload /\ u.sent = q.upload.sent
          /\ u.by = q.upload.by /\ u.vault = q.upload.vault /\ u.wallet = q.upload.wallet
          /\ u.at = q.upload.at
        BY <2>2, <2>3 DEF UploadRecord
    <2>5. next.upload = u
        BY <1>1 DEF UploadCall
    <2>6. next.pc = "verify" /\ next.attempt = q.attempt /\ next.gateway = q.gateway
        BY <1>1 DEF UploadCall
    <2>7. next \in UploadCall
        BY <1>1, <2>4, <2>5, <2>6 DEF UploadCall
    <2>8. Up!goes(r, next)
        BY <2>1
    <2> HIDE DEF next, u
    <2>9. AsAuthorized(next)
        BY <1>1, <2>4, <2>5, <2>6 DEF AsAuthorized, FromSession, FromSignature
    <2>10. \A i \in Up!resolveVerificationGateways : Unserved(next, i)
        <3>1. next.attempt = 0 /\ next.gateway = 1
            BY <1>1, <2>6 DEF GatewaysFailed
        <3>2. ASSUME NEW i \in Up!resolveVerificationGateways PROVE ~(i < 1) /\ i \in Nat
            BY DEF Up!resolveVerificationGateways, Up!gateways
        <3> QED BY <3>1, <3>2 DEF Unserved
    <2>11. GatewaysFailed(next)
        BY <2>6, <2>10 DEF GatewaysFailed
    <2> QED BY <1>2, <2>7, <2>8, <2>9, <2>11, UploadGoes
<1> QED BY <1>3, <1>4 DEF Up!pinToIpfs, Up!refused

-----------------------------------------------------------------------------
(* Asking the next gateway. *)
LEMMA FailingKeeps ==
    ASSUME Up!PayloadUploadAssumption, NEW q \in UploadCall, AsAuthorized(q), GatewaysFailed(q),
           q.pc = "verify",
           q.upload.uri = q.upload.payload => Up!gateways[q.gateway] \notin Steady
    PROVE  Up!fails(q) \in UploadCall /\ AsAuthorized(Up!fails(q)) /\ GatewaysFailed(Up!fails(q))
<1> DEFINE g == q.gateway
           least == CHOOSE i \in Up!after(g) : \A j \in Up!after(g) : i <= j
           later == [q EXCEPT !.gateway = least]
           again == [q EXCEPT !.attempt = q.attempt + 1, !.gateway = 1]
           over == [q EXCEPT !.pc = "unverified"]
           whole == q.upload.uri = q.upload.payload
<1>1. g \in Up!resolveVerificationGateways /\ q.attempt \in 0 .. 2
    BY DEF UploadCall, Up!IPFS_VERIFICATION_MAX_ATTEMPTS
<1>2. Up!resolveVerificationGateways \subseteq Nat /\ 1 \in Up!resolveVerificationGateways
    BY GatewaysFit
<1>3. whole => \A i \in Up!resolveVerificationGateways :
                   i < q.gateway \/ i = q.gateway \/ q.attempt > 0 => Up!gateways[i] \notin Steady
    BY DEF GatewaysFailed, Unserved
<1>4. CASE Up!after(g) # {}
    <2>1. Up!fails(q) = later
        BY <1>4 DEF Up!fails
    <2> HIDE DEF g
    <2>2. least \in Up!after(g) /\ \A j \in Up!after(g) : least <= j
        BY <1>4, NextGateway
    <2> HIDE DEF least
    <2>3. least \in Up!resolveVerificationGateways
        BY <2>2 DEF Up!after
    <2>4. later \in UploadCall /\ later.pc = "verify" /\ later.upload = q.upload
          /\ later.attempt = q.attempt /\ later.gateway = least
        BY <2>3 DEF UploadCall
    <2> HIDE DEF later
    <2>5. ASSUME NEW i \in Up!resolveVerificationGateways, i < least
          PROVE  i < q.gateway \/ i = q.gateway
        <3>1. i \notin Up!after(g)
            BY <1>2, <2>2, <2>3, <2>5
        <3>2. i \in Nat /\ g \in Nat
            BY <1>1, <1>2
        <3>3. ~ g < i
            BY <3>1 DEF Up!after
        <3>4. i < g \/ i = g
            BY <3>2, <3>3
        <3> QED BY <3>4 DEF g
    <2>6. whole => \A i \in Up!resolveVerificationGateways : Unserved(later, i)
        BY <1>3, <2>4, <2>5 DEF Unserved
    <2>7. GatewaysFailed(later)
        BY <2>4, <2>6 DEF GatewaysFailed
    <2>8. AsAuthorized(later)
        BY <2>4 DEF AsAuthorized
    <2> QED BY <2>1, <2>4, <2>7, <2>8
<1>5. CASE Up!after(g) = {}
    <2>1. \A i \in Up!resolveVerificationGateways : i < q.gateway \/ i = q.gateway
        <3> HIDE DEF g
        <3>1. ASSUME NEW i \in Up!resolveVerificationGateways PROVE i < g \/ i = g
            <4>1. i \in Nat /\ g \in Nat
                BY <1>1, <1>2
            <4>2. ~ g < i
                BY <1>5 DEF Up!after
            <4> QED BY <4>1, <4>2
        <3> QED BY <3>1 DEF g
    <2>2. whole => \A i \in Up!resolveVerificationGateways : Up!gateways[i] \notin Steady
        BY <1>3, <2>1
    <2>3. CASE q.attempt + 1 < Up!IPFS_VERIFICATION_MAX_ATTEMPTS
        <3>1. Up!fails(q) = again
            BY <1>5, <2>3 DEF Up!fails
        <3> DEFINE n == q.attempt + 1
        <3>2. n \in 0 .. Up!IPFS_VERIFICATION_MAX_ATTEMPTS - 1
            BY <1>1, <2>3 DEF Up!IPFS_VERIFICATION_MAX_ATTEMPTS
        <3>6. n > 0
            BY <1>1
        <3>7. again = [q EXCEPT !.attempt = n, !.gateway = 1]
            OBVIOUS
        <3> HIDE DEF n, again
        <3>3. again \in UploadCall /\ again.pc = "verify" /\ again.upload = q.upload
            BY <1>2, <3>2, <3>7 DEF UploadCall
        <3>4. GatewaysFailed(again)
            BY <2>2, <3>3 DEF GatewaysFailed, Unserved
        <3>5. AsAuthorized(again)
            BY <3>3 DEF AsAuthorized
        <3> QED BY <3>1, <3>3, <3>4, <3>5
    <2>4. CASE ~(q.attempt + 1 < Up!IPFS_VERIFICATION_MAX_ATTEMPTS)
        <3>1. Up!fails(q) = over
            BY <1>5, <2>4 DEF Up!fails
        <3>2. over \in UploadCall /\ over.pc = "unverified" /\ over.upload = q.upload
            BY DEF UploadCall
        <3> HIDE DEF over
        <3>3. GatewaysFailed(over)
            BY <2>2, <3>2 DEF GatewaysFailed
        <3>4. AsAuthorized(over)
            BY <3>2 DEF AsAuthorized
        <3> QED BY <3>1, <3>2, <3>3, <3>4
    <2> QED BY <2>3, <2>4
<1> QED BY <1>4, <1>5

LEMMA VerifyingKeeps ==
    ASSUME Up!PayloadUploadAssumption, UploadInv, NEW r \in Uploads, Up!verifyPinnedPayload(r)
    PROVE  UploadInv'
<1> DEFINE q == uploadRequest[r]
           u == q.upload
<1>1. q \in UploadCall /\ AsAuthorized(q) /\ GatewaysFailed(q) /\ q.pc = "verify"
    BY DEF UploadInv, UploadTypes, Up!verifyPinnedPayload
<1>2. UNCHANGED <<round, signed>> /\ round \in 0 .. MaxUploadRounds
    BY DEF Up!verifyPinnedPayload, UploadInv, UploadTypes
<1>3. PICK result \in Up!fetchPinnedPayload(Up!gateways[q.gateway], u.uri) :
         IF Up!verified(result, u) THEN stored' = Up!put(stored, u) /\ Up!goes(r, Up!Idle)
         ELSE Up!goes(r, Up!fails(q)) /\ UNCHANGED stored
    BY DEF Up!verifyPinnedPayload
<1>4. u \in UploadRecord /\ u.payload \in Up!Payload
    BY <1>1 DEF UploadCall, AsAuthorized
<1>5. result.ok => result.payload \in {u.uri, Up!NoPayload}
    BY <1>3 DEF Up!fetchPinnedPayload
<1>6. Up!gateways[q.gateway] \in Steady => result.ok /\ result.payload = u.uri
    BY <1>3 DEF Up!fetchPinnedPayload
<1>7. CASE Up!verified(result, u)
    <2>1. u.uri = u.payload
        BY <1>4, <1>5, <1>7, NothingIsNoPayload DEF Up!verified
    <2>2. StoredAsSent(u)
        BY <1>1, <1>4, <2>1 DEF StoredAsSent, AsAuthorized
    <2>3. stored' = Up!put(stored, u) /\ Up!goes(r, Up!Idle)
        BY <1>3, <1>7
    <2> HIDE DEF u
    <2> QED BY <1>2, <1>4, <2>2, <2>3, UploadStored
<1>8. CASE ~Up!verified(result, u)
    <2>1. u.uri = u.payload => Up!gateways[q.gateway] \notin Steady
        BY <1>6, <1>8 DEF Up!verified
    <2>2. Up!goes(r, Up!fails(q)) /\ UNCHANGED stored
        BY <1>3, <1>8
    <2> HIDE DEF q
    <2>3. Up!fails(q) \in UploadCall /\ AsAuthorized(Up!fails(q)) /\ GatewaysFailed(Up!fails(q))
        BY <1>1, <2>1, FailingKeeps
    <2> QED BY <1>2, <2>2, <2>3, UploadGoes
<1> QED BY <1>7, <1>8

-----------------------------------------------------------------------------
LEMMA UploadStays ==
    ASSUME Up!PayloadUploadAssumption, UploadInv, [Up!Next]_Up!vars PROVE UploadInv'
<1>1. CASE UNCHANGED Up!vars
    <2>1. UNCHANGED <<round, signed, uploadRequest, stored>>
        BY <1>1 DEF Up!vars
    <2>2. UploadTypes'
        BY <2>1 DEF UploadInv, UploadTypes
    <2>3. \A s \in Uploads : (AsAuthorized(uploadRequest[s]) /\ GatewaysFailed(uploadRequest[s]))'
        BY <2>1 DEF UploadInv, AsAuthorized, GatewaysFailed, FromSession, FromSignature, Unserved
    <2>4. \A u \in stored' : StoredAsSent(u)'
        BY <2>1 DEF UploadInv, StoredAsSent, FromSession, FromSignature
    <2> QED BY <2>1, <2>2, <2>3, <2>4 DEF UploadInv
<1>2. ASSUME NEW r \in Uploads, Up!progress(r) PROVE UploadInv'
    BY <1>2, AuthorizingKeeps, NormalizingKeeps, StoringKeeps, PinningKeeps, VerifyingKeeps
        DEF Up!progress
<1> QED BY <1>1, <1>2, RoundsKeep, SigningKeeps, PostingKeeps DEF Up!Next

LEMMA InvIsFound ==
    ASSUME Up!PayloadUploadAssumption, UploadInv
    PROVE  Up!TypeOK /\ Up!SignedAsStored /\ Up!StoredIsPinned /\ Up!UploadIsFound /\ Up!ServedIsVerified
<1>1. Up!TypeOK
    <2>1. \A u \in stored : u.payload \in Up!Payload /\ u.vault \in {"none", "vault"}
        BY DEF UploadInv, UploadTypes, StoredAsSent, UploadRecord, UploadVaults
    <2>2. \A r \in Uploads : uploadRequest[r] \in UploadCall
        BY DEF UploadInv, UploadTypes
    <2> QED BY <2>1, <2>2, UpCounts DEF UploadInv, UploadTypes, UploadCall, Up!TypeOK
<1>2. Up!SignedAsStored
    BY DEF UploadInv, StoredAsSent, FromSignature, Up!SignedAsStored
<1>3. Up!StoredIsPinned
    BY DEF UploadInv, StoredAsSent, Up!StoredIsPinned
<1>4. Up!UploadIsFound
    BY DEF UploadInv, StoredAsSent, FromSession, Up!normalizePayloadRound, Up!UploadIsFound
<1>5. Up!ServedIsVerified
    BY DEF UploadInv, GatewaysFailed, Up!ServedIsVerified
<1> QED BY <1>1, <1>2, <1>3, <1>4, <1>5

(* Uploads, however many requests, wallets, gateways and rounds there are: records keep their
   shape, what is kept for a signature is what was signed, what a production record's address names
   is its payload, what a session uploaded is found when it is submitted, and an upload is not
   given up while a gateway serves it (payload-storage-service.ts). *)
THEOREM UploadsStayFound ==
    ASSUME Up!PayloadUploadAssumption
    PROVE  Up!Init /\ [][Up!Next]_Up!vars =>
           [](Up!TypeOK /\ Up!SignedAsStored /\ Up!StoredIsPinned /\ Up!UploadIsFound /\ Up!ServedIsVerified)
<1> DEFINE Good == Up!TypeOK /\ Up!SignedAsStored /\ Up!StoredIsPinned /\ Up!UploadIsFound /\ Up!ServedIsVerified
<1>1. Up!Init => UploadInv
    BY UploadStarts
<1>2. UploadInv /\ [Up!Next]_Up!vars => UploadInv'
    BY UploadStays
<1>3. UploadInv => Good
    BY InvIsFound
<1> HIDE DEF Good
<1>4. Up!Init /\ [][Up!Next]_Up!vars => []Good
    BY <1>1, <1>2, <1>3, PTL
<1> QED BY <1>4 DEF Good
=============================================================================
