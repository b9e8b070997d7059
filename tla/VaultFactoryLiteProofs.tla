----------------------- MODULE VaultFactoryLiteProofs -----------------------
(***************************************************************************)
(* Theorems about the reduced factory, for any accounts, committees, fees  *)
(* and amounts.  Custody of the collateral, the records and the pool are   *)
(* the layers of VaultBaseProofs: each of the factory's actions is one of  *)
(* the kinds of steps there.  Bonds and stakes are its own (LiteStakeInv), *)
(* and from all layers follow the properties of its run: money is where    *)
(* the phase of the vault needs it, and is taken for cause.                *)
(***************************************************************************)
EXTENDS VaultFactoryLite, VaultBaseProofs

\* The full factory's funding is funding.
LEMMA FullFundEscrow == Full!FundEscrow => FundEscrow
BY DEF Full!FundEscrow, FundEscrow, Full!Bps, Bps, Full!MAX_BPS, MAX_BPS

\* The steps of the rule phase are among the kinds and leave the fees alone.
LEMMA LiteRuleSteps == CustodyType /\ RuleStep => StepKind /\ UNCHANGED fees
<1> SUFFICES ASSUME CustodyType, RuleStep PROVE StepKind /\ UNCHANGED fees
    OBVIOUS
<1> USE DEF CustodyType, VaultRecord, VaultStatus, Unfunded
<1>1. ASSUME NEW value \in SetupDeposits, createVaultRequest(value)
      PROVE  StepKind /\ UNCHANGED fees
    BY <1>1
    DEF createVaultRequest, Full!createVaultRequest, Full!adminVars, StepKind, Proceeds,
        MoneyStays
<1>2. ASSUME NEW committee \in RuleCommittees, registerRuleCommittee(committee)
      PROVE  StepKind /\ UNCHANGED fees
    <2>1. /\ vault' = [vault EXCEPT !.status = "RuleDrafting",
                                   !.ruleRound = vault.ruleRound + 1]
          /\ vault.status = "RuleAuction"
          /\ UNCHANGED <<resolution, escrow, collateral, fees>>
        BY <1>2
        DEF registerRuleCommittee, Full!registerRuleCommittee, Full!moneyVars, Full!adminVars
    <2>2. vault.ruleRound + 1 \in Nat
        OBVIOUS
    <2>3. vault' \in VaultRecord /\ vault'.status = "RuleDrafting"
        BY <2>1, <2>2
    <2> QED BY <2>1, <2>3 DEF StepKind, Proceeds, MoneyStays
<1>3. ASSUME finalizeRuleSet PROVE StepKind /\ UNCHANGED fees
    BY <1>3 DEF finalizeRuleSet, adminVars, moneyVars, StepKind, Proceeds, MoneyStays
<1>4. ASSUME rejectRuleSet PROVE StepKind /\ UNCHANGED fees
    <2>1. PICK status \in {"Cancelled", "RuleAuction"} :
              vault' = [vault EXCEPT !.rejectionCount = vault.rejectionCount + 1,
                                     !.status = status]
        BY <1>4 DEF rejectRuleSet
    <2>2. vault.rejectionCount + 1 \in Nat /\ status \in VaultStatus \cap Unfunded
        OBVIOUS
    <2>3. vault' \in VaultRecord /\ vault'.status = status
        BY <2>1, <2>2
    <2>4. vault.status \in Unfunded /\ UNCHANGED <<resolution, escrow, collateral, fees>>
        BY <1>4 DEF rejectRuleSet, adminVars
    <2> QED BY <2>2, <2>3, <2>4 DEF StepKind, Proceeds, MoneyStays
<1>5. ASSUME acceptRuleSetAndFund PROVE StepKind /\ UNCHANGED fees
    <2>1. /\ vault' \in VaultRecord /\ vault'.status = "Active" /\ vault.status \in Unfunded
          /\ UNCHANGED <<resolution, fees>>
        BY <1>5 DEF acceptRuleSetAndFund, Full!acceptRuleSetAndFund, Full!adminVars
    <2>2. FundEscrow
        BY <1>5, FullFundEscrow DEF acceptRuleSetAndFund, Full!acceptRuleSetAndFund
    <2> QED BY <2>1, <2>2 DEF StepKind, IsFunded
<1> QED BY <1>1, <1>2, <1>3, <1>4, <1>5 DEF RuleStep

\* A tally has one of the three outcomes.
LEMMA TallyIsOutcome == tallyOutcome \in Outcomes
<1>1. CASE \E outcome \in Outcomes : Supported(outcome)
    BY <1>1 DEF tallyOutcome
<1>2. CASE ~\E outcome \in Outcomes : Supported(outcome)
    BY <1>2 DEF tallyOutcome, Outcomes
<1> QED BY <1>1, <1>2

\* The steps of the resolution round are among the kinds and leave the fees alone.
LEMMA LiteResolutionSteps == CustodyType /\ ResolutionStep => StepKind /\ UNCHANGED fees
<1> SUFFICES ASSUME CustodyType, ResolutionStep PROVE StepKind /\ UNCHANGED fees
    OBVIOUS
<1> USE DEF CustodyType, VaultRecord
<1>0. /\ RoundPhases \cup {"Active", "ResolutionAuction"} \subseteq Open
      /\ RevealPhases \subseteq RoundPhases
      /\ {"CommitPhase", "RevealPhase", "AuditPhase", "PublicChallenge"} \subseteq RoundPhases
      /\ Open \subseteq VaultStatus
    BY DEF Open, VaultStatus, Unfunded, Resolved, RoundPhases, RevealPhases
<1>1. ASSUME NEW committee \in ResolutionCommittees, registerResolutionCommittee(committee)
      PROVE  StepKind /\ UNCHANGED fees
    <2>1. /\ vault' = [vault EXCEPT !.status = "CommitPhase",
                                   !.resolutionRound = vault.resolutionRound + 1]
          /\ vault.status \in Open
          /\ UNCHANGED <<resolution, escrow, collateral, fees>>
        BY <1>0, <1>1
        DEF registerResolutionCommittee, Full!registerResolutionCommittee, Full!moneyVars,
            Full!adminVars
    <2>2. vault.resolutionRound + 1 \in Nat
        OBVIOUS
    <2>3. vault' \in VaultRecord /\ vault'.status \in Open
        BY <1>0, <2>1, <2>2
    <2> QED BY <2>1, <2>3 DEF StepKind, Proceeds, MoneyStays
<1>2. ASSUME NEW a \in Agents, NEW commitment \in Commitments, commitResolution(a, commitment)
      PROVE  StepKind /\ UNCHANGED fees
    BY <1>2
    DEF commitResolution, Full!commitResolution, Full!moneyVars, Full!adminVars, StepKind,
        custody
<1>3. ASSUME NEW a \in Agents, NEW revealed \in Commitments, revealResolution(a, revealed)
      PROVE  StepKind /\ UNCHANGED fees
    <2>1. /\ vault' = [vault EXCEPT !.status = "RevealPhase"]
          /\ vault.status \in Open
          /\ UNCHANGED <<resolution, escrow, collateral, fees>>
        BY <1>0, <1>3 DEF revealResolution, moneyVars, adminVars
    <2> QED BY <1>0, <2>1 DEF StepKind, Proceeds, MoneyStays
<1>4. ASSUME NEW auditor \in Agents, NEW judged \in Judgeable, NEW verdict \in Verdicts,
             submitAuditVerdict(auditor, judged, verdict)
      PROVE  StepKind /\ UNCHANGED fees
    <2>1. /\ vault' = [vault EXCEPT !.status = "AuditPhase"]
          /\ vault.status \in Open
          /\ UNCHANGED <<resolution, escrow, collateral, fees>>
        BY <1>0, <1>4
        DEF submitAuditVerdict, Full!submitAuditVerdict, Full!moneyVars, Full!adminVars
    <2> QED BY <1>0, <2>1 DEF StepKind, Proceeds, MoneyStays
<1>5. ASSUME NEW challenger \in Accounts, NEW target \in Agents,
             openPublicChallenge(challenger, target)
      PROVE  StepKind /\ UNCHANGED fees
    <2>1. /\ vault' = [vault EXCEPT !.status = "PublicChallenge"]
          /\ vault.status \in Open
          /\ UNCHANGED <<resolution, escrow, collateral, fees>>
        BY <1>0, <1>5 DEF openPublicChallenge, Full!openPublicChallenge, Full!adminVars
    <2> QED BY <1>0, <2>1 DEF StepKind, Proceeds, MoneyStays
<1>6. ASSUME NEW id \in DOMAIN round.challenges, NEW successful \in BOOLEAN, NEW role \in Roles,
             NEW slashAmount \in SlashAmounts,
             resolveChallenge(id, successful, role, slashAmount)
      PROVE  StepKind /\ UNCHANGED fees
    BY <1>6 DEF resolveChallenge, adminVars, StepKind, custody
<1>7. ASSUME finalizeV2Vault PROVE StepKind /\ UNCHANGED fees
    BY <1>0, <1>7, TallyIsOutcome
    DEF finalizeV2Vault, FinalizableStatuses, adminVars, StepKind, IsSettled
<1> QED BY <1>1, <1>2, <1>3, <1>4, <1>5, <1>6, <1>7 DEF ResolutionStep

\* Claims, the owner, the agents and time are among the kinds; fees stay schedules.
LEMMA LiteSurroundingSteps ==
    CustodyType /\ SurroundingStep => StepKind /\ fees' \in FeeSchedules
<1> SUFFICES ASSUME CustodyType, SurroundingStep PROVE StepKind /\ fees' \in FeeSchedules
    OBVIOUS
<1> USE DEF CustodyType
<1>1. ASSUME NEW a \in Claimants, claimRewards(a) PROVE StepKind /\ fees' \in FeeSchedules
    BY <1>1 DEF claimRewards, Full!claimRewards, Full!claim, Full!adminVars, StepKind, custody
<1>2. ASSUME NEW schedule \in FeeSchedules, setFees(schedule)
      PROVE  StepKind /\ fees' \in FeeSchedules
    BY <1>2 DEF setFees, Full!setFees, Full!moneyVars, StepKind, custody
<1>3. ASSUME NEW a \in Accounts, NEW level \in StakeLevels, moveStake(a, level)
      PROVE  StepKind /\ fees' \in FeeSchedules
    BY <1>3 DEF moveStake, Full!moveStake, Full!moneyVars, Full!adminVars, StepKind, custody
<1>4. ASSUME reachSettlementTime PROVE StepKind /\ fees' \in FeeSchedules
    BY <1>4
    DEF reachSettlementTime, Full!reachSettlementTime, Full!moneyVars, Full!adminVars,
        StepKind, custody
<1>5. ASSUME passDeadline PROVE StepKind /\ fees' \in FeeSchedules
    BY <1>5
    DEF passDeadline, Full!passDeadline, Full!moneyVars, Full!adminVars, StepKind, custody
<1>6. ASSUME passIssueDeadline PROVE StepKind /\ fees' \in FeeSchedules
    BY <1>6 DEF passIssueDeadline, vars, moneyVars, adminVars, StepKind, custody
<1> QED BY <1>1, <1>2, <1>3, <1>4, <1>5, <1>6 DEF SurroundingStep

\* So is every step.
LEMMA LiteSteps ==
    CustodyType /\ [Next]_liteVars => StepKind /\ fees' \in FeeSchedules
<1> SUFFICES ASSUME CustodyType, [Next]_liteVars PROVE StepKind /\ fees' \in FeeSchedules
    OBVIOUS
<1>1. CASE UNCHANGED liteVars
    BY <1>1 DEF liteVars, vars, moneyVars, adminVars, StepKind, custody, CustodyType
<1>2. CASE RuleStep
    BY <1>2, LiteRuleSteps DEF CustodyType
<1>3. CASE ResolutionStep
    BY <1>3, LiteResolutionSteps DEF CustodyType
<1>4. CASE SurroundingStep
    BY <1>4, LiteSurroundingSteps
<1> QED BY <1>1, <1>2, <1>3, <1>4 DEF Next

-----------------------------------------------------------------------------
\* The invariant of custody holds in every reachable state of the reduced factory.
THEOREM LiteCustodyIsInvariant == Spec => []CustodyInv
<1>1. Init => CustodyInv
    BY CustodyInit DEF Init
<1>2. CustodyInv /\ [Next]_liteVars => CustodyInv'
    BY LiteSteps, CustodyStep DEF CustodyInv
<1> QED BY <1>1, <1>2, PTL DEF Spec

\* With the reduced factory, too, vault, escrow, registry and token agree on where a vault
\* is (EscrowMatchesStatus).
THEOREM LiteEscrowAgrees == Spec => []EscrowMatchesStatus
BY LiteCustodyIsInvariant, PTL DEF CustodyInv

\* And it keeps the full factory's promise about the collateral: one step into custody, at
\* most one out of it, whole, to the receiver the outcome names.
THEOREM LitePromiseKept == Spec => KeepsCollateralPromise
<1>1. Init => Promise!Init
    BY PromiseInit DEF Init
<1>2. CustodyInv /\ [Next]_liteVars => [Promise!Next]_(Promise!promised)
    BY LiteSteps, PromiseStep DEF CustodyInv
<1> QED BY <1>1, <1>2, LiteCustodyIsInvariant, PTL
        DEF Spec, KeepsCollateralPromise, Promise!Spec

-----------------------------------------------------------------------------
\* What the actions taken from the full factory say in this module's own terms.

LEMMA SameNames ==
    /\ Full!RoundPhases = RoundPhases /\ Full!RevealPhases = RevealPhases
    /\ Full!Resolved = Resolved
    /\ Full!EmptyRound = EmptyRound /\ Full!NoSubmissions = NoSubmissions
    /\ Full!openChallenges = openChallenges
BY DEF Full!RoundPhases, RoundPhases, Full!RevealPhases, RevealPhases, Full!Resolved, Resolved,
       Full!EmptyRound, EmptyRound, Full!NoCommit, NoCommit, Full!NoSubmissions, NoSubmissions,
       Full!openChallenges, openChallenges

LEMMA SameRecords ==
    /\ \A committee : Full!recordRuleCommittee(committee) => recordRuleCommittee(committee)
    /\ \A committee :
           Full!recordResolutionCommittee(committee) => recordResolutionCommittee(committee)
    /\ \A a, commitment : Full!recordCommit(a, commitment) => recordCommit(a, commitment)
    /\ \A judged, auditor, verdict :
           Full!recordAuditVerdict(judged, auditor, verdict)
           => recordAuditVerdict(judged, auditor, verdict)
    /\ \A challenger, target, amount :
           Full!openChallenge(challenger, target, amount)
           => openChallenge(challenger, target, amount)
BY DEF Full!recordRuleCommittee, recordRuleCommittee, Full!IsInjective, IsInjective,
       Full!recordResolutionCommittee, recordResolutionCommittee,
       Full!recordCommit, recordCommit, Full!NoCommit, NoCommit,
       Full!recordAuditVerdict, recordAuditVerdict, Full!openChallenge, openChallenge

LEMMA SameDeposits ==
    /\ \A p, amount : Full!collectSetupDeposit(p, amount) = collectSetupDeposit(p, amount)
    /\ \A p, amount : Full!collectResolutionRewardDeposit(p, amount)
                          = collectResolutionRewardDeposit(p, amount)
    /\ \A p, id, amount :
           Full!collectChallengeBond(p, id, amount) = collectChallengeBond(p, id, amount)
    /\ \A p : Full!emptySetup(p) = emptySetup(p)
BY DEF Full!collectSetupDeposit, collectSetupDeposit, Full!collectResolutionRewardDeposit,
       collectResolutionRewardDeposit, Full!collectChallengeBond, collectChallengeBond,
       Full!emptySetup, emptySetup

LEMMA SameLocked == \A a : Full!Locked(a) = Locked(a)
<1>1. \A S, f : Full!Sum(S, f) = Sum(S, f)
    BY DEF Full!Sum, Sum, Full!Units, Units, Full!Cardinality, Cardinality
<1>2. Full!Roles = Roles
    BY DEF Full!Roles, Roles
<1> QED BY <1>1, <1>2 DEF Full!Locked, Locked

LEMMA SameBonds ==
    \A firsts, r, seconds, q : Full!LockBonds(firsts, r, seconds, q)
                               => LockBonds(firsts, r, seconds, q)
BY SameLocked
DEF Full!LockBonds, LockBonds, Full!MayLock, MayLock, Full!freeStakeOf, freeStakeOf,
    Full!ToSet, ToSet, Full!Accounts, Accounts, Full!Roles, Roles

-----------------------------------------------------------------------------
\* The records of committees, submissions and the round.

LEMMA LiteRuleChanges == SurroundingsInv /\ RuleStep => Changes
<1> SUFFICES ASSUME SurroundingsInv, RuleStep PROVE Changes
    OBVIOUS
<1>1. /\ UNCHANGED <<round, clock, paused, resolutionCommittee>>
      /\ vault.status \notin RoundPhases
    BY DEF RuleStep, createVaultRequest, Full!createVaultRequest, registerRuleCommittee,
           Full!registerRuleCommittee, finalizeRuleSet, rejectRuleSet, acceptRuleSetAndFund,
           Full!acceptRuleSetAndFund, committeeVars, Full!committeeVars, adminVars,
           Full!adminVars, RoundPhases, RevealPhases
<1>2. SubmissionsChange
    BY SameNames
    DEF RuleStep, createVaultRequest, Full!createVaultRequest, registerRuleCommittee,
        Full!registerRuleCommittee, finalizeRuleSet, rejectRuleSet, acceptRuleSetAndFund,
        Full!acceptRuleSetAndFund, SubmissionsChange
<1>3. \/ UNCHANGED ruleCommittee
      \/ \E committee \in RuleCommittees : recordRuleCommittee(committee)
    BY SameRecords
    DEF RuleStep, createVaultRequest, Full!createVaultRequest, registerRuleCommittee,
        Full!registerRuleCommittee, finalizeRuleSet, rejectRuleSet, acceptRuleSetAndFund,
        Full!acceptRuleSetAndFund, committeeVars, Full!committeeVars
<1> QED BY <1>1, <1>2, <1>3 DEF Changes, CommitteesChange, RoundChange, SurroundingsInv

LEMMA LiteResolutionChanges == CustodyType /\ SurroundingsInv /\ ResolutionStep => Changes
<1> SUFFICES ASSUME CustodyType, SurroundingsInv, ResolutionStep PROVE Changes
    OBVIOUS
<1>0. vault \in VaultRecord
    BY DEF CustodyType
<1>a. /\ {"CommitPhase", "RevealPhase", "AuditPhase", "PublicChallenge"} = RoundPhases
      /\ RevealPhases \subseteq RoundPhases
    BY DEF RoundPhases, RevealPhases
<1>1. UNCHANGED <<submissions, ruleCommittee, paused>> /\ SurroundingsInv'
    <2>1. UNCHANGED <<submissions, ruleCommittee, paused>>
        BY DEF ResolutionStep, registerResolutionCommittee, Full!registerResolutionCommittee,
               commitResolution, Full!commitResolution, revealResolution, submitAuditVerdict,
               Full!submitAuditVerdict, openPublicChallenge, Full!openPublicChallenge,
               resolveChallenge, finalizeV2Vault, committeeVars, Full!committeeVars, adminVars,
               Full!adminVars
    <2>2. clock' = clock \/ clock' = [clock EXCEPT !.deadlinesPassed = 0]
        BY DEF ResolutionStep, registerResolutionCommittee, Full!registerResolutionCommittee,
               commitResolution, Full!commitResolution, revealResolution, submitAuditVerdict,
               Full!submitAuditVerdict, openPublicChallenge, Full!openPublicChallenge,
               resolveChallenge, finalizeV2Vault
    <2>3. 0 \in 0 .. 4
        OBVIOUS
    <2> QED BY <2>1, <2>2, <2>3 DEF SurroundingsInv
<1>2. SubmissionsChange
    BY <1>1 DEF SubmissionsChange
<1>3. CommitteesChange /\ RoundChange
    <2>1. ASSUME NEW committee \in ResolutionCommittees, registerResolutionCommittee(committee)
          PROVE  CommitteesChange /\ RoundChange
        BY <1>1, <2>1, SameNames, SameRecords
        DEF registerResolutionCommittee, Full!registerResolutionCommittee, CommitteesChange,
            RoundChange
    <2>2. ASSUME NEW a \in Agents, NEW commitment \in Commitments,
                 commitResolution(a, commitment)
          PROVE  CommitteesChange /\ RoundChange
        BY <1>a, <2>2, SameRecords
        DEF commitResolution, Full!commitResolution, Full!committeeVars, CommitteesChange,
            RoundChange
    <2>3. ASSUME NEW a \in Agents, NEW revealed \in Commitments, revealResolution(a, revealed)
          PROVE  CommitteesChange /\ RoundChange
        <3>1. vault.status \in RoundPhases /\ vault'.status \in RoundPhases
            BY <1>0, <1>a, <2>3 DEF revealResolution, VaultRecord
        <3> QED BY <2>3, <3>1
                DEF revealResolution, committeeVars, CommitteesChange, RoundChange
    <2>4. ASSUME NEW auditor \in Agents, NEW judged \in Judgeable, NEW verdict \in Verdicts,
                 submitAuditVerdict(auditor, judged, verdict)
          PROVE  CommitteesChange /\ RoundChange
        <3>1. vault.status \in RoundPhases /\ vault'.status \in RoundPhases
            BY <1>0, <1>a, <2>4 DEF submitAuditVerdict, Full!submitAuditVerdict, VaultRecord
        <3> QED BY <2>4, <3>1, SameRecords
                DEF submitAuditVerdict, Full!submitAuditVerdict, Full!committeeVars,
                    CommitteesChange, RoundChange
    <2>5. ASSUME NEW challenger \in Accounts, NEW target \in Agents,
                 openPublicChallenge(challenger, target)
          PROVE  CommitteesChange /\ RoundChange
        <3>1. vault.status \in RoundPhases /\ vault'.status \in RoundPhases
            BY <1>0, <1>a, <2>5 DEF openPublicChallenge, Full!openPublicChallenge, VaultRecord
        <3>2. /\ Len(round.challenges) + 1 <= MaxChallenges
              /\ openChallenge(challenger, target, fees.challengeBond)
            BY <2>5, SameRecords DEF openPublicChallenge, Full!openPublicChallenge
        <3> QED BY <2>5, <3>1, <3>2
                DEF openPublicChallenge, Full!openPublicChallenge, Full!committeeVars,
                    CommitteesChange, RoundChange
    <2>6. ASSUME NEW id \in DOMAIN round.challenges, NEW successful \in BOOLEAN,
                 NEW role \in Roles, NEW slashAmount \in SlashAmounts,
                 resolveChallenge(id, successful, role, slashAmount)
          PROVE  CommitteesChange /\ RoundChange
        BY <2>6 DEF resolveChallenge, committeeVars, CommitteesChange, RoundChange
    <2>7. ASSUME finalizeV2Vault PROVE CommitteesChange /\ RoundChange
        BY <2>7, SameNames
        DEF finalizeV2Vault, Full!RoundIsOver, CommitteesChange, RoundChange
    <2> QED BY <2>1, <2>2, <2>3, <2>4, <2>5, <2>6, <2>7 DEF ResolutionStep
<1> QED BY <1>1, <1>2, <1>3 DEF Changes

LEMMA LiteOtherChanges == SurroundingsInv /\ SurroundingStep => Changes
<1> SUFFICES ASSUME SurroundingsInv, SurroundingStep PROVE Changes
    OBVIOUS
<1>1. UNCHANGED <<vault, ruleCommittee, resolutionCommittee, submissions, round, paused>>
    BY DEF SurroundingStep, claimRewards, Full!claimRewards, Full!claim, setFees,
           Full!setFees, moveStake, Full!moveStake, reachSettlementTime,
           Full!reachSettlementTime, passDeadline, Full!passDeadline, passIssueDeadline,
           vars, committeeVars, Full!committeeVars, adminVars, Full!adminVars
<1>2. SurroundingsInv'
    <2>1. \/ UNCHANGED clock
          \/ clock' = [clock EXCEPT !.settlementReached = TRUE]
          \/ /\ clock.deadlinesPassed < 4
             /\ clock' = [clock EXCEPT !.deadlinesPassed = @ + 1]
        BY DEF SurroundingStep, claimRewards, Full!claimRewards, Full!claim, setFees,
               Full!setFees, moveStake, Full!moveStake, reachSettlementTime,
               Full!reachSettlementTime, passDeadline, Full!passDeadline, passIssueDeadline,
               vars
    <2>2. /\ clock \in [settlementReached : BOOLEAN, deadlinesPassed : 0 .. 4]
          /\ paused' \in BOOLEAN
        BY <1>1 DEF SurroundingsInv
    <2>3. clock' \in [settlementReached : BOOLEAN, deadlinesPassed : 0 .. 4]
        <3> DEFINE next == clock.deadlinesPassed + 1
        <3>1. clock.deadlinesPassed < 4 => next \in 0 .. 4
            BY <2>2
        <3>2. \/ UNCHANGED clock
              \/ clock' = [clock EXCEPT !.settlementReached = TRUE]
              \/ clock.deadlinesPassed < 4 /\ clock' = [clock EXCEPT !.deadlinesPassed = next]
            BY <2>1
        <3> HIDE DEF next
        <3> QED BY <2>2, <3>1, <3>2
    <2> QED BY <2>2, <2>3 DEF SurroundingsInv
<1>3. RoundChange
    BY <1>1 DEF RoundChange
<1> QED BY <1>1, <1>2, <1>3 DEF Changes, CommitteesChange, SubmissionsChange

\* The records of the reduced factory are well formed and end with their round, too.
THEOREM LiteRecordsAreInvariant == Spec => []RecordsInv
<1>1. CustodyInv /\ RecordsInv /\ [Next]_liteVars => RecordsInv'
    <2> SUFFICES ASSUME CustodyType, RecordsInv, [Next]_liteVars PROVE Changes
        BY ChangesKeepRecords DEF CustodyInv
    <2>1. UNCHANGED liteVars => Changes
        BY DEF liteVars, vars, committeeVars, adminVars, Changes, CommitteesChange,
               SubmissionsChange, RoundChange, RecordsInv, SurroundingsInv
    <2> QED BY <2>1, LiteRuleChanges, LiteResolutionChanges, LiteOtherChanges
            DEF Next, RecordsInv
<1>2. Init => RecordsInv
    BY RecordsInit DEF Init
<1> QED BY <1>1, <1>2, LiteCustodyIsInvariant, PTL DEF Spec

-----------------------------------------------------------------------------
\* The reward pool.

LEMMA LiteRulePoolSteps == CustodyType /\ RuleStep => PoolStep
<1> SUFFICES ASSUME CustodyType, RuleStep PROVE PoolStep
    OBVIOUS
<1>0. vault \in VaultRecord /\ fees \in FeeSchedule
    BY FeesAreSchedules DEF CustodyType
<1>1. ASSUME NEW value \in SetupDeposits, createVaultRequest(value) PROVE SetupPaidIn
    <2>1. value \in Nat
        BY AmountsAreNat
    <2>2. /\ vault.status = "Absent" /\ vault' = [vault EXCEPT !.status = "RuleAuction"]
          /\ pool' = collectSetupDeposit(pool, value) /\ UNCHANGED round
        BY <1>1, SameDeposits DEF createVaultRequest, Full!createVaultRequest
    <2> QED BY <1>0, <2>1, <2>2 DEF VaultRecord, SetupPaidIn
<1>2. ASSUME NEW committee \in RuleCommittees, registerRuleCommittee(committee) PROVE PoolRests
    BY <1>0, <1>2
    DEF registerRuleCommittee, Full!registerRuleCommittee, Full!moneyVars, VaultRecord,
        PoolRests, DepositsRest, Drafting
<1>3. ASSUME finalizeRuleSet PROVE PoolRests
    BY <1>0, <1>3 DEF finalizeRuleSet, moneyVars, VaultRecord, PoolRests, DepositsRest, Drafting
<1>4. ASSUME rejectRuleSet PROVE SetupReturned \/ PoolRests
    <2>1. PICK cancelled \in BOOLEAN :
              /\ vault.status = "UserRuleReview" /\ UNCHANGED round
              /\ vault'.status = IF cancelled THEN "Cancelled" ELSE "RuleAuction"
              /\ pool' = IF cancelled THEN emptySetup(pool) ELSE pool
        BY <1>0, <1>4 DEF rejectRuleSet, Full!rejectedTooOften, VaultRecord
    <2> QED BY <2>1 DEF SetupReturned, PoolRests, DepositsRest, Drafting
<1>5. ASSUME acceptRuleSetAndFund PROVE RewardPaidIn
    <2>1. /\ vault.status = "UserRuleReview" /\ vault' = [vault EXCEPT !.status = "Active"]
          /\ pool' = collectResolutionRewardDeposit(emptySetup(pool), fees.rewardDeposit)
          /\ UNCHANGED round
        BY <1>5, SameDeposits DEF acceptRuleSetAndFund, Full!acceptRuleSetAndFund
    <2> QED BY <1>0, <2>1 DEF VaultRecord, FeeSchedule, RewardPaidIn, Drafting
<1> QED BY <1>1, <1>2, <1>3, <1>4, <1>5 DEF RuleStep, PoolStep

LEMMA LiteResolutionPoolSteps == CustodyType /\ RecordsInv /\ ResolutionStep => PoolStep
<1> SUFFICES ASSUME CustodyType, RecordsInv, ResolutionStep PROVE PoolStep
    OBVIOUS
<1>0. vault \in VaultRecord /\ round \in RoundRecord
    BY DEF CustodyType, RecordsInv, RoundInv
<1>a. /\ {"CommitPhase", "RevealPhase", "AuditPhase", "PublicChallenge", "Active",
          "ResolutionAuction"} \cup RoundPhases \subseteq Open
      /\ RevealPhases = {"CommitPhase", "RevealPhase"}
      /\ FinalizableStatuses \subseteq RoundPhases
      /\ {"Active", "ResolutionAuction"} \cap RoundPhases = {}
    BY DEF Open, VaultStatus, RoundPhases, RevealPhases, FinalizableStatuses, Unfunded, Resolved
<1> USE DEF moneyVars, Full!moneyVars
<1>1. ASSUME NEW committee \in ResolutionCommittees, registerResolutionCommittee(committee)
      PROVE  PoolRests
    BY <1>0, <1>a, <1>1, SameNames
    DEF registerResolutionCommittee, Full!registerResolutionCommittee, VaultRecord, PoolRests,
        DepositsRest
<1>2. ASSUME NEW a \in Agents, NEW commitment \in Commitments, commitResolution(a, commitment)
      PROVE  PoolRests
    BY <1>0, <1>2, SameRecords
    DEF commitResolution, Full!commitResolution, recordCommit, RoundRecord, PoolRests,
        DepositsRest
<1>3. ASSUME NEW a \in Agents, NEW revealed \in Commitments, revealResolution(a, revealed)
      PROVE  PoolRests
    <2>1. vault.status \in Open /\ vault' = [vault EXCEPT !.status = "RevealPhase"]
        BY <1>a, <1>3 DEF revealResolution
    <2>2. UNCHANGED <<pool, round.challenges>>
        BY <1>0, <1>3 DEF revealResolution, recordReveal, RoundRecord
    <2> QED BY <1>0, <1>a, <2>1, <2>2 DEF VaultRecord, PoolRests, DepositsRest
<1>4. ASSUME NEW auditor \in Agents, NEW judged \in Judgeable, NEW verdict \in Verdicts,
             submitAuditVerdict(auditor, judged, verdict)
      PROVE  PoolRests
    <2>1. vault.status \in Open /\ vault' = [vault EXCEPT !.status = "AuditPhase"]
        BY <1>a, <1>4 DEF submitAuditVerdict, Full!submitAuditVerdict
    <2>2. UNCHANGED <<pool, round.challenges>>
        BY <1>0, <1>4, SameRecords
        DEF submitAuditVerdict, Full!submitAuditVerdict, recordAuditVerdict, RoundRecord
    <2> QED BY <1>0, <1>a, <2>1, <2>2 DEF VaultRecord, PoolRests, DepositsRest
<1>5. ASSUME NEW challenger \in Accounts, NEW target \in Agents,
             openPublicChallenge(challenger, target)
      PROVE  BondPaidIn
    <2>1. /\ vault.status \in Open /\ vault' = [vault EXCEPT !.status = "PublicChallenge"]
          /\ Len(round.challenges) + 1 <= MaxChallenges
          /\ openChallenge(challenger, target, fees.challengeBond)
          /\ pool' = collectChallengeBond(pool, Len(round.challenges) + 1, fees.challengeBond)
        BY <1>a, <1>5, SameRecords, SameDeposits
        DEF openPublicChallenge, Full!openPublicChallenge
    <2>2. vault'.status \in Open
        BY <1>0, <1>a, <2>1 DEF VaultRecord
    <2> QED BY <2>1, <2>2 DEF BondPaidIn
<1>6. ASSUME NEW id \in DOMAIN round.challenges, NEW successful \in BOOLEAN, NEW role \in Roles,
             NEW slashAmount \in SlashAmounts,
             resolveChallenge(id, successful, role, slashAmount)
      PROVE  BondPaidOut
    <2> DEFINE challenge == round.challenges[id]
               closed == payChallengeBond(pool, id, challenge.bondAmount)
               reward == <<[to |-> challenge.challenger, amount |-> fees.challengerSuccess]>>
    <2>1. /\ closeChallenge(id, successful) /\ UNCHANGED vault
          /\ pool' = IF successful THEN allocateResolutionRewards(closed, reward) ELSE closed
        BY <1>6 DEF resolveChallenge, grantChallenge, rejectChallenge
    <2>2. reward \in Requests
        BY ChallengersAreRequests DEF RecordsInv
    <2> HIDE DEF reward
    <2> QED BY <2>1, <2>2 DEF BondPaidOut
<1>7. ASSUME finalizeV2Vault PROVE RewardPaidOut
    <2>1. /\ vault' = [vault EXCEPT !.status = StatusOf(tallyOutcome)]
          /\ pool' = emptyReward(pool) /\ UNCHANGED round /\ vault.status \in RoundPhases
        BY <1>a, <1>7 DEF finalizeV2Vault, executeVaultOutcome
    <2>2. StatusOf(tallyOutcome) \in Resolved
        BY TallyIsOutcome DEF StatusOf, Outcomes, Resolved
    <2> QED BY <1>0, <2>1, <2>2 DEF VaultRecord, RewardPaidOut
<1> QED BY <1>1, <1>2, <1>3, <1>4, <1>5, <1>6, <1>7 DEF ResolutionStep, PoolStep

LEMMA LiteOtherPoolSteps == PoolInv /\ SurroundingStep => PoolStep
<1> SUFFICES ASSUME PoolInv, SurroundingStep PROVE PoolStep
    OBVIOUS
<1>1. ASSUME ~\E a \in Claimants : claimRewards(a) PROVE PoolRests
    BY <1>1
    DEF SurroundingStep, setFees, Full!setFees, moveStake, Full!moveStake, reachSettlementTime,
        Full!reachSettlementTime, passDeadline, Full!passDeadline, passIssueDeadline, vars,
        moneyVars, Full!moneyVars, PoolRests, DepositsRest
<1>2. ASSUME NEW a \in Claimants, claimRewards(a) PROVE RewardsClaimed
    <2>1. a \in Accounts /\ pool.claimable[a] \in Nat /\ pool.claimableSetup[a] \in Nat
        BY <1>2, BoundsAreNat DEF PoolInv, Balanced, PoolRecord
    <2>2. PICK pov \in 0 .. pool.claimable[a], native \in 0 .. pool.claimableSetup[a] :
              Full!claim(a, pov, native)
        <3>1. /\ pool.claimable[a] \in 0 .. pool.claimable[a] /\ 0 \in 0 .. pool.claimable[a]
              /\ pool.claimableSetup[a] \in 0 .. pool.claimableSetup[a]
              /\ 0 \in 0 .. pool.claimableSetup[a]
            BY <2>1
        <3> QED BY <1>2, <3>1, Zenon DEF claimRewards, Full!claimRewards
    <2> QED BY <2>1, <2>2 DEF Full!claim, RewardsClaimed
<1> QED BY <1>1, <1>2 DEF PoolStep

\* The reward pool of the reduced factory holds what it owes, the bonds of just the open
\* challenges, and the deposits of just the phases they are for.
THEOREM LitePoolIsInvariant == Spec => []PoolInv
<1>1. CustodyInv /\ RecordsInv /\ PoolInv /\ [Next]_liteVars => PoolInv'
    <2> SUFFICES ASSUME CustodyType, RecordsInv, PoolInv, [Next]_liteVars PROVE PoolStep
        BY PoolStepKeepsPool DEF CustodyInv, RecordsInv
    <2>1. UNCHANGED liteVars => PoolStep
        BY DEF liteVars, vars, moneyVars, PoolStep, PoolRests, DepositsRest
    <2> QED BY <2>1, LiteRulePoolSteps, LiteResolutionPoolSteps, LiteOtherPoolSteps DEF Next
<1>2. Init => PoolInv
    BY PoolInit DEF Init
<1> QED BY <1>1, <1>2, LiteCustodyIsInvariant, LiteRecordsAreInvariant, PTL DEF Spec

-----------------------------------------------------------------------------
\* The stakes and the bonds.

\* BondsFollowPhase, role by role.
Bonded(r, members, phase) ==
    \A a \in Accounts : bonds[a][r].active <=> a \in members /\ vault.status \in phase

RuleBonds ==
    /\ Bonded("RuleMaker", ToSet(ruleCommittee.makers), {"RuleDrafting"})
    /\ Bonded("RuleVerifier", ToSet(ruleCommittee.verifiers), {"RuleDrafting"})

RoundBonds ==
    /\ Bonded("ResolutionValidator", ToSet(resolutionCommittee.validators), RoundPhases)
    /\ Bonded("ResolutionAuditor", ToSet(resolutionCommittee.auditors), RoundPhases)

\* A bond released has nothing left.
NothingLeftBehind ==
    \A a \in Accounts, r \in Roles : ~bonds[a][r].active => bonds[a][r].left = 0

LiteStakeInv == Covered(bonds, stake) /\ RuleBonds /\ RoundBonds /\ NothingLeftBehind

LEMMA BondedIsFollowing == LiteStakeInv => BondsFollowPhase
<1> DEFINE members(r) ==
               CASE r = "RuleMaker" -> ToSet(ruleCommittee.makers)
                 [] r = "RuleVerifier" -> ToSet(ruleCommittee.verifiers)
                 [] r = "ResolutionValidator" -> ToSet(resolutionCommittee.validators)
                 [] r = "ResolutionAuditor" -> ToSet(resolutionCommittee.auditors)
           phase(r) == IF r \in {"RuleMaker", "RuleVerifier"} THEN {"RuleDrafting"}
                       ELSE RoundPhases
<1>1. /\ members("RuleMaker") = ToSet(ruleCommittee.makers)
      /\ members("RuleVerifier") = ToSet(ruleCommittee.verifiers)
      /\ members("ResolutionValidator") = ToSet(resolutionCommittee.validators)
      /\ members("ResolutionAuditor") = ToSet(resolutionCommittee.auditors)
      /\ phase("RuleMaker") = {"RuleDrafting"} /\ phase("RuleVerifier") = {"RuleDrafting"}
      /\ phase("ResolutionValidator") = RoundPhases /\ phase("ResolutionAuditor") = RoundPhases
    OBVIOUS
<1>2. BondsFollowPhase <=>
          \A a \in Accounts, r \in Roles :
              /\ bonds[a][r].active <=> a \in members(r) /\ vault.status \in phase(r)
              /\ Locked(a) <= stake[a]
    BY DEF BondsFollowPhase
<1> HIDE DEF members, phase
<1>3. ASSUME LiteStakeInv, NEW a \in Accounts, NEW r \in Roles
      PROVE  bonds[a][r].active <=> a \in members(r) /\ vault.status \in phase(r)
    BY <1>1, <1>3 DEF LiteStakeInv, RuleBonds, RoundBonds, Bonded, Roles
<1>4. LiteStakeInv => \A a \in Accounts : Locked(a) <= stake[a]
    BY DEF LiteStakeInv, Covered, LockedIn, Locked
<1> QED BY <1>2, <1>3, <1>4

LEMMA LiteStakeInit == Init => LiteStakeInv
<1> SUFFICES ASSUME Init PROVE LiteStakeInv
    OBVIOUS
<1>1. /\ bonds = [a \in Accounts |-> [r \in Roles |-> NoBond]] /\ stake = InitialStake
      /\ vault.status = "Absent"
    BY DEF Init, BaseInit
<1>2. /\ bonds \in BondRecords /\ stake \in [Accounts -> Nat]
      /\ \A a \in Accounts, r \in Roles : bonds[a][r] = NoBond
    BY <1>1, StakesAreNat DEF BondRecords, NoBond
<1>3. ASSUME NEW a \in Accounts PROVE LockedIn(bonds, a) <= stake[a]
    <2> DEFINE f == [r \in Roles |-> bonds[a][r].left]
    <2>1. \A r \in Roles : f[r] = 0
        BY <1>2 DEF NoBond
    <2> HIDE DEF f
    <2>2. Sum(Roles, f) = 0
        BY <2>1, SumOfZero
    <2>3. stake[a] \in Nat /\ LockedIn(bonds, a) = 0
        BY <1>2, <2>2 DEF f, LockedIn
    <2> QED BY <2>3
<1>4. vault.status \notin RoundPhases /\ vault.status # "RuleDrafting"
    BY <1>1 DEF RoundPhases, RevealPhases
<1> QED BY <1>2, <1>3, <1>4
        DEF LiteStakeInv, Covered, RuleBonds, RoundBonds, NothingLeftBehind, Bonded, NoBond,
            Roles

\* A step may leave the phases, the committees and who has a bond as they are.
PhasesRest ==
    /\ UNCHANGED <<ruleCommittee, resolutionCommittee>>
    /\ vault'.status = "RuleDrafting" <=> vault.status = "RuleDrafting"
    /\ vault'.status \in RoundPhases <=> vault.status \in RoundPhases

LEMMA RestingKeepsBonds ==
    ASSUME LiteStakeInv, PhasesRest, Covered(bonds', stake'), NothingLeftBehind',
           \A a \in Accounts, r \in Roles : bonds'[a][r].active = bonds[a][r].active
    PROVE  LiteStakeInv'
BY DEF LiteStakeInv, PhasesRest, RuleBonds, RoundBonds, Bonded, Roles

\* Most steps touch no bond, and take nothing that is locked.
LiteStakesRest ==
    /\ PhasesRest /\ UNCHANGED bonds
    /\ stake' \in [Accounts -> Nat]
    /\ \A a \in Accounts : stake'[a] = stake[a] \/ stake'[a] >= LockedIn(bonds, a)

LEMMA LiteRestingKeepsStakes ==
    LiteStakeInv /\ LiteStakesRest => LiteStakeInv' /\ SlashFollowsFault
<1> SUFFICES ASSUME LiteStakeInv, LiteStakesRest PROVE LiteStakeInv' /\ SlashFollowsFault
    OBVIOUS
<1>1. ASSUME NEW a \in Accounts
      PROVE  /\ LockedIn(bonds, a) <= stake'[a]
             /\ \A r \in Roles : ~(bonds[a][r].left < bonds[a][r].left)
    BY LockedIsNat DEF LiteStakeInv, Covered, LiteStakesRest
<1>2. Covered(bonds', stake') /\ NothingLeftBehind'
    BY <1>1 DEF LiteStakeInv, Covered, LiteStakesRest, NothingLeftBehind
<1>3. LiteStakeInv'
    BY <1>2, RestingKeepsBonds DEF LiteStakesRest
<1>4. SlashFollowsFault
    BY <1>1 DEF LiteStakesRest, SlashFollowsFault
<1> QED BY <1>3, <1>4

\* A slash for a fault of the step.
LEMMA SlashingKeepsStakes ==
    ASSUME LiteStakeInv, PhasesRest, NEW a \in Accounts, NEW r \in Roles, NEW amount \in Nat,
           NEW incident, slashTaskBond(Slash(a, r, amount, incident)),
           \/ r = "ResolutionValidator" /\ ~Revealed(a) /\ Disqualified(a)'
           \/ \E id \in openChallenges :
                  /\ round.challenges[id].target = a
                  /\ round'.challenges[id].status = "ResolvedSuccess"
    PROVE  LiteStakeInv' /\ SlashFollowsFault
<1> DEFINE left == bonds[a][r].left - amount
           fault == \/ r = "ResolutionValidator" /\ ~Revealed(a) /\ Disqualified(a)'
                    \/ \E id \in openChallenges :
                           /\ round.challenges[id].target = a
                           /\ round'.challenges[id].status = "ResolvedSuccess"
<1>1. /\ bonds[a][r].active /\ amount <= bonds[a][r].left
      /\ stake' = [stake EXCEPT ![a] = @ - amount]
      /\ bonds' = [bonds EXCEPT ![a][r].left = @ - amount]
    BY DEF slashTaskBond, Slash
<1>2. bonds' = Spent(bonds, a, r, left)
    BY <1>1 DEF Spent
<1>3. /\ bonds \in BondRecords /\ stake \in [Accounts -> Nat] /\ Covered(bonds, stake)
      /\ bonds[a][r].left \in Nat
    BY LockedIsNat DEF LiteStakeInv, Covered
<1>4. left \in Nat /\ amount + left = bonds[a][r].left
    BY <1>1, <1>3
<1>5. fault
    OBVIOUS
<1> HIDE DEF left, fault
<1>6. /\ Covered(bonds', stake')
      /\ bonds'[a][r].left = left /\ stake'[a] = stake[a] - amount
      /\ \A b \in Accounts, q \in Roles :
             /\ bonds'[b][q].active = bonds[b][q].active
             /\ b # a \/ q # r => bonds'[b][q] = bonds[b][q]
    <2>1. /\ Covered(bonds, stake) /\ amount + left = bonds[a][r].left
          /\ stake' = [stake EXCEPT ![a] = @ - amount] /\ bonds' = Spent(bonds, a, r, left)
          /\ a \in Accounts /\ r \in Roles /\ amount \in Nat /\ left \in Nat
        BY <1>1, <1>2, <1>3, <1>4
    <2> QED BY <2>1, OneSlashIsCovered, ZenonT(30)
<1>7. NothingLeftBehind'
    <2>1. ASSUME NEW b \in Accounts, NEW q \in Roles, ~bonds'[b][q].active
          PROVE  bonds'[b][q].left = 0
        BY <1>1, <1>6, <2>1 DEF LiteStakeInv, NothingLeftBehind
    <2> QED BY <2>1 DEF NothingLeftBehind
<1>8. LiteStakeInv'
    BY <1>6, <1>7, RestingKeepsBonds
<1>9. SlashFollowsFault
    <2>1. ASSUME NEW b \in Accounts, NEW q \in Roles, bonds'[b][q].left < bonds[b][q].left
          PROVE  b = a /\ q = r
        <3>1. bonds[b][q].left \in Nat
            BY <1>3, LockedIsNat
        <3> QED BY <1>6, <2>1, <3>1
    <2>2. stake'[a] = stake[a] - (bonds[a][r].left - bonds'[a][r].left)
        BY <1>3, <1>4, <1>6
    <2>3. bonds'[a][r].active
        BY <1>1, <1>6
    <2> QED BY <1>5, <2>1, <2>2, <2>3 DEF SlashFollowsFault, fault
<1> QED BY <1>8, <1>9

\* A committee is registered: whoever locks a bond had none in that role.
LEMMA LockingKeepsStakes ==
    ASSUME fees \in FeeSchedules, LiteStakeInv, NEW firsts \in Seq(Agents),
           NEW seconds \in Seq(Agents), IsInjective(firsts \o seconds),
           NEW r \in Roles, NEW q \in Roles, r # q, LockBonds(firsts, r, seconds, q),
           \A a \in Accounts : ~bonds[a][r].active /\ ~bonds[a][q].active
    PROVE  /\ Covered(bonds', stake') /\ NothingLeftBehind' /\ SlashFollowsFault
           /\ \A a \in Accounts :
                  /\ bonds'[a][r].active <=> a \in ToSet(firsts)
                  /\ bonds'[a][q].active <=> a \in ToSet(seconds)
                  /\ \A p \in Roles \ {r, q} : bonds'[a][p] = bonds[a][p]
<1> DEFINE First == ToSet(firsts)
           Second == ToSet(seconds)
           locking(p) == IF p = r THEN First ELSE IF p = q THEN Second ELSE {}
<1>1. First \cap Second = {}
    BY ListsDiffer
<1>2. /\ Covered(bonds, stake)
      /\ \A a \in Accounts, p \in Roles : ~bonds[a][p].active => bonds[a][p].left = 0
    BY DEF LiteStakeInv, NothingLeftBehind
<1>3. /\ Covered(bonds', stake')
      /\ \A a \in Accounts, p \in Roles :
             bonds'[a][p] = IF \/ p = r /\ a \in ToSet(firsts)
                               \/ p = q /\ a \in ToSet(seconds)
                            THEN [active |-> TRUE, left |-> fees.bond[p]]
                            ELSE bonds[a][p]
    BY <1>1, <1>2, LockingIsCovered
<1>4. ASSUME NEW a \in Accounts, NEW p \in Roles
      PROVE  /\ a \in locking(p) => bonds'[a][p].active /\ bonds'[a][p].left \in Nat
             /\ a \notin locking(p) => bonds'[a][p] = bonds[a][p]
    <2>1. bonds'[a][p].left \in Nat
        BY <1>3, LockedIsNat DEF Covered
    <2>2. bonds'[a][p] = IF a \in locking(p) THEN [active |-> TRUE, left |-> fees.bond[p]]
                         ELSE bonds[a][p]
        BY <1>3
    <2> HIDE DEF locking
    <2> QED BY <2>1, <2>2
<1>5. /\ locking(r) = First /\ locking(q) = Second
      /\ \A p \in Roles \ {r, q} : locking(p) = {}
    OBVIOUS
<1>6. \A a \in Accounts, p \in Roles : a \in locking(p) => ~bonds[a][p].active
    OBVIOUS
<1> HIDE DEF First, Second, locking
<1>7. \A a \in Accounts :
          /\ bonds'[a][r].active <=> a \in First
          /\ bonds'[a][q].active <=> a \in Second
          /\ \A p \in Roles \ {r, q} : bonds'[a][p] = bonds[a][p]
    BY <1>4, <1>5
<1>8. NothingLeftBehind'
    BY <1>2, <1>4 DEF NothingLeftBehind
<1>9. SlashFollowsFault
    <2>1. ASSUME NEW a \in Accounts, NEW p \in Roles
          PROVE  ~(bonds'[a][p].left < bonds[a][p].left)
        <3>1. bonds[a][p].left \in Nat
            BY <1>2, LockedIsNat DEF Covered
        <3>2. CASE a \in locking(p)
            <4>1. bonds[a][p].left = 0 /\ bonds'[a][p].left \in Nat
                BY <1>2, <1>4, <1>6, <3>2
            <4> QED BY <4>1
        <3>3. CASE a \notin locking(p)
            BY <1>4, <3>1, <3>3
        <3> QED BY <3>2, <3>3
    <2> QED BY <2>1 DEF SlashFollowsFault
<1> QED BY <1>3, <1>7, <1>8, <1>9 DEF First, Second

LEMMA LiteRuleCommitteeSits ==
    ASSUME CustodyType, LiteStakeInv, NEW committee \in RuleCommittees,
           registerRuleCommittee(committee)
    PROVE  LiteStakeInv' /\ SlashFollowsFault
<1>1. /\ LockBonds(committee.makers, "RuleMaker", committee.verifiers, "RuleVerifier")
      /\ recordRuleCommittee(committee) /\ UNCHANGED resolutionCommittee
      /\ vault.status = "RuleAuction" /\ vault'.status = "RuleDrafting"
      /\ fees \in FeeSchedules
    BY SameRecords, SameBonds
    DEF registerRuleCommittee, Full!registerRuleCommittee, CustodyType, VaultRecord
<1>2. /\ committee.makers \in Seq(Agents) /\ committee.verifiers \in Seq(Agents)
      /\ IsInjective(committee.makers \o committee.verifiers) /\ ruleCommittee' = committee
    BY <1>1, CommitteesAreLists DEF recordRuleCommittee
<1>3. /\ "RuleAuction" \notin RoundPhases /\ "RuleDrafting" \notin RoundPhases
      /\ "RuleMaker" \in Roles /\ "RuleVerifier" \in Roles
      /\ Roles \ {"RuleMaker", "RuleVerifier"} = {"ResolutionValidator", "ResolutionAuditor"}
    BY DEF RoundPhases, RevealPhases, Roles
<1>4. \A a \in Accounts : \A r \in Roles : ~bonds[a][r].active
    BY <1>1, <1>3 DEF LiteStakeInv, RuleBonds, RoundBonds, Bonded
<1>5. /\ Covered(bonds', stake') /\ NothingLeftBehind' /\ SlashFollowsFault
      /\ \A a \in Accounts :
             /\ bonds'[a]["RuleMaker"].active <=> a \in ToSet(committee.makers)
             /\ bonds'[a]["RuleVerifier"].active <=> a \in ToSet(committee.verifiers)
             /\ \A p \in Roles \ {"RuleMaker", "RuleVerifier"} : bonds'[a][p] = bonds[a][p]
    <2>1. \A a \in Accounts : ~bonds[a]["RuleMaker"].active /\ ~bonds[a]["RuleVerifier"].active
        BY <1>3, <1>4
    <2> QED BY <1>1, <1>2, <1>3, <2>1, LockingKeepsStakes
<1>6. RuleBonds'
    BY <1>1, <1>2, <1>5 DEF RuleBonds, Bonded
<1>7. RoundBonds'
    BY <1>1, <1>3, <1>4, <1>5 DEF RoundBonds, Bonded
<1> QED BY <1>5, <1>6, <1>7 DEF LiteStakeInv

LEMMA LiteResolutionCommitteeSits ==
    ASSUME CustodyType, LiteStakeInv, NEW committee \in ResolutionCommittees,
           registerResolutionCommittee(committee)
    PROVE  LiteStakeInv' /\ SlashFollowsFault
<1>1. /\ LockBonds(committee.validators, "ResolutionValidator",
                   committee.auditors, "ResolutionAuditor")
      /\ recordResolutionCommittee(committee) /\ UNCHANGED ruleCommittee
      /\ vault.status \in {"Active", "ResolutionAuction"} /\ vault'.status = "CommitPhase"
      /\ fees \in FeeSchedules
    BY SameRecords, SameBonds
    DEF registerResolutionCommittee, Full!registerResolutionCommittee, CustodyType, VaultRecord
<1>2. /\ committee.validators \in Seq(Agents) /\ committee.auditors \in Seq(Agents)
      /\ IsInjective(committee.validators \o committee.auditors)
      /\ resolutionCommittee' = committee
    BY <1>1, CommitteesAreLists DEF recordResolutionCommittee
<1>3. /\ vault.status \notin RoundPhases /\ "CommitPhase" \in RoundPhases
      /\ vault.status # "RuleDrafting"
      /\ "ResolutionValidator" \in Roles /\ "ResolutionAuditor" \in Roles
      /\ Roles \ {"ResolutionValidator", "ResolutionAuditor"} = {"RuleMaker", "RuleVerifier"}
    BY <1>1 DEF RoundPhases, RevealPhases, Roles
<1>4. \A a \in Accounts : \A r \in Roles : ~bonds[a][r].active
    BY <1>3 DEF LiteStakeInv, RuleBonds, RoundBonds, Bonded
<1>5. /\ Covered(bonds', stake') /\ NothingLeftBehind' /\ SlashFollowsFault
      /\ \A a \in Accounts :
             /\ bonds'[a]["ResolutionValidator"].active <=> a \in ToSet(committee.validators)
             /\ bonds'[a]["ResolutionAuditor"].active <=> a \in ToSet(committee.auditors)
             /\ \A p \in Roles \ {"ResolutionValidator", "ResolutionAuditor"} :
                    bonds'[a][p] = bonds[a][p]
    <2>1. \A a \in Accounts : /\ ~bonds[a]["ResolutionValidator"].active
                              /\ ~bonds[a]["ResolutionAuditor"].active
        BY <1>3, <1>4
    <2> QED BY <1>1, <1>2, <1>3, <2>1, LockingKeepsStakes
<1>6. RoundBonds'
    BY <1>1, <1>2, <1>3, <1>5 DEF RoundBonds, Bonded
<1>7. RuleBonds'
    BY <1>1, <1>3, <1>4, <1>5 DEF RuleBonds, Bonded
<1> QED BY <1>5, <1>6, <1>7 DEF LiteStakeInv

\* The bonds of two roles are released, and their phase is over.
LEMMA ReleasingKeepsStakes ==
    ASSUME LiteStakeInv, NEW members, NEW roles, bonds' = Released(members, roles),
           UNCHANGED stake
    PROVE  /\ Covered(bonds', stake') /\ NothingLeftBehind' /\ SlashFollowsFault
           /\ \A a \in Accounts, r \in Roles :
                  bonds'[a][r] = IF a \in members /\ r \in roles THEN NoBond ELSE bonds[a][r]
<1>1. Covered(bonds, stake)
    BY DEF LiteStakeInv
<1>2. /\ Covered(bonds', stake')
      /\ \A a \in Accounts, r \in Roles :
             bonds'[a][r] = IF a \in members /\ r \in roles THEN NoBond ELSE bonds[a][r]
    BY <1>1, ReleasingIsCovered
<1>3. NothingLeftBehind'
    BY <1>2 DEF LiteStakeInv, NothingLeftBehind, NoBond
<1>4. SlashFollowsFault
    <2>1. ASSUME NEW a \in Accounts, NEW r \in Roles, bonds'[a][r].left < bonds[a][r].left
          PROVE  ~bonds'[a][r].active
        <3>1. bonds[a][r].left \in Nat
            BY <1>1, LockedIsNat DEF Covered
        <3>2. bonds'[a][r] # bonds[a][r]
            BY <2>1, <3>1
        <3>3. bonds'[a][r] = NoBond
            BY <1>2, <3>2
        <3> QED BY <3>3 DEF NoBond
    <2> QED BY <2>1 DEF SlashFollowsFault
<1> QED BY <1>2, <1>3, <1>4

LEMMA LiteRuleCommitteeLeaves ==
    ASSUME CustodyType, CommitteesInv, LiteStakeInv, finalizeRuleSet
    PROVE  LiteStakeInv' /\ SlashFollowsFault
<1> DEFINE members == ToSet(ruleCommittee.makers \o ruleCommittee.verifiers)
<1>1. /\ bonds' = Released(members, {"RuleMaker", "RuleVerifier"}) /\ UNCHANGED stake
      /\ vault.status = "RuleDrafting" /\ vault'.status = "UserRuleReview"
      /\ UNCHANGED <<ruleCommittee, resolutionCommittee>>
    BY DEF finalizeRuleSet, releaseRuleCommittee, committeeVars, CustodyType, VaultRecord
<1>2. members = ToSet(ruleCommittee.makers) \cup ToSet(ruleCommittee.verifiers)
    <2>1. ruleCommittee.makers \in Seq(Agents) /\ ruleCommittee.verifiers \in Seq(Agents)
        BY DEF CommitteesInv
    <2> QED BY <2>1, MembersAreBoth
<1> HIDE DEF members
<1>3. /\ Covered(bonds', stake') /\ NothingLeftBehind' /\ SlashFollowsFault
      /\ \A a \in Accounts, r \in Roles :
             bonds'[a][r] = IF a \in members /\ r \in {"RuleMaker", "RuleVerifier"} THEN NoBond
                            ELSE bonds[a][r]
    BY <1>1, ReleasingKeepsStakes
<1>4. /\ "RuleDrafting" \notin RoundPhases /\ "UserRuleReview" \notin RoundPhases
      /\ {"RuleMaker", "RuleVerifier", "ResolutionValidator", "ResolutionAuditor"} = Roles
    BY DEF RoundPhases, RevealPhases, Roles
<1>5. RuleBonds'
    <2>1. ASSUME NEW a \in Accounts
          PROVE  ~bonds'[a]["RuleMaker"].active /\ ~bonds'[a]["RuleVerifier"].active
        <3>1. a \notin members => /\ ~bonds[a]["RuleMaker"].active
                                 /\ ~bonds[a]["RuleVerifier"].active
            BY <1>2 DEF LiteStakeInv, RuleBonds, Bonded
        <3>2. "RuleMaker" \in Roles /\ "RuleVerifier" \in Roles
            BY DEF Roles
        <3> QED BY <1>3, <3>1, <3>2 DEF NoBond
    <2> QED BY <1>1, <2>1 DEF RuleBonds, Bonded
<1>6. RoundBonds'
    BY <1>1, <1>3, <1>4 DEF LiteStakeInv, RoundBonds, Bonded
<1> QED BY <1>3, <1>5, <1>6 DEF LiteStakeInv

LEMMA LiteResolutionCommitteeLeaves ==
    ASSUME CustodyType, CommitteesInv, LiteStakeInv, finalizeV2Vault
    PROVE  LiteStakeInv' /\ SlashFollowsFault
<1> DEFINE members == ToSet(resolutionCommittee.validators \o resolutionCommittee.auditors)
<1>1. /\ bonds' = Released(members, {"ResolutionValidator", "ResolutionAuditor"})
      /\ UNCHANGED <<stake, ruleCommittee>>
      /\ vault.status \in FinalizableStatuses /\ vault'.status \in Resolved
    <2>1. vault' = [vault EXCEPT !.status = StatusOf(tallyOutcome)]
        BY DEF finalizeV2Vault, executeVaultOutcome
    <2>2. StatusOf(tallyOutcome) \in Resolved
        BY TallyIsOutcome DEF StatusOf, Outcomes, Resolved
    <2> QED BY <2>1, <2>2 DEF finalizeV2Vault, CustodyType, VaultRecord
<1>2. members = ToSet(resolutionCommittee.validators) \cup ToSet(resolutionCommittee.auditors)
    <2>1. /\ resolutionCommittee.validators \in Seq(Agents)
          /\ resolutionCommittee.auditors \in Seq(Agents)
        BY DEF CommitteesInv
    <2> QED BY <2>1, MembersAreBoth
<1> HIDE DEF members
<1>3. /\ Covered(bonds', stake') /\ NothingLeftBehind' /\ SlashFollowsFault
      /\ \A a \in Accounts, r \in Roles :
             bonds'[a][r] =
                 IF a \in members /\ r \in {"ResolutionValidator", "ResolutionAuditor"}
                 THEN NoBond ELSE bonds[a][r]
    BY <1>1, ReleasingKeepsStakes
<1>4. /\ vault.status # "RuleDrafting" /\ vault'.status # "RuleDrafting"
      /\ vault'.status \notin RoundPhases
      /\ {"RuleMaker", "RuleVerifier", "ResolutionValidator", "ResolutionAuditor"} = Roles
    BY <1>1 DEF FinalizableStatuses, Resolved, RoundPhases, RevealPhases, Roles
<1>5. RoundBonds'
    <2>1. ASSUME NEW a \in Accounts
          PROVE  /\ ~bonds'[a]["ResolutionValidator"].active
                 /\ ~bonds'[a]["ResolutionAuditor"].active
        BY <1>2, <1>3, <1>4 DEF LiteStakeInv, RoundBonds, Bonded, NoBond
    <2> QED BY <1>4, <2>1 DEF RoundBonds, Bonded
<1>6. RuleBonds'
    BY <1>1, <1>3, <1>4 DEF LiteStakeInv, RuleBonds, Bonded
<1> QED BY <1>3, <1>5, <1>6 DEF LiteStakeInv

\* A reveal that misses its commitment costs the bond there is.
LEMMA LiteRevealingKeepsStakes ==
    ASSUME CustodyType, RoundInv, LiteStakeInv, NEW a \in Agents, NEW revealed \in Commitments,
           revealResolution(a, revealed)
    PROVE  LiteStakeInv' /\ SlashFollowsFault
<1> DEFINE left == bonds[a]["ResolutionValidator"].left
<1>1. /\ recordReveal(a, revealed) /\ UNCHANGED committeeVars
      /\ vault.status \in RoundPhases /\ vault'.status \in RoundPhases
      /\ vault.status # "RuleDrafting" /\ vault'.status # "RuleDrafting"
    BY DEF revealResolution, CustodyType, VaultRecord, RoundPhases, RevealPhases
<1>2. PhasesRest
    BY <1>1 DEF PhasesRest, committeeVars
<1>3. a \in Accounts /\ "ResolutionValidator" \in Roles
    BY DEF Accounts, Roles
<1>4. left \in Nat
    BY <1>3, LockedIsNat DEF LiteStakeInv, Covered
<1>5. CASE isMismatch(a, revealed) /\ MismatchSlash(a).amount > 0
    <2>1. slashTaskBond(Slash(a, "ResolutionValidator", left, <<"lite-mismatch", a>>))
        BY <1>5 DEF revealResolution, MismatchSlash
    <2>2. ~Revealed(a) /\ Disqualified(a)'
        <3>1. revealed # NoCommit
            <4>1. revealed.outcome \in Outcomes
                BY CommitmentsHaveOutcomes
            <4> QED BY <4>1 DEF NoCommit, Outcomes
        <3>2. /\ round.reveals[a] = NoCommit /\ round \in RoundRecord
              /\ round' = [round EXCEPT !.reveals[a] = revealed]
            BY <1>1 DEF recordReveal, RoundInv
        <3>3. round'.reveals[a] = revealed /\ round'.commits = round.commits
            BY <3>2 DEF RoundRecord
        <3> QED BY <1>5, <3>1, <3>2, <3>3 DEF isMismatch, Disqualified, Revealed
    <2> HIDE DEF left
    <2> QED BY <1>2, <1>3, <1>4, <2>1, <2>2, SlashingKeepsStakes
<1>6. CASE ~(isMismatch(a, revealed) /\ MismatchSlash(a).amount > 0)
    <2>1. UNCHANGED stakingVars
        BY <1>6 DEF revealResolution
    <2>2. LiteStakesRest
        BY <1>2, <2>1 DEF LiteStakesRest, stakingVars, LiteStakeInv, Covered
    <2> QED BY <2>2, LiteRestingKeepsStakes
<1> QED BY <1>5, <1>6

\* A challenge won may cost its target as much as the finalizer says.
LEMMA LiteResolvingKeepsStakes ==
    ASSUME CustodyType, RoundInv, LiteStakeInv, NEW id \in DOMAIN round.challenges,
           NEW successful \in BOOLEAN, NEW role \in Roles, NEW slashAmount \in SlashAmounts,
           resolveChallenge(id, successful, role, slashAmount)
    PROVE  LiteStakeInv' /\ SlashFollowsFault
<1> DEFINE target == round.challenges[id].target
<1>1. closeChallenge(id, successful) /\ UNCHANGED <<vault, committeeVars>>
    BY DEF resolveChallenge
<1>2. PhasesRest
    BY <1>1 DEF PhasesRest, committeeVars
<1>3. target \in Accounts /\ slashAmount \in Nat
    <2>1. round.challenges \in Seq(Challenge)
        BY DEF RoundInv, RoundRecord
    <2>2. round.challenges[id] \in Challenge
        BY <2>1, ElementOfSeq, LenProperties
    <2> QED BY <2>2, ReducedFactory DEF Challenge, Accounts
<1>4. CASE successful /\ slashAmount > 0
    <2>1. slashTaskBond(Slash(target, role, slashAmount, <<"challenge", id, target>>))
        BY <1>4 DEF resolveChallenge, grantChallenge
    <2>2. /\ id \in openChallenges /\ round.challenges[id].target = target
          /\ round'.challenges[id].status = "ResolvedSuccess"
        <3>1. /\ round.challenges[id].status = "Open" /\ round \in RoundRecord
              /\ round' = [round EXCEPT !.challenges[id].status = "ResolvedSuccess"]
            BY <1>1, <1>4 DEF closeChallenge, RoundInv
        <3> QED BY <3>1 DEF openChallenges, RoundRecord
    <2> HIDE DEF target
    <2>3. \E i \in openChallenges :
              /\ round.challenges[i].target = target
              /\ round'.challenges[i].status = "ResolvedSuccess"
        BY <2>2
    <2> QED BY <1>2, <1>3, <2>1, <2>3, SlashingKeepsStakes
<1>5. CASE ~(successful /\ slashAmount > 0)
    <2>1. UNCHANGED stakingVars
        BY <1>5 DEF resolveChallenge, grantChallenge, rejectChallenge
    <2>2. LiteStakesRest
        BY <1>2, <2>1 DEF LiteStakesRest, stakingVars, LiteStakeInv, Covered
    <2> QED BY <2>2, LiteRestingKeepsStakes
<1> QED BY <1>4, <1>5

\* All other steps leave the bonds, and take nothing that is locked.
LEMMA LiteOtherStepsRest ==
    ASSUME CustodyType, PoolInv, LiteStakeInv, [Next]_liteVars,
           ~\E committee \in RuleCommittees : registerRuleCommittee(committee),
           ~\E committee \in ResolutionCommittees : registerResolutionCommittee(committee),
           ~finalizeRuleSet,
           ~\E a \in Agents, revealed \in Commitments : revealResolution(a, revealed),
           ~\E id \in DOMAIN round.challenges, successful \in BOOLEAN, role \in Roles,
               slashAmount \in SlashAmounts :
                resolveChallenge(id, successful, role, slashAmount),
           ~finalizeV2Vault
    PROVE  LiteStakesRest
<1>0. /\ stake \in [Accounts -> Nat] /\ bonds \in BondRecords
      /\ {"CommitPhase", "RevealPhase", "AuditPhase", "PublicChallenge"} = RoundPhases
      /\ vault \in VaultRecord
    BY DEF LiteStakeInv, Covered, RoundPhases, RevealPhases, CustodyType
<1> USE DEF committeeVars, Full!committeeVars, stakingVars, Full!stakingVars
<1>1. CASE UNCHANGED liteVars
    BY <1>0, <1>1 DEF liteVars, vars, LiteStakesRest, PhasesRest
<1>2. CASE RuleStep
    BY <1>0, <1>2
    DEF RuleStep, createVaultRequest, Full!createVaultRequest, rejectRuleSet,
        acceptRuleSetAndFund, Full!acceptRuleSetAndFund, VaultRecord, LiteStakesRest, PhasesRest
<1>3. CASE ResolutionStep
    BY <1>0, <1>3
    DEF ResolutionStep, commitResolution, Full!commitResolution, submitAuditVerdict,
        Full!submitAuditVerdict, openPublicChallenge, Full!openPublicChallenge, VaultRecord,
        LiteStakesRest, PhasesRest
<1>4. CASE SurroundingStep
    <2>0. UNCHANGED <<vault, bonds, ruleCommittee, resolutionCommittee>>
        BY <1>4
        DEF SurroundingStep, claimRewards, Full!claimRewards, Full!claim, setFees, Full!setFees,
            moveStake, Full!moveStake, reachSettlementTime, Full!reachSettlementTime,
            passDeadline, Full!passDeadline, passIssueDeadline, vars
    <2>1. ASSUME NEW a \in Claimants, claimRewards(a)
          PROVE  /\ stake' \in [Accounts -> Nat]
                 /\ \A b \in Accounts : stake'[b] = stake[b] \/ stake'[b] >= LockedIn(bonds, b)
        <3>1. a \in Accounts /\ pool.claimable[a] \in Nat
            BY BoundsAreNat DEF PoolInv, Balanced, PoolRecord
        <3>2. PICK pov \in Nat : stake' = stake \/ stake' = [stake EXCEPT ![a] = @ + pov]
            <4>1. \E pov \in {pool.claimable[a], 0} :
                      stake' = stake \/ stake' = [stake EXCEPT ![a] = @ + pov]
                BY <2>1 DEF claimRewards, Full!claimRewards, Full!claim
            <4> QED BY <3>1, <4>1
        <3>3. LockedIn(bonds, a) \in Nat /\ LockedIn(bonds, a) <= stake[a]
            BY <3>1, LockedIsNat DEF LiteStakeInv, Covered
        <3> QED BY <1>0, <3>1, <3>2, <3>3
    <2>2. ASSUME NEW a \in Accounts, NEW level \in StakeLevels, moveStake(a, level)
          PROVE  /\ stake' \in [Accounts -> Nat]
                 /\ \A b \in Accounts : stake'[b] = stake[b] \/ stake'[b] >= LockedIn(bonds, b)
        BY <1>0, <2>2, SameLocked, StakesAreNat DEF moveStake, Full!moveStake, Locked, LockedIn
    <2>3. ASSUME ~\E a \in Claimants : claimRewards(a),
                 ~\E a \in Accounts, level \in StakeLevels : moveStake(a, level)
          PROVE  UNCHANGED stake
        BY <1>4, <2>3
        DEF SurroundingStep, setFees, Full!setFees, reachSettlementTime,
            Full!reachSettlementTime, passDeadline, Full!passDeadline, passIssueDeadline, vars
    <2> QED BY <1>0, <2>0, <2>1, <2>2, <2>3 DEF LiteStakesRest, PhasesRest
<1> QED BY <1>1, <1>2, <1>3, <1>4 DEF Next

\* So every step keeps the bonds as they should be, and slashes for a fault only.
LEMMA LiteStakeSteps ==
    CustodyInv /\ RecordsInv /\ PoolInv /\ LiteStakeInv /\ [Next]_liteVars
    => LiteStakeInv' /\ SlashFollowsFault
<1> SUFFICES ASSUME CustodyInv, RecordsInv, PoolInv, LiteStakeInv, [Next]_liteVars
             PROVE  LiteStakeInv' /\ SlashFollowsFault
    OBVIOUS
<1>0. CustodyType /\ CommitteesInv /\ RoundInv
    BY DEF CustodyInv, RecordsInv
<1>1. ASSUME NEW committee \in RuleCommittees, registerRuleCommittee(committee)
      PROVE  LiteStakeInv' /\ SlashFollowsFault
    BY <1>0, <1>1, LiteRuleCommitteeSits
<1>2. ASSUME NEW committee \in ResolutionCommittees, registerResolutionCommittee(committee)
      PROVE  LiteStakeInv' /\ SlashFollowsFault
    BY <1>0, <1>2, LiteResolutionCommitteeSits
<1>3. ASSUME finalizeRuleSet PROVE LiteStakeInv' /\ SlashFollowsFault
    BY <1>0, <1>3, LiteRuleCommitteeLeaves
<1>4. ASSUME NEW a \in Agents, NEW revealed \in Commitments, revealResolution(a, revealed)
      PROVE  LiteStakeInv' /\ SlashFollowsFault
    BY <1>0, <1>4, LiteRevealingKeepsStakes
<1>5. ASSUME NEW id \in DOMAIN round.challenges, NEW successful \in BOOLEAN, NEW role \in Roles,
             NEW slashAmount \in SlashAmounts,
             resolveChallenge(id, successful, role, slashAmount)
      PROVE  LiteStakeInv' /\ SlashFollowsFault
    BY <1>0, <1>5, LiteResolvingKeepsStakes
<1>6. ASSUME finalizeV2Vault PROVE LiteStakeInv' /\ SlashFollowsFault
    BY <1>0, <1>6, LiteResolutionCommitteeLeaves
<1> QED BY <1>0, <1>1, <1>2, <1>3, <1>4, <1>5, <1>6, LiteOtherStepsRest, LiteRestingKeepsStakes

\* Bonds live as long as the phase they are for, and the stake of an account covers them.
THEOREM LiteStakeIsInvariant == Spec => []LiteStakeInv
<1>1. CustodyInv /\ RecordsInv /\ PoolInv /\ LiteStakeInv /\ [Next]_liteVars => LiteStakeInv'
    BY LiteStakeSteps
<1> QED BY <1>1, LiteStakeInit, LiteCustodyIsInvariant, LiteRecordsAreInvariant,
           LitePoolIsInvariant, PTL DEF Spec

-----------------------------------------------------------------------------
\* The properties of the runs.

\* Bonds and deposits are held exactly while a phase needs them, and every variable has its
\* type (MoneyFollowsPhase).
THEOREM LiteMoneyIsWhereItBelongs == Spec => []MoneyFollowsPhase
<1> DEFINE DeadlineType == issueDeadlinePassed \in BOOLEAN
<1>1. Init => DeadlineType
    BY DEF Init
<1>2. DeadlineType /\ [Next]_liteVars => DeadlineType'
    BY DEF Next, RuleStep, ResolutionStep, SurroundingStep, liteVars, createVaultRequest,
           registerRuleCommittee, finalizeRuleSet, rejectRuleSet, acceptRuleSetAndFund,
           registerResolutionCommittee, commitResolution, revealResolution, submitAuditVerdict,
           openPublicChallenge, resolveChallenge, finalizeV2Vault, claimRewards, setFees,
           moveStake, reachSettlementTime, passDeadline, passIssueDeadline
<1>3. /\ CustodyInv /\ RecordsInv /\ PoolInv /\ LiteStakeInv /\ DeadlineType
      => MoneyFollowsPhase
    BY LayersAreTyped, BondedIsFollowing
    DEF LiteStakeInv, PoolInv, Balanced, MoneyFollowsPhase, LiteTypeOK, DepositsAccounted,
        RewardPoolBacked
<1> HIDE DEF DeadlineType
<1> QED BY <1>1, <1>2, <1>3, LiteCustodyIsInvariant, LiteRecordsAreInvariant,
           LitePoolIsInvariant, LiteStakeIsInvariant, PTL DEF Spec

\* Only finalizing a round takes the collateral, and only for False.
LEMMA OnlyFinalizingTakes ==
    ASSUME CustodyType, [Next]_liteVars,
           vault'.status = "ResolvedFalse", vault.status # "ResolvedFalse"
    PROVE  Supported("False")
<1>0. vault \in VaultRecord
    BY DEF CustodyType
<1>1. finalizeV2Vault
    BY <1>0
    DEF Next, RuleStep, ResolutionStep, SurroundingStep, liteVars, vars, VaultRecord,
        createVaultRequest, Full!createVaultRequest, registerRuleCommittee,
        Full!registerRuleCommittee, finalizeRuleSet, rejectRuleSet, acceptRuleSetAndFund,
        Full!acceptRuleSetAndFund, registerResolutionCommittee,
        Full!registerResolutionCommittee, commitResolution, Full!commitResolution,
        revealResolution, submitAuditVerdict, Full!submitAuditVerdict, openPublicChallenge,
        Full!openPublicChallenge, resolveChallenge, claimRewards, Full!claimRewards, Full!claim,
        setFees, Full!setFees, moveStake, Full!moveStake, reachSettlementTime,
        Full!reachSettlementTime, passDeadline, Full!passDeadline, passIssueDeadline
<1>2. StatusOf(tallyOutcome) = "ResolvedFalse"
    BY <1>0, <1>1 DEF finalizeV2Vault, executeVaultOutcome, VaultRecord
<1>3. tallyOutcome = "False"
    BY <1>2, TallyIsOutcome DEF StatusOf, Outcomes
<1>4. \E outcome \in Outcomes : Supported(outcome)
    BY <1>3 DEF tallyOutcome
<1> QED BY <1>3, <1>4 DEF tallyOutcome

\* Whoever is counted has an auditor's Valid and has lost no challenge.
LEMMA CountedIsAudited ==
    ASSUME CommitteesInv, NEW a \in Counted
    PROVE  /\ a \in ToSet(resolutionCommittee.validators)
           /\ ~hasSuccessfulChallengeAgainst(a)
           /\ \E b \in Agents : round.verdicts[a][b] = "Valid"
<1> DEFINE judges(verdicts) ==
               {b \in ToSet(resolutionCommittee.auditors) : round.verdicts[a][b] \in verdicts}
<1>1. /\ IsFiniteSet(ToSet(resolutionCommittee.auditors))
      /\ ToSet(resolutionCommittee.auditors) \subseteq Agents
    <2>1. resolutionCommittee.auditors \in Seq(Agents)
        BY DEF CommitteesInv
    <2> QED BY <2>1, ListsAreFinite, LenProperties, ElementOfSeq DEF ToSet
<1>2. /\ judges({"Invalid", "Malicious"}) \subseteq ToSet(resolutionCommittee.auditors)
      /\ judges({"Valid"}) \subseteq ToSet(resolutionCommittee.auditors)
    OBVIOUS
<1>3. Cardinality(judges({"Valid"})) > Cardinality(judges({"Invalid", "Malicious"}))
    BY DEF Counted, isAuditValid, JudgedAs
<1>4. judges({"Valid"}) # {}
    <2> HIDE DEF judges
    <2>1. IsFiniteSet(judges({"Invalid", "Malicious"}))
        BY <1>1, <1>2, FS_Subset
    <2>2. Cardinality(judges({"Invalid", "Malicious"})) \in Nat
        BY <2>1, FS_CardinalityType
    <2>3. Cardinality({}) = 0
        BY FS_EmptySet
    <2> QED BY <1>3, <2>2, <2>3
<1>5. \E b \in Agents : round.verdicts[a][b] = "Valid"
    BY <1>1, <1>4
<1> QED BY <1>5 DEF Counted, isAuditValid

LEMMA TakenByMajority ==
    ASSUME CustodyType, CommitteesInv, [Next]_liteVars
    PROVE  TakenByQualifiedMajority
<1> DEFINE seats == ToSet(resolutionCommittee.validators)
           voters == {a \in seats : /\ ~hasSuccessfulChallengeAgainst(a)
                                    /\ \E b \in Agents : round.verdicts[a][b] = "Valid"}
           against == {a \in voters : round.reveals[a].outcome = "False"}
           least == resolutionCommittee.minValidCount
           counted == {a \in Counted : round.reveals[a].outcome = "False"}
<1> SUFFICES ASSUME vault'.status = "ResolvedFalse", vault.status # "ResolvedFalse"
             PROVE  against # {} /\ Cardinality(voters) >= least
                    /\ Cardinality(against) * 3 > least * 2
    BY Zenon DEF TakenByQualifiedMajority
<1>1. Cardinality(Counted) >= least /\ Cardinality(counted) * 3 > Cardinality(Counted) * 2
    BY OnlyFinalizingTakes DEF Supported
<1>2. IsFiniteSet(seats) /\ least \in Nat
    BY ListsAreFinite DEF CommitteesInv
<1>3. /\ Counted \subseteq voters /\ voters \subseteq seats
      /\ counted \subseteq against /\ against \subseteq voters
    BY CountedIsAudited
<1> HIDE DEF seats, voters, against, least, counted
<1>4. /\ IsFiniteSet(voters) /\ IsFiniteSet(against)
    BY <1>2, <1>3, FS_Subset
<1>5. /\ Cardinality(voters) \in Nat /\ Cardinality(Counted) \in Nat
      /\ Cardinality(Counted) <= Cardinality(voters)
    BY <1>3, <1>4, FS_Subset, FS_CardinalityType
<1>6. /\ Cardinality(against) \in Nat /\ Cardinality(counted) \in Nat
      /\ Cardinality(counted) <= Cardinality(against)
    BY <1>3, <1>4, FS_Subset, FS_CardinalityType
<1>7. Cardinality({}) = 0
    BY FS_EmptySet
<1> QED BY <1>1, <1>2, <1>5, <1>6, <1>7

\* Bonds are taken for a fault or a lost challenge, the collateral by a qualified majority
\* (TakenForCause).
THEOREM LiteTakesForCause == Spec => TakenForCause
<1>1. CustodyInv /\ RecordsInv /\ PoolInv /\ LiteStakeInv /\ [Next]_liteVars
      => [SlashFollowsFault /\ TakenByQualifiedMajority]_liteVars
    BY LiteStakeSteps, TakenByMajority DEF CustodyInv, RecordsInv
<1> QED BY <1>1, LiteCustodyIsInvariant, LiteRecordsAreInvariant, LitePoolIsInvariant,
           LiteStakeIsInvariant, PTL DEF Spec, TakenForCause
=============================================================================
