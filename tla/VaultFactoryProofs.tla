------------------------- MODULE VaultFactoryProofs -------------------------
(***************************************************************************)
(* Theorems about the life of a vault, for any accounts, committees, fees  *)
(* and amounts, and for any bounds on rounds and challenges.               *)
(*                                                                         *)
(* The invariant comes in layers, each inductive given those before it:    *)
(*   custody    what the collateral is concerned with: every action is one *)
(*              of a few kinds of steps on it (StepKinds)                  *)
(*   status     phases, counters, committees and disputes; every action is *)
(*              one of a few moves (EveryStepMoves)                        *)
(*   records    what committees, submissions and rounds hold               *)
(*   pool       deposits and challenge bonds in RewardPool                 *)
(*   stakes     bonds, stakes and who may still be slashed                 *)
(*   incidents  which slashes AgentStaking has seen                        *)
(* What a finalized round does to the collateral and to its members        *)
(* follows from them.                                                      *)
(***************************************************************************)
EXTENDS VaultFactory, VaultBaseProofs

-----------------------------------------------------------------------------
\* Custody.

\* The steps of the rule phase are among the kinds.
LEMMA RuleStepKinds == CustodyType /\ RuleStep => StepKind
<1> SUFFICES ASSUME CustodyType, RuleStep PROVE StepKind
    OBVIOUS
<1> USE DEF CustodyType, VaultRecord, VaultStatus, Unfunded
<1>1. ASSUME NEW value \in SetupDeposits, createVaultRequest(value) PROVE StepKind
    BY <1>1 DEF createVaultRequest, StepKind, Proceeds, MoneyStays
<1>2. ASSUME NEW committee \in RuleCommittees, registerRuleCommittee(committee) PROVE StepKind
    <2>1. /\ vault' = [vault EXCEPT !.status = "RuleDrafting",
                                   !.ruleRound = vault.ruleRound + 1]
          /\ vault.status = "RuleAuction" /\ UNCHANGED <<resolution, moneyVars>>
        BY <1>2 DEF registerRuleCommittee
    <2>2. vault.ruleRound + 1 \in Nat /\ "RuleDrafting" \in VaultStatus \cap Unfunded
        OBVIOUS
    <2>3. vault' \in VaultRecord /\ vault'.status = "RuleDrafting"
        BY <2>1, <2>2
    <2> QED BY <2>1, <2>2, <2>3 DEF StepKind, Proceeds, MoneyStays, moneyVars
<1>3. ASSUME NEW a \in Agents, submitRuleDraft(a) PROVE StepKind
    BY <1>3 DEF submitRuleDraft, StepKind, custody, moneyVars
<1>4. ASSUME NEW a \in Agents, NEW severity \in Severities, submitRuleIssue(a, severity)
      PROVE  StepKind
    BY <1>4 DEF submitRuleIssue, StepKind, custody, moneyVars
<1>5. ASSUME NEW approved \in MakerLists, NEW accepted \in VerifierLists,
             NEW maliciousMakers \in SUBSET Agents, NEW maliciousVerifiers \in SUBSET Agents,
             finalizeRuleSet(approved, accepted, maliciousMakers, maliciousVerifiers)
      PROVE  StepKind
    BY <1>5 DEF finalizeRuleSet, StepKind, Proceeds, MoneyStays
<1>6. ASSUME rejectRuleSet PROVE StepKind
    <2>1. PICK status \in {"Cancelled", "RuleAuction"} :
              vault' = [vault EXCEPT !.rejectionCount = vault.rejectionCount + 1,
                                     !.ruleSet = FALSE, !.status = status]
        BY <1>6 DEF rejectRuleSet
    <2>2. vault.rejectionCount + 1 \in Nat /\ status \in VaultStatus \cap Unfunded
        OBVIOUS
    <2>3. vault' \in VaultRecord /\ vault'.status = status
        BY <2>1, <2>2
    <2>4. vault.status \in Unfunded /\ UNCHANGED <<resolution, escrow, collateral>>
        BY <1>6 DEF rejectRuleSet
    <2> QED BY <2>2, <2>3, <2>4 DEF StepKind, Proceeds, MoneyStays
<1>7. ASSUME acceptRuleSetAndFund PROVE StepKind
    <2>1. vault' \in VaultRecord /\ vault'.status = "Active" /\ vault.status \in Unfunded
        BY <1>7 DEF acceptRuleSetAndFund
    <2>2. FundEscrow /\ UNCHANGED resolution
        BY <1>7 DEF acceptRuleSetAndFund
    <2> QED BY <2>1, <2>2 DEF StepKind, IsFunded
<1> QED BY <1>1, <1>2, <1>3, <1>4, <1>5, <1>6, <1>7 DEF RuleStep

\* A finalized round has one of the three outcomes.
LEMMA FinalOutcomeIsOutcome == finalOutcome \in Outcomes
<1>1. CASE reachedConsensus
    BY <1>1 DEF finalOutcome, reachedConsensus
<1>2. CASE ~reachedConsensus
    BY <1>2 DEF finalOutcome, Outcomes
<1> QED BY <1>1, <1>2

\* The steps of the resolution rounds are among the kinds.
LEMMA ResolutionStepKinds == CustodyType /\ ResolutionStep => StepKind
<1> SUFFICES ASSUME CustodyType, ResolutionStep PROVE StepKind
    OBVIOUS
<1> USE DEF CustodyType, VaultRecord
<1>0. /\ RoundPhases \cup {"Active", "ResolutionAuction"} \subseteq Open
      /\ RevealPhases \subseteq RoundPhases
      /\ Open \subseteq VaultStatus
    BY DEF Open, VaultStatus, Unfunded, Resolved, RoundPhases, RevealPhases
<1>1. ASSUME NEW committee \in ResolutionCommittees, registerResolutionCommittee(committee)
      PROVE  StepKind
    <2>1. /\ vault' = [vault EXCEPT !.status = "CommitPhase",
                                   !.resolutionRound = vault.resolutionRound + 1]
          /\ vault.status \in Open /\ UNCHANGED <<resolution, moneyVars>>
        BY <1>0, <1>1 DEF registerResolutionCommittee
    <2>2. vault.resolutionRound + 1 \in Nat /\ "CommitPhase" \in VaultStatus \cap Open
        BY <1>0 DEF RoundPhases, RevealPhases
    <2>3. vault' \in VaultRecord /\ vault'.status = "CommitPhase"
        BY <2>1, <2>2
    <2> QED BY <2>1, <2>2, <2>3 DEF StepKind, Proceeds, MoneyStays, moneyVars
<1>2. ASSUME NEW a \in Agents, NEW commitment \in Commitments, commitResolution(a, commitment)
      PROVE  StepKind
    BY <1>2 DEF commitResolution, StepKind, custody, moneyVars
<1>3. ASSUME NEW a \in Agents, NEW revealed \in Commitments, revealResolution(a, revealed)
      PROVE  StepKind
    <2>1. /\ vault' = [vault EXCEPT !.status = "RevealPhase"]
          /\ vault.status \in Open /\ UNCHANGED <<resolution, moneyVars>>
        BY <1>0, <1>3 DEF revealResolution
    <2> QED BY <1>0, <2>1
            DEF RoundPhases, RevealPhases, StepKind, Proceeds, MoneyStays, moneyVars
<1>4. ASSUME NEW auditor \in Agents, NEW judged \in Judgeable, NEW verdict \in Verdicts,
             submitAuditVerdict(auditor, judged, verdict)
      PROVE  StepKind
    BY <1>0, <1>4
    DEF submitAuditVerdict, RoundPhases, RevealPhases, StepKind, Proceeds, MoneyStays, moneyVars
<1>5. ASSUME NEW challenger \in Accounts, NEW target \in Agents,
             openPublicChallenge(challenger, target)
      PROVE  StepKind
    BY <1>0, <1>5
    DEF openPublicChallenge, RoundPhases, RevealPhases, StepKind, Proceeds, MoneyStays
<1>6. ASSUME NEW id \in DOMAIN round.challenges, NEW successful \in BOOLEAN,
             resolveChallenge(id, successful)
      PROVE  StepKind
    BY <1>6 DEF resolveChallenge, StepKind, custody
<1>7. ASSUME finalizeV2Vault PROVE StepKind
    <2>0. vault.status \in Open
        BY <1>0, <1>7 DEF finalizeV2Vault, FinalizableStatuses
    <2>1. CASE ~reachedConsensus /\ vault.resolutionRound < MAX_RESOLUTION_ROUNDS
        <3>1. /\ vault' = [vault EXCEPT !.status = "ResolutionAuction"]
              /\ UNCHANGED <<resolution, moneyVars>>
            BY <1>7, <2>1 DEF finalizeV2Vault
        <3> QED BY <1>0, <2>0, <3>1 DEF StepKind, Proceeds, MoneyStays, moneyVars
    <2>2. CASE ~(~reachedConsensus /\ vault.resolutionRound < MAX_RESOLUTION_ROUNDS)
        <3>1. executeVaultOutcome(finalOutcome)
            BY <1>7, <2>2 DEF finalizeV2Vault
        <3> QED BY <2>0, <3>1, FinalOutcomeIsOutcome DEF StepKind, IsSettled
    <2> QED BY <2>1, <2>2
<1> QED BY <1>1, <1>2, <1>3, <1>4, <1>5, <1>6, <1>7 DEF ResolutionStep

\* The steps of the legacy flow are among the kinds.
LEMMA LegacyStepKinds == CustodyType /\ LegacyStep => StepKind
<1> SUFFICES ASSUME CustodyType, LegacyStep PROVE StepKind
    OBVIOUS
<1> USE DEF CustodyType, VaultRecord
<1>0. {"Active", "Resolving", "Disputed"} \subseteq Open /\ Open \subseteq VaultStatus
    BY DEF Open, VaultStatus, Unfunded, Resolved, RoundPhases, RevealPhases
<1>1. ASSUME createVaultAndDeposit PROVE StepKind
    <2>1. vault' \in VaultRecord /\ vault'.status = "Active" /\ vault.status \in Unfunded
        BY <1>0, <1>1 DEF createVaultAndDeposit, Unfunded
    <2>2. FundEscrow /\ UNCHANGED resolution
        BY <1>1 DEF createVaultAndDeposit
    <2> QED BY <2>1, <2>2 DEF StepKind, IsFunded
<1>2. ASSUME NEW a \in Accounts, NEW outcome \in Outcomes, submitResolutionHash(a, outcome)
      PROVE  StepKind
    BY <1>0, <1>2
    DEF submitResolutionHash, AcceptsHashes, Submitted, ResolutionRecord, StepKind, IsDebated,
        MoneyStays, moneyVars
<1>3. ASSUME markVaultDisputed PROVE StepKind
    BY <1>0, <1>3
    DEF markVaultDisputed, ResolutionRecord, StepKind, IsDebated, MoneyStays, moneyVars
<1>4. ASSUME finalizeVault PROVE StepKind
    <2>1. resolution.outcome \in Outcomes
        BY <1>4 DEF finalizeVault, ResolutionRecord
    <2> QED BY <1>0, <1>4, <2>1 DEF finalizeVault, StepKind, IsSettled
<1> QED BY <1>1, <1>2, <1>3, <1>4 DEF LegacyStep

\* Claims, the owner, the agents and time are among the kinds.
LEMMA SurroundingStepKinds == CustodyType /\ SurroundingStep => StepKind
<1> SUFFICES ASSUME CustodyType, SurroundingStep PROVE StepKind
    OBVIOUS
<1>1. ASSUME NEW a \in Claimants, claimRewards(a) PROVE StepKind
    BY <1>1 DEF claimRewards, claim, StepKind, custody
<1>2. ASSUME setPaused PROVE StepKind
    BY <1>2 DEF setPaused, StepKind, custody, moneyVars
<1>3. ASSUME NEW schedule \in FeeSchedules, setFees(schedule) PROVE StepKind
    BY <1>3 DEF setFees, StepKind, custody, moneyVars
<1>4. ASSUME NEW a \in Accounts, NEW level \in StakeLevels, moveStake(a, level) PROVE StepKind
    BY <1>4 DEF moveStake, StepKind, custody, moneyVars
<1>5. ASSUME reachSettlementTime PROVE StepKind
    BY <1>5 DEF reachSettlementTime, StepKind, custody, moneyVars
<1>6. ASSUME passDeadline PROVE StepKind
    BY <1>6 DEF passDeadline, StepKind, custody, moneyVars
<1>7. ASSUME passDisputeWindow PROVE StepKind
    BY <1>7 DEF passDisputeWindow, StepKind, WindowPasses, MoneyStays, moneyVars
<1> QED BY <1>1, <1>2, <1>3, <1>4, <1>5, <1>6, <1>7 DEF SurroundingStep

\* So is every step.
LEMMA StepKinds == CustodyType /\ [Next]_vars => StepKind
<1>1. CASE UNCHANGED vars
    BY <1>1 DEF vars, moneyVars, StepKind, custody
<1> QED BY <1>1, RuleStepKinds, ResolutionStepKinds, LegacyStepKinds, SurroundingStepKinds
        DEF Next

\* Only setFees changes the fees.
LEMMA FeesStay == [Next]_vars /\ fees \in FeeSchedules => fees' \in FeeSchedules
<1> SUFFICES ASSUME [Next]_vars, fees \in FeeSchedules PROVE fees' \in FeeSchedules
    OBVIOUS
<1>1. CASE UNCHANGED vars
    BY <1>1 DEF vars, adminVars
<1>2. RuleStep => UNCHANGED fees
    BY DEF RuleStep, createVaultRequest, registerRuleCommittee, submitRuleDraft,
           submitRuleIssue, finalizeRuleSet, rejectRuleSet, acceptRuleSetAndFund, adminVars
<1>3. ResolutionStep => UNCHANGED fees
    BY DEF ResolutionStep, registerResolutionCommittee, commitResolution, revealResolution,
           submitAuditVerdict, openPublicChallenge, resolveChallenge, finalizeV2Vault,
           adminVars
<1>4. LegacyStep => UNCHANGED fees
    BY DEF LegacyStep, createVaultAndDeposit, submitResolutionHash, markVaultDisputed,
           finalizeVault, adminVars
<1>5. SurroundingStep => fees' \in FeeSchedules
    BY DEF SurroundingStep, claimRewards, claim, setPaused, setFees, moveStake,
           reachSettlementTime, passDeadline, passDisputeWindow, adminVars
<1> QED BY <1>1, <1>2, <1>3, <1>4, <1>5 DEF Next

\* CustodyInv holds in every reachable state.
THEOREM CustodyIsInvariant == Spec => []CustodyInv
<1>1. Init => CustodyInv
    BY CustodyInit DEF Init
<1>2. CustodyInv /\ [Next]_vars => CustodyInv'
    BY StepKinds, FeesStay, CustodyStep DEF CustodyInv, CustodyType
<1> QED BY <1>1, <1>2, PTL DEF Spec

-----------------------------------------------------------------------------
\* The vault, its escrow, the registry of resolutions and the collateral token agree on
\* where a vault is (EscrowMatchesStatus), whatever the contracts are called with and in
\* whatever order.
THEOREM EscrowAgrees == Spec => []EscrowMatchesStatus
BY CustodyIsInvariant, PTL DEF CustodyInv

\* No call to the vault's contracts changes what a final resolution has decided, paid or
\* closed (OutcomeIsFinal).
THEOREM OutcomeStaysFinal == Spec => OutcomeIsFinal
<1>1. ASSUME CustodyInv, [Next]_vars, resolution.finalized
      PROVE  resolution' = resolution /\ vault' = vault /\ escrow' = escrow
             /\ collateral' = collateral
    BY <1>1, StepKinds, FinalStays DEF CustodyInv
<1> QED BY <1>1, CustodyIsInvariant, PTL DEF Spec, OutcomeIsFinal

\* The machinery of rule sets, rounds, disputes and legacy resolutions implements the
\* promise of module CollateralPromise: one step into custody, at most one out of it, whole.
THEOREM PromiseKept == Spec => KeepsCollateralPromise
<1>1. Init => Promise!Init
    BY PromiseInit DEF Init
<1>2. CustodyInv /\ [Next]_vars => [Promise!Next]_(Promise!promised)
    BY StepKinds, PromiseStep DEF CustodyInv
<1> QED BY <1>1, <1>2, CustodyIsInvariant, PTL DEF Spec, KeepsCollateralPromise, Promise!Spec

-----------------------------------------------------------------------------
\* The moves of a vault: what happens to its status and counters, its committees and the
\* dispute about it.

Moves(from, to, ruleRounds, resolutionRounds, rejections) ==
    /\ vault.status \in from
    /\ vault'.status \in to
    /\ vault'.ruleRound = vault.ruleRound + ruleRounds
    /\ vault'.resolutionRound = vault.resolutionRound + resolutionRounds
    /\ vault'.rejectionCount = vault.rejectionCount + rejections

RuleMove ==
    \/ Moves({"Absent"}, {"RuleAuction"}, 0, 0, 0) /\ UNCHANGED ruleCommittee
    \/ Moves({"RuleAuction"}, {"RuleDrafting"}, 1, 0, 0)
    \/ Moves({"RuleDrafting"}, {"UserRuleReview"}, 0, 0, 0)
       /\ ruleCommittee' = NoRuleCommittee
    \/ Moves({"UserRuleReview"}, {IF rejectedTooOften THEN "Cancelled" ELSE "RuleAuction"},
             0, 0, 1)
       /\ UNCHANGED ruleCommittee
    \/ Moves({"Absent", "UserRuleReview"}, {"Active"}, 0, 0, 0) /\ UNCHANGED ruleCommittee
RoundMove ==
    \/ Moves({"Active", "ResolutionAuction"}, {"CommitPhase"}, 0, 1, 0)
       /\ resolutionCommittee' # NoResolutionCommittee
    \/ Moves(RoundPhases, RoundPhases, 0, 0, 0) /\ UNCHANGED resolutionCommittee
    \/ Moves(RoundPhases, {"ResolutionAuction"}, 0, 0, 0)
       /\ vault.resolutionRound < MAX_RESOLUTION_ROUNDS
       /\ resolutionCommittee' = NoResolutionCommittee
Resolves ==
    /\ ~resolution'.disputed
    /\ UNCHANGED ruleCommittee
    /\ \/ Moves(RoundPhases, Resolved, 0, 0, 0)
          /\ resolutionCommittee' = NoResolutionCommittee
       \/ Moves({"Resolving", "Disputed"}, Resolved, 0, 0, 0) /\ UNCHANGED resolutionCommittee
Debates ==
    /\ UNCHANGED committeeVars
    /\ \/ Moves({"Active", "Resolving", "Disputed"}, {"Resolving"}, 0, 0, 0)
          /\ ~resolution'.disputed
       \/ Moves({"Resolving"}, {"Disputed"}, 0, 0, 0) /\ resolution'.disputed

Move ==
    \/ UNCHANGED <<vault, committeeVars>> /\ resolution'.disputed = resolution.disputed
    \/ UNCHANGED <<resolution, resolutionCommittee>> /\ RuleMove
    \/ UNCHANGED <<resolution, ruleCommittee>> /\ RoundMove
    \/ Resolves
    \/ Debates

\* Executing an outcome resolves the vault and leaves its counters.
LEMMA ExecutingResolves ==
    ASSUME CustodyType, NEW outcome \in Outcomes, executeVaultOutcome(outcome),
           NEW from, vault.status \in from
    PROVE  ~resolution'.disputed /\ Moves(from, Resolved, 0, 0, 0)
<1>1. /\ vault' = [vault EXCEPT !.status = StatusOf(outcome)]
      /\ resolution' = [outcome |-> outcome, disputed |-> FALSE, finalized |-> TRUE,
                        windowOver |-> TRUE]
    BY DEF executeVaultOutcome
<1>2. StatusOf(outcome) \in Resolved
    BY DEF StatusOf, Outcomes, Resolved
<1> QED BY <1>1, <1>2 DEF Moves, CustodyType, VaultRecord

\* The steps of the rule phase are such moves.
LEMMA RuleMoves == CustodyType /\ RuleStep => Move
<1> SUFFICES ASSUME CustodyType, RuleStep PROVE Move
    OBVIOUS
<1> USE DEF CustodyType, VaultRecord
<1>1. ASSUME NEW value \in SetupDeposits, createVaultRequest(value) PROVE Move
    BY <1>1 DEF createVaultRequest, Move, RuleMove, Moves, committeeVars
<1>2. ASSUME NEW committee \in RuleCommittees, registerRuleCommittee(committee) PROVE Move
    BY <1>2 DEF registerRuleCommittee, Move, RuleMove, Moves
<1>3. ASSUME NEW a \in Agents, submitRuleDraft(a) PROVE Move
    BY <1>3 DEF submitRuleDraft, Move
<1>4. ASSUME NEW a \in Agents, NEW severity \in Severities, submitRuleIssue(a, severity)
      PROVE  Move
    BY <1>4 DEF submitRuleIssue, Move
<1>5. ASSUME NEW approved \in MakerLists, NEW accepted \in VerifierLists,
             NEW maliciousMakers \in SUBSET Agents, NEW maliciousVerifiers \in SUBSET Agents,
             finalizeRuleSet(approved, accepted, maliciousMakers, maliciousVerifiers)
      PROVE  Move
    BY <1>5 DEF finalizeRuleSet, Move, RuleMove, Moves
<1>6. ASSUME rejectRuleSet PROVE Move
    BY <1>6 DEF rejectRuleSet, Move, RuleMove, Moves, committeeVars
<1>7. ASSUME acceptRuleSetAndFund PROVE Move
    BY <1>7 DEF acceptRuleSetAndFund, Move, RuleMove, Moves, committeeVars
<1> QED BY <1>1, <1>2, <1>3, <1>4, <1>5, <1>6, <1>7 DEF RuleStep

\* So are the steps of the resolution rounds.
LEMMA ResolutionMoves == CustodyType /\ ResolutionStep => Move
<1> SUFFICES ASSUME CustodyType, ResolutionStep PROVE Move
    OBVIOUS
<1> USE DEF CustodyType, VaultRecord
<1>0. {"CommitPhase", "RevealPhase", "AuditPhase", "PublicChallenge"} = RoundPhases
    BY DEF RoundPhases, RevealPhases
<1>1. ASSUME NEW committee \in ResolutionCommittees, registerResolutionCommittee(committee)
      PROVE  Move
    <2>1. resolutionCommittee' # NoResolutionCommittee
        BY <1>1 DEF registerResolutionCommittee, recordResolutionCommittee,
                    NoResolutionCommittee
    <2> QED BY <1>1, <2>1
            DEF registerResolutionCommittee, moneyVars, Move, RoundMove, Moves
<1>2. ASSUME NEW a \in Agents, NEW commitment \in Commitments, commitResolution(a, commitment)
      PROVE  Move
    BY <1>2 DEF commitResolution, Move
<1>3. ASSUME NEW a \in Agents, NEW revealed \in Commitments, revealResolution(a, revealed)
      PROVE  Move
    <2>1. /\ vault.status \in RoundPhases /\ vault' = [vault EXCEPT !.status = "RevealPhase"]
          /\ UNCHANGED <<committeeVars, resolution>>
        BY <1>3 DEF revealResolution, RoundPhases
    <2> QED BY <1>0, <2>1 DEF Move, RoundMove, Moves, committeeVars
<1>4. ASSUME NEW auditor \in Agents, NEW judged \in Judgeable, NEW verdict \in Verdicts,
             submitAuditVerdict(auditor, judged, verdict)
      PROVE  Move
    BY <1>0, <1>4 DEF submitAuditVerdict, Move, RoundMove, Moves, committeeVars
<1>5. ASSUME NEW challenger \in Accounts, NEW target \in Agents,
             openPublicChallenge(challenger, target)
      PROVE  Move
    BY <1>0, <1>5 DEF openPublicChallenge, Move, RoundMove, Moves, committeeVars
<1>6. ASSUME NEW id \in DOMAIN round.challenges, NEW successful \in BOOLEAN,
             resolveChallenge(id, successful)
      PROVE  Move
    BY <1>6 DEF resolveChallenge, Move
<1>7. ASSUME finalizeV2Vault PROVE Move
    <2>0. /\ vault.status \in RoundPhases /\ UNCHANGED ruleCommittee
          /\ resolutionCommittee' = NoResolutionCommittee
        BY <1>7 DEF finalizeV2Vault, FinalizableStatuses
    <2>1. CASE ~reachedConsensus /\ vault.resolutionRound < MAX_RESOLUTION_ROUNDS
        <3>1. vault' = [vault EXCEPT !.status = "ResolutionAuction"] /\ UNCHANGED resolution
            BY <1>7, <2>1 DEF finalizeV2Vault
        <3> QED BY <2>0, <2>1, <3>1 DEF Move, RoundMove, Moves
    <2>2. CASE ~(~reachedConsensus /\ vault.resolutionRound < MAX_RESOLUTION_ROUNDS)
        <3>1. executeVaultOutcome(finalOutcome)
            BY <1>7, <2>2 DEF finalizeV2Vault
        <3>2. ~resolution'.disputed /\ Moves(RoundPhases, Resolved, 0, 0, 0)
            BY <2>0, <3>1, FinalOutcomeIsOutcome, ExecutingResolves
        <3> QED BY <2>0, <3>2 DEF Move, Resolves
    <2> QED BY <2>1, <2>2
<1> QED BY <1>1, <1>2, <1>3, <1>4, <1>5, <1>6, <1>7 DEF ResolutionStep

\* So are all others.
LEMMA OtherMoves == CustodyType /\ (LegacyStep \/ SurroundingStep) => Move
<1> USE DEF CustodyType, VaultRecord
<1>1. ASSUME CustodyType, createVaultAndDeposit PROVE Move
    BY <1>1 DEF createVaultAndDeposit, Move, RuleMove, Moves, committeeVars
<1>2. ASSUME CustodyType, NEW a \in Accounts, NEW outcome \in Outcomes,
             submitResolutionHash(a, outcome)
      PROVE  Move
    <2>1. /\ vault.status \in {"Active", "Resolving", "Disputed"}
          /\ vault' = [vault EXCEPT !.status = "Resolving"]
          /\ ~resolution'.disputed /\ UNCHANGED committeeVars
        BY <1>2 DEF submitResolutionHash, AcceptsHashes, Submitted
    <2>2. Moves({"Active", "Resolving", "Disputed"}, {"Resolving"}, 0, 0, 0)
        BY <1>2, <2>1 DEF Moves
    <2> QED BY <2>1, <2>2 DEF Move, Debates
<1>3. ASSUME CustodyType, markVaultDisputed PROVE Move
    <2>1. /\ vault.status \in {"Resolving"} /\ vault' = [vault EXCEPT !.status = "Disputed"]
          /\ resolution'.disputed /\ UNCHANGED committeeVars
        BY <1>3 DEF markVaultDisputed, ResolutionRecord
    <2>2. Moves({"Resolving"}, {"Disputed"}, 0, 0, 0)
        BY <1>3, <2>1 DEF Moves
    <2> QED BY <2>1, <2>2 DEF Move, Debates
<1>4. ASSUME CustodyType, finalizeVault PROVE Move
    <2>1. resolution.outcome \in Outcomes
        BY <1>4 DEF finalizeVault, ResolutionRecord
    <2>2. ~resolution'.disputed /\ Moves({"Resolving", "Disputed"}, Resolved, 0, 0, 0)
        BY <1>4, <2>1, ExecutingResolves DEF finalizeVault
    <2> QED BY <1>4, <2>2 DEF finalizeVault, Move, Resolves, committeeVars
<1>5. ASSUME CustodyType, NEW a \in Claimants, claimRewards(a) PROVE Move
    BY <1>5 DEF claimRewards, claim, Move
<1>6. ASSUME CustodyType, SurroundingStep, ~\E a \in Claimants : claimRewards(a) PROVE Move
    BY <1>6 DEF SurroundingStep, setPaused, setFees, moveStake, reachSettlementTime,
                passDeadline, passDisputeWindow, ResolutionRecord, Move
<1> QED BY <1>1, <1>2, <1>3, <1>4, <1>5, <1>6 DEF LegacyStep, SurroundingStep

LEMMA EveryStepMoves == CustodyType /\ [Next]_vars => Move
<1>1. CASE UNCHANGED vars
    BY <1>1 DEF vars, Move
<1> QED BY <1>1, RuleMoves, ResolutionMoves, OtherMoves DEF Next

-----------------------------------------------------------------------------
\* The counters, committees and dispute that go with a status.

\* Which round of drafting or resolving it is depends on the status and on how often the
\* setter rejected a rule set.
RoundsCounted ==
    /\ vault.status \in {"Absent", "RuleAuction"} => vault.ruleRound = vault.rejectionCount
    /\ vault.status \in {"RuleDrafting", "UserRuleReview"} =>
           vault.ruleRound = vault.rejectionCount + 1
    /\ vault.status \in Unfunded \cup {"Active", "Resolving", "Disputed"} =>
           vault.resolutionRound = 0

StatusInv == CommitteeMatchesStatus /\ DisputeAgrees /\ RoundsBounded /\ RoundsCounted

LEMMA StatusInit == Init => StatusInv
<1> SUFFICES ASSUME Init PROVE StatusInv
    OBVIOUS
<1>1. /\ vault.status = "Absent" /\ vault.ruleRound = 0 /\ vault.resolutionRound = 0
      /\ vault.rejectionCount = 0 /\ ~resolution.disputed
      /\ ruleCommittee = NoRuleCommittee /\ resolutionCommittee = NoResolutionCommittee
    BY DEF Init, BaseInit, NoResolution
<1>2. CommitteeMatchesStatus /\ DisputeAgrees
    BY <1>1 DEF CommitteeMatchesStatus, DisputeAgrees, RoundPhases, RevealPhases
<1>3. RoundsBounded /\ RoundsCounted
    BY <1>1, BoundsAreNat DEF RoundsBounded, RoundsCounted
<1> QED BY <1>2, <1>3 DEF StatusInv

\* Every move keeps them in agreement.
LEMMA MovesKeepStatus == CustodyType /\ CustodyType' /\ StatusInv /\ Move => StatusInv'
<1> SUFFICES ASSUME CustodyType, CustodyType', StatusInv, Move PROVE StatusInv'
    OBVIOUS
<1> USE DEF RoundPhases, RevealPhases, Resolved, Unfunded
<1>1. /\ vault.status \in VaultStatus /\ vault'.status \in VaultStatus
      /\ vault.ruleRound \in Nat /\ vault.resolutionRound \in Nat
      /\ vault.rejectionCount \in Nat
      /\ vault'.ruleRound \in Nat /\ vault'.resolutionRound \in Nat
      /\ vault'.rejectionCount \in Nat
      /\ resolution.disputed \in BOOLEAN /\ resolution'.disputed \in BOOLEAN
    BY DEF CustodyType, VaultRecord, ResolutionRecord
<1>2. MAX_RULE_REJECTIONS \in Nat /\ MAX_RESOLUTION_ROUNDS \in Nat \ {0}
    BY BoundsAreNat
<1>3. CommitteeMatchesStatus'
    BY <1>1 DEF StatusInv, CommitteeMatchesStatus, Move, RuleMove, RoundMove, Resolves, Debates,
                Moves, committeeVars
<1>4. DisputeAgrees'
    BY <1>1 DEF StatusInv, DisputeAgrees, Move, RuleMove, RoundMove, Resolves, Debates, Moves
<1>5. RoundsBounded' /\ RoundsCounted'
    <2>1. CASE UNCHANGED vault
        BY <2>1 DEF StatusInv, RoundsBounded, RoundsCounted
    <2>2. CASE RuleMove
        <3> USE DEF StatusInv, RoundsBounded, RoundsCounted, Moves
        <3>1. CASE Moves({"Absent"}, {"RuleAuction"}, 0, 0, 0)
            BY <1>1, <1>2, <3>1
        <3>2. CASE Moves({"RuleAuction"}, {"RuleDrafting"}, 1, 0, 0)
            BY <1>1, <1>2, <3>2
        <3>3. CASE Moves({"RuleDrafting"}, {"UserRuleReview"}, 0, 0, 0)
            BY <1>1, <1>2, <3>3
        <3>4. CASE Moves({"UserRuleReview"},
                         {IF rejectedTooOften THEN "Cancelled" ELSE "RuleAuction"}, 0, 0, 1)
            BY <1>1, <1>2, <3>4 DEF rejectedTooOften
        <3>5. CASE Moves({"Absent", "UserRuleReview"}, {"Active"}, 0, 0, 0)
            BY <1>1, <1>2, <3>5
        <3> QED BY <2>2, <3>1, <3>2, <3>3, <3>4, <3>5 DEF RuleMove
    <2>3. CASE RoundMove
        BY <1>1, <1>2, <2>3 DEF StatusInv, RoundsBounded, RoundsCounted, RoundMove, Moves
    <2>4. CASE Resolves
        BY <1>1, <1>2, <2>4 DEF StatusInv, RoundsBounded, RoundsCounted, Resolves, Moves
    <2>5. CASE Debates
        BY <1>1, <1>2, <2>5 DEF StatusInv, RoundsBounded, RoundsCounted, Debates, Moves
    <2> QED BY <2>1, <2>2, <2>3, <2>4, <2>5 DEF Move
<1> QED BY <1>3, <1>4, <1>5 DEF StatusInv

\* A vault's committees and dispute are those of its status, and its rounds are bounded.
THEOREM StatusIsInvariant == Spec => []StatusInv
<1>1. CustodyInv /\ CustodyInv' /\ StatusInv /\ [Next]_vars => StatusInv'
    BY EveryStepMoves, MovesKeepStatus DEF CustodyInv
<1> QED BY <1>1, StatusInit, CustodyIsInvariant, PTL DEF Spec

-----------------------------------------------------------------------------
\* The committees, the submissions of a rule round and the record of a resolution round.

LEMMA EveryStepChanges == SurroundingsInv /\ [Next]_vars => Changes
<1> SUFFICES ASSUME SurroundingsInv, [Next]_vars PROVE Changes
    OBVIOUS
<1>a. /\ {"CommitPhase", "RevealPhase", "AuditPhase", "PublicChallenge"} = RoundPhases
      /\ RevealPhases \subseteq RoundPhases
      /\ {"Absent", "RuleAuction", "RuleDrafting", "UserRuleReview", "Active", "Resolving",
          "Disputed"} \cap RoundPhases = {}
    BY DEF RoundPhases, RevealPhases
<1>b. SurroundingsInv
    OBVIOUS
<1> USE DEF committeeVars, adminVars
<1>1. CASE UNCHANGED vars
    BY <1>1 DEF vars, Changes, CommitteesChange, SubmissionsChange, RoundChange,
                SurroundingsInv
<1>2. CASE RuleStep
    <2>1. CommitteesChange
        BY <1>2
        DEF RuleStep, createVaultRequest, registerRuleCommittee, submitRuleDraft,
            submitRuleIssue, finalizeRuleSet, rejectRuleSet, acceptRuleSetAndFund,
            CommitteesChange
    <2>2. SubmissionsChange
        BY <1>2
        DEF RuleStep, createVaultRequest, registerRuleCommittee, submitRuleDraft,
            submitRuleIssue, finalizeRuleSet, rejectRuleSet, acceptRuleSetAndFund,
            SubmissionsChange
    <2>3. UNCHANGED <<round, clock, paused>> /\ vault.status \notin RoundPhases
        BY <1>2, <1>a
        DEF RuleStep, createVaultRequest, registerRuleCommittee, submitRuleDraft,
            submitRuleIssue, finalizeRuleSet, rejectRuleSet, acceptRuleSetAndFund
    <2> QED BY <2>1, <2>2, <2>3 DEF Changes, RoundChange, SurroundingsInv
<1>3. CASE ResolutionStep
    <2>1. CommitteesChange
        BY <1>3
        DEF ResolutionStep, registerResolutionCommittee, commitResolution, revealResolution,
            submitAuditVerdict, openPublicChallenge, resolveChallenge, finalizeV2Vault,
            CommitteesChange
    <2>2. UNCHANGED <<submissions, paused>>
        BY <1>3
        DEF ResolutionStep, registerResolutionCommittee, commitResolution, revealResolution,
            submitAuditVerdict, openPublicChallenge, resolveChallenge, finalizeV2Vault
    <2>3. clock' = clock \/ clock' = [clock EXCEPT !.deadlinesPassed = 0]
        BY <1>3
        DEF ResolutionStep, registerResolutionCommittee, commitResolution, revealResolution,
            submitAuditVerdict, openPublicChallenge, resolveChallenge, finalizeV2Vault
    <2>4. SurroundingsInv'
        BY <1>b, <2>2, <2>3 DEF SurroundingsInv
    <2>5. RoundChange
        <3> USE DEF RoundChange
        <3>1. ASSUME NEW committee \in ResolutionCommittees,
                     registerResolutionCommittee(committee)
              PROVE  RoundChange
            BY <3>1 DEF registerResolutionCommittee
        <3>2. ASSUME NEW a \in Agents, NEW commitment \in Commitments,
                     commitResolution(a, commitment)
              PROVE  RoundChange
            BY <1>a, <3>2 DEF commitResolution
        <3>3. ASSUME NEW a \in Agents, NEW revealed \in Commitments,
                     revealResolution(a, revealed)
              PROVE  RoundChange
            BY <1>a, <3>3 DEF revealResolution
        <3>4. ASSUME NEW auditor \in Agents, NEW judged \in Judgeable, NEW verdict \in Verdicts,
                     submitAuditVerdict(auditor, judged, verdict)
              PROVE  RoundChange
            BY <1>a, <3>4 DEF submitAuditVerdict
        <3>5. ASSUME NEW challenger \in Accounts, NEW target \in Agents,
                     openPublicChallenge(challenger, target)
              PROVE  RoundChange
            BY <1>a, <3>5 DEF openPublicChallenge
        <3>6. ASSUME NEW id \in DOMAIN round.challenges, NEW successful \in BOOLEAN,
                     resolveChallenge(id, successful)
              PROVE  RoundChange
            BY <3>6 DEF resolveChallenge
        <3>7. ASSUME finalizeV2Vault PROVE RoundChange
            BY <3>7 DEF finalizeV2Vault, RoundIsOver
        <3> QED BY <1>3, <3>1, <3>2, <3>3, <3>4, <3>5, <3>6, <3>7 DEF ResolutionStep
    <2> QED BY <2>1, <2>2, <2>4, <2>5 DEF Changes, SubmissionsChange
<1>4. CASE LegacyStep
    <2>1. /\ UNCHANGED <<ruleCommittee, resolutionCommittee, submissions, round, clock, paused>>
          /\ vault.status \notin RoundPhases
        BY <1>4, <1>a
        DEF LegacyStep, createVaultAndDeposit, submitResolutionHash, AcceptsHashes,
            markVaultDisputed, finalizeVault
    <2> QED BY <1>b, <2>1 DEF Changes, CommitteesChange, SubmissionsChange, RoundChange,
                              SurroundingsInv
<1>5. CASE SurroundingStep
    <2>1. UNCHANGED <<vault, ruleCommittee, resolutionCommittee, submissions, round>>
        BY <1>5
        DEF SurroundingStep, claimRewards, claim, setPaused, setFees, moveStake,
            reachSettlementTime, passDeadline, passDisputeWindow
    <2>2. SurroundingsInv'
        <3>1. CASE UNCHANGED <<clock, paused>>
            BY <1>b, <3>1 DEF SurroundingsInv
        <3>2. CASE setPaused \/ reachSettlementTime
            BY <1>b, <3>2 DEF setPaused, reachSettlementTime, SurroundingsInv
        <3>3. CASE passDeadline
            BY <1>b, <3>3 DEF passDeadline, SurroundingsInv
        <3> QED BY <1>5, <3>1, <3>2, <3>3
                DEF SurroundingStep, claimRewards, claim, setFees, moveStake, passDisputeWindow
    <2> QED BY <2>1, <2>2 DEF Changes, CommitteesChange, SubmissionsChange, RoundChange
<1> QED BY <1>1, <1>2, <1>3, <1>4, <1>5 DEF Next

\* The committees, submissions, challenges and reveals of a vault are well formed and end
\* with their round.
THEOREM RecordsAreInvariant == Spec => []RecordsInv
<1>1. CustodyInv /\ RecordsInv /\ [Next]_vars => RecordsInv'
    BY EveryStepChanges, ChangesKeepRecords DEF RecordsInv, CustodyInv
<1>2. Init => RecordsInv
    BY RecordsInit DEF Init
<1> QED BY <1>1, <1>2, CustodyIsInvariant, PTL DEF Spec

-----------------------------------------------------------------------------
\* The reward pool.

LEMMA RuleRequestsAreRequests ==
    ASSUME CustodyType, CommitteesInv, SubmissionsInv,
           NEW approved \in MakerLists, NEW accepted \in VerifierLists,
           RuleRewardsAllowed(approved, accepted)
    PROVE  RuleRewardRequests(approved, accepted) \in Requests
<1> DEFINE R == [to : Accounts, amount : Nat]
           makers == ruleCommittee.makers
           p == [i \in DOMAIN makers |->
                    [to |-> makers[i],
                     amount |-> IF makers[i] \in submissions.drafts THEN fees.ruleMakerBase
                                ELSE 0]]
           q == [i \in DOMAIN approved |->
                    [to |-> approved[i], amount |-> fees.ruleMakerApprovalBonus]]
           r == [i \in DOMAIN accepted |->
                    [to |-> accepted[i],
                     amount |-> fees.ruleVerifier[submissions.issues[accepted[i]]]]]
<1>0. /\ fees.ruleMakerBase \in Nat /\ fees.ruleMakerApprovalBonus \in Nat
      /\ \A severity \in Severities : fees.ruleVerifier[severity] \in Nat
      /\ Agents \subseteq Accounts
    BY FeesAreSchedules DEF CustodyType, FeeSchedule, Accounts
<1>1. /\ makers \in Seq(Agents) /\ approved \in Seq(Agents) /\ accepted \in Seq(Agents)
    BY CommitteesAreLists DEF CommitteesInv
<1>2. /\ \A i \in DOMAIN makers : makers[i] \in Agents
      /\ \A i \in DOMAIN approved : approved[i] \in Agents
      /\ \A i \in DOMAIN accepted : accepted[i] \in Agents
    BY <1>1, LenProperties
<1>3. \A i \in DOMAIN accepted : submissions.issues[accepted[i]] \in Severities
    <2>1. ASSUME NEW i \in DOMAIN accepted PROVE submissions.issues[accepted[i]] \in Severities
        <3>1. accepted[i] \in ToSet(accepted)
            BY DEF ToSet
        <3> QED BY <1>2, <3>1 DEF RuleRewardsAllowed, SubmissionsInv
    <2> QED BY <2>1
<1>4. p \in [DOMAIN makers -> R] /\ q \in [DOMAIN approved -> R] /\ r \in [DOMAIN accepted -> R]
    BY <1>0, <1>2, <1>3
<1> HIDE DEF p, q, r, R
<1>5. p \in Seq(R) /\ q \in Seq(R) /\ r \in Seq(R)
    BY <1>1, <1>4, ListByEntry
<1>6. (p \o q) \o r \in Seq(R)
    BY <1>5, ConcatProperties
<1> QED BY <1>6 DEF RuleRewardRequests, Requests, p, q, r, R

\* What a finalized round pays a validator or an auditor is an amount.
LEMMA RewardsAreNat ==
    ASSUME CustodyType, NEW a, NEW outcome
    PROVE  ValidatorReward(a, outcome) \in Nat /\ AuditorReward(a) \in Nat
<1>1. /\ fees.validatorBase \in Nat /\ fees.validatorQuality \in Nat
      /\ fees.validatorConsensus \in Nat /\ fees.validatorQuestionable \in Nat
      /\ fees.auditorBase \in Nat /\ fees.auditorHighValue \in Nat
    BY FeesAreSchedules DEF CustodyType, FeeSchedule
<1> DEFINE bonus == IF round.reveals[a].outcome = outcome THEN fees.validatorConsensus ELSE 0
           paid == fees.validatorBase + fees.validatorQuality + bonus
           more == IF HighValue(a) THEN fees.auditorHighValue ELSE 0
<1>2. bonus \in Nat /\ paid \in Nat /\ more \in Nat /\ fees.auditorBase + more \in Nat
    BY <1>1
<1>3. ValidatorReward(a, outcome) \in {0, paid, fees.validatorQuestionable}
    BY DEF ValidatorReward
<1>4. AuditorReward(a) \in {0, fees.auditorBase + more}
    BY DEF AuditorReward
<1> HIDE DEF bonus, paid, more
<1> QED BY <1>1, <1>2, <1>3, <1>4

LEMMA ResolutionRequestsAreRequests ==
    ASSUME CustodyType, CommitteesInv, NEW outcome
    PROVE  ResolutionRewardRequests(outcome) \in Requests
<1> DEFINE R == [to : Accounts, amount : Nat]
           validators == resolutionCommittee.validators
           auditors == resolutionCommittee.auditors
           p == [i \in DOMAIN validators |->
                    [to |-> validators[i], amount |-> ValidatorReward(validators[i], outcome)]]
           q == [i \in DOMAIN auditors |->
                    [to |-> auditors[i], amount |-> AuditorReward(auditors[i])]]
<1>1. validators \in Seq(Agents) /\ auditors \in Seq(Agents) /\ Agents \subseteq Accounts
    BY DEF CommitteesInv, Accounts
<1>2. /\ \A i \in DOMAIN validators : validators[i] \in Agents
      /\ \A i \in DOMAIN auditors : auditors[i] \in Agents
    BY <1>1, LenProperties
<1>3. p \in [DOMAIN validators -> R] /\ q \in [DOMAIN auditors -> R]
    BY <1>1, <1>2, RewardsAreNat
<1> HIDE DEF p, q, R
<1>4. p \in Seq(R) /\ q \in Seq(R)
    BY <1>1, <1>3, ListByEntry
<1>5. p \o q \in Seq(R)
    BY <1>4, ConcatProperties
<1> QED BY <1>5 DEF ResolutionRewardRequests, Requests, p, q, R

\* The steps of the rule phase: the setup deposit comes, and it goes to the committee, back
\* to the setter, or makes place for the reward deposit.
LEMMA RulePoolSteps == CustodyType /\ RecordsInv /\ RuleStep => PoolStep
<1> SUFFICES ASSUME CustodyType, RecordsInv, RuleStep PROVE PoolStep
    OBVIOUS
<1>0. vault \in VaultRecord /\ fees \in FeeSchedule /\ CommitteesInv /\ SubmissionsInv
    BY FeesAreSchedules DEF CustodyType, RecordsInv
<1>1. ASSUME NEW value \in SetupDeposits, createVaultRequest(value) PROVE SetupPaidIn
    <2>1. value \in Nat
        BY AmountsAreNat
    <2> QED BY <1>0, <1>1, <2>1 DEF createVaultRequest, VaultRecord, SetupPaidIn
<1>2. ASSUME NEW committee \in RuleCommittees, registerRuleCommittee(committee) PROVE PoolRests
    BY <1>0, <1>2
    DEF registerRuleCommittee, moneyVars, VaultRecord, PoolRests, DepositsRest, Drafting
<1>3. ASSUME (\E a \in Agents : submitRuleDraft(a))
             \/ \E a \in Agents, severity \in Severities : submitRuleIssue(a, severity)
      PROVE  PoolRests
    BY <1>3 DEF submitRuleDraft, submitRuleIssue, moneyVars, PoolRests, DepositsRest
<1>4. ASSUME NEW approved \in MakerLists, NEW accepted \in VerifierLists,
             NEW maliciousMakers \in SUBSET Agents, NEW maliciousVerifiers \in SUBSET Agents,
             finalizeRuleSet(approved, accepted, maliciousMakers, maliciousVerifiers)
      PROVE  SetupPaidOut
    <2>1. RuleRewardRequests(approved, accepted) \in Requests
        BY <1>0, <1>4, RuleRequestsAreRequests DEF finalizeRuleSet
    <2>2. pool' = allocateSetupRewards(pool, RuleRewardRequests(approved, accepted))
        BY <1>4 DEF finalizeRuleSet
    <2>3. /\ vault.status = "RuleDrafting" /\ vault'.status = "UserRuleReview"
          /\ UNCHANGED round
        BY <1>0, <1>4 DEF finalizeRuleSet, VaultRecord
    <2> QED BY <2>1, <2>2, <2>3 DEF SetupPaidOut, Drafting
<1>5. ASSUME rejectRuleSet PROVE SetupReturned \/ PoolRests
    <2>1. /\ vault.status = "UserRuleReview" /\ UNCHANGED round
          /\ vault'.status = IF rejectedTooOften THEN "Cancelled" ELSE "RuleAuction"
          /\ pool' = IF rejectedTooOften THEN emptySetup(pool) ELSE pool
        BY <1>0, <1>5 DEF rejectRuleSet, VaultRecord
    <2> QED BY <2>1 DEF SetupReturned, PoolRests, DepositsRest, Drafting
<1>6. ASSUME acceptRuleSetAndFund PROVE RewardPaidIn
    BY <1>0, <1>6 DEF acceptRuleSetAndFund, VaultRecord, FeeSchedule, RewardPaidIn, Drafting
<1> QED BY <1>1, <1>2, <1>3, <1>4, <1>5, <1>6 DEF RuleStep, PoolStep

\* The steps of the resolution rounds: challenge bonds come and go, and the round that
\* resolves the vault pays the reward deposit out.
LEMMA ResolutionPoolSteps == CustodyType /\ RecordsInv /\ ResolutionStep => PoolStep
<1> SUFFICES ASSUME CustodyType, RecordsInv, ResolutionStep PROVE PoolStep
    OBVIOUS
<1>0. vault \in VaultRecord /\ round \in RoundRecord /\ CommitteesInv
    BY DEF CustodyType, RecordsInv, RoundInv
<1>a. /\ {"CommitPhase", "RevealPhase", "AuditPhase", "PublicChallenge", "Active",
          "ResolutionAuction"} \cup RoundPhases \subseteq Open
      /\ RevealPhases = {"CommitPhase", "RevealPhase"}
      /\ {"Active", "ResolutionAuction"} \cap RoundPhases = {}
    BY DEF Open, VaultStatus, RoundPhases, RevealPhases, Unfunded, Resolved
<1> USE DEF moneyVars
<1>1. ASSUME NEW committee \in ResolutionCommittees, registerResolutionCommittee(committee)
      PROVE  PoolRests
    BY <1>0, <1>a, <1>1 DEF registerResolutionCommittee, VaultRecord, PoolRests, DepositsRest
<1>2. ASSUME NEW a \in Agents, NEW commitment \in Commitments, commitResolution(a, commitment)
      PROVE  PoolRests
    BY <1>0, <1>2 DEF commitResolution, recordCommit, RoundRecord, PoolRests, DepositsRest
<1>3. ASSUME NEW a \in Agents, NEW revealed \in Commitments, revealResolution(a, revealed)
      PROVE  PoolRests
    <2>1. vault.status \in Open /\ vault' = [vault EXCEPT !.status = "RevealPhase"]
        BY <1>a, <1>3 DEF revealResolution
    <2>2. UNCHANGED <<pool, round.challenges>>
        BY <1>0, <1>3 DEF revealResolution, recordReveal, RoundRecord
    <2> QED BY <1>0, <1>a, <2>1, <2>2 DEF VaultRecord, PoolRests, DepositsRest
<1>4. ASSUME NEW auditor \in Agents, NEW judged \in Judgeable, NEW verdict \in Verdicts,
             submitAuditVerdict(auditor, judged, verdict)
      PROVE  PoolRests
    <2>1. vault.status \in Open /\ vault' = [vault EXCEPT !.status = "AuditPhase"]
        BY <1>a, <1>4 DEF submitAuditVerdict
    <2>2. UNCHANGED <<pool, round.challenges>>
        BY <1>0, <1>4 DEF submitAuditVerdict, recordAuditVerdict, RoundRecord
    <2> QED BY <1>0, <1>a, <2>1, <2>2 DEF VaultRecord, PoolRests, DepositsRest
<1>5. ASSUME NEW challenger \in Accounts, NEW target \in Agents,
             openPublicChallenge(challenger, target)
      PROVE  BondPaidIn
    <2>1. /\ vault.status \in Open /\ vault' = [vault EXCEPT !.status = "PublicChallenge"]
          /\ Len(round.challenges) + 1 <= MaxChallenges
          /\ openChallenge(challenger, target, fees.challengeBond)
          /\ pool' = collectChallengeBond(pool, Len(round.challenges) + 1, fees.challengeBond)
        BY <1>a, <1>5 DEF openPublicChallenge
    <2>2. vault'.status \in Open
        BY <1>0, <1>a, <2>1 DEF VaultRecord
    <2> QED BY <2>1, <2>2 DEF BondPaidIn
<1>6. ASSUME NEW id \in DOMAIN round.challenges, NEW successful \in BOOLEAN,
             resolveChallenge(id, successful)
      PROVE  BondPaidOut
    <2> DEFINE challenge == round.challenges[id]
               closed == payChallengeBond(pool, id, challenge.bondAmount)
               reward == <<[to |-> challenge.challenger, amount |-> fees.challengerSuccess]>>
    <2>1. /\ closeChallenge(id, successful) /\ UNCHANGED vault
          /\ pool' = IF successful THEN allocateResolutionRewards(closed, reward) ELSE closed
        BY <1>6 DEF resolveChallenge
    <2>2. reward \in Requests
        BY ChallengersAreRequests DEF RecordsInv
    <2> HIDE DEF reward
    <2> QED BY <2>1, <2>2 DEF BondPaidOut
<1>7. ASSUME finalizeV2Vault PROVE PoolRests \/ RewardPaidOut
    <2>1. vault.status \in RoundPhases /\ UNCHANGED round
        BY <1>7 DEF finalizeV2Vault, FinalizableStatuses
    <2>2. CASE ~reachedConsensus /\ vault.resolutionRound < MAX_RESOLUTION_ROUNDS
        <3>1. vault' = [vault EXCEPT !.status = "ResolutionAuction"] /\ UNCHANGED pool
            BY <1>7, <2>2 DEF finalizeV2Vault
        <3> QED BY <1>0, <1>a, <2>1, <3>1 DEF VaultRecord, PoolRests, DepositsRest
    <2>3. CASE ~(~reachedConsensus /\ vault.resolutionRound < MAX_RESOLUTION_ROUNDS)
        <3>1. /\ executeVaultOutcome(finalOutcome)
              /\ pool' = emptyReward(
                             allocateResolutionRewards(pool,
                                 ResolutionRewardRequests(finalOutcome)))
            BY <1>7, <2>3 DEF finalizeV2Vault
        <3>2. vault'.status \in Resolved
            BY <2>1, <3>1, ExecutingResolves, FinalOutcomeIsOutcome DEF Moves
        <3>3. ResolutionRewardRequests(finalOutcome) \in Requests
            BY <1>0, ResolutionRequestsAreRequests
        <3> QED BY <2>1, <3>1, <3>2, <3>3 DEF RewardPaidOut
    <2> QED BY <2>2, <2>3
<1> QED BY <1>1, <1>2, <1>3, <1>4, <1>5, <1>6, <1>7 DEF ResolutionStep, PoolStep

\* The legacy path moves no deposit, and from outside only claims do.
LEMMA OtherPoolSteps ==
    CustodyType /\ StatusInv /\ RecordsInv /\ PoolInv /\ (LegacyStep \/ SurroundingStep)
        => PoolStep
<1> SUFFICES ASSUME CustodyType, StatusInv, RecordsInv, PoolInv,
                    LegacyStep \/ SurroundingStep
             PROVE  PoolStep
    OBVIOUS
<1>0. vault \in VaultRecord
    BY DEF CustodyType
<1>a. {"Active", "Resolving", "Disputed"} \subseteq Open
    BY DEF Open, VaultStatus, Unfunded, Resolved
<1> USE DEF moneyVars
<1>1. ASSUME LegacyStep PROVE PoolRests
    <2>1. ASSUME createVaultAndDeposit PROVE PoolRests
        BY <1>0, <2>1 DEF createVaultAndDeposit, VaultRecord, PoolRests, DepositsRest
    <2>2. ASSUME NEW a \in Accounts, NEW outcome \in Outcomes, submitResolutionHash(a, outcome)
          PROVE  PoolRests
        BY <1>0, <1>a, <2>2 DEF submitResolutionHash, AcceptsHashes, VaultRecord, PoolRests,
                                DepositsRest
    <2>3. ASSUME markVaultDisputed PROVE PoolRests
        BY <1>0, <1>a, <2>3 DEF markVaultDisputed, VaultRecord, PoolRests, DepositsRest
    <2>4. ASSUME finalizeVault PROVE PoolRests
        <3>1. /\ vault' = [vault EXCEPT !.status = StatusOf(resolution.outcome)]
              /\ vault.status \in {"Resolving", "Disputed"} /\ UNCHANGED <<pool, round>>
            BY <2>4 DEF finalizeVault, executeVaultOutcome
        <3>2. StatusOf(resolution.outcome) \in Resolved
            BY <2>4 DEF finalizeVault, CustodyType, ResolutionRecord, Outcomes, StatusOf, Resolved
        <3>3. vault'.resolutionRound = 0
            BY <1>0, <3>1 DEF VaultRecord, StatusInv, RoundsCounted
        <3> QED BY <1>0, <3>1, <3>2, <3>3 DEF VaultRecord, PoolRests, DepositsRest
    <2> QED BY <1>1, <2>1, <2>2, <2>3, <2>4 DEF LegacyStep
<1>2. ASSUME SurroundingStep, ~\E a \in Claimants : claimRewards(a) PROVE PoolRests
    BY <1>2 DEF SurroundingStep, setPaused, setFees, moveStake, reachSettlementTime,
                passDeadline, passDisputeWindow, PoolRests, DepositsRest
<1>3. ASSUME NEW a \in Claimants, claimRewards(a) PROVE RewardsClaimed
    <2>1. a \in Accounts /\ pool.claimable[a] \in Nat /\ pool.claimableSetup[a] \in Nat
        BY <1>3, BoundsAreNat DEF PoolInv, Balanced, PoolRecord
    <2>2. PICK pov \in 0 .. pool.claimable[a], native \in 0 .. pool.claimableSetup[a] :
              claim(a, pov, native)
        <3>1. /\ pool.claimable[a] \in 0 .. pool.claimable[a] /\ 0 \in 0 .. pool.claimable[a]
              /\ pool.claimableSetup[a] \in 0 .. pool.claimableSetup[a]
              /\ 0 \in 0 .. pool.claimableSetup[a]
            BY <2>1
        <3> QED BY <1>3, <3>1, Zenon DEF claimRewards
    <2> QED BY <2>1, <2>2 DEF claim, RewardsClaimed
<1> QED BY <1>1, <1>2, <1>3 DEF SurroundingStep, PoolStep

\* The reward pool holds what it owes, the bonds of just the open challenges, and the
\* deposits of just the phases they are for.
THEOREM PoolIsInvariant == Spec => []PoolInv
<1>1. CustodyInv /\ StatusInv /\ RecordsInv /\ PoolInv /\ [Next]_vars => PoolInv'
    <2> SUFFICES ASSUME CustodyType, StatusInv, RecordsInv, PoolInv, [Next]_vars
                 PROVE  PoolStep
        BY PoolStepKeepsPool DEF CustodyInv, RecordsInv
    <2>1. UNCHANGED vars => PoolStep
        BY DEF vars, moneyVars, PoolStep, PoolRests, DepositsRest
    <2> QED BY <2>1, RulePoolSteps, ResolutionPoolSteps, OtherPoolSteps DEF Next
<1>2. Init => PoolInv
    BY PoolInit DEF Init
<1> QED BY <1>1, <1>2, CustodyIsInvariant, StatusIsInvariant, RecordsAreInvariant, PTL DEF Spec

-----------------------------------------------------------------------------
\* The stakes and the bonds.

\* BondsFollowCommittee, role by role.
Seated(rules, bench, b) ==
    /\ \A a \in Accounts :
           /\ b[a]["RuleMaker"].active <=> a \in ToSet(rules.makers)
           /\ b[a]["RuleVerifier"].active <=> a \in ToSet(rules.verifiers)
           /\ b[a]["ResolutionValidator"].active <=> a \in ToSet(bench.validators)
           /\ b[a]["ResolutionAuditor"].active <=> a \in ToSet(bench.auditors)
    /\ \A a \in Accounts, r \in Roles : ~b[a][r].active => b[a][r].left = 0

\* Who revealed something else than the commitment has lost its bond at once.
DisqualifiedHasLost ==
    vault.status \in RoundPhases =>
        \A a \in Agents : Disqualified(a) => bonds[a]["ResolutionValidator"].left = 0

StakeInv ==
    /\ Covered(bonds, stake)
    /\ Seated(ruleCommittee, resolutionCommittee, bonds)
    /\ DisqualifiedHasLost

LEMMA SeatedIsFollowing ==
    BondsFollowCommittee <=> Seated(ruleCommittee, resolutionCommittee, bonds)
<1> DEFINE seats(r) == CASE r = "RuleMaker" -> ruleCommittee.makers
                         [] r = "RuleVerifier" -> ruleCommittee.verifiers
                         [] r = "ResolutionValidator" -> resolutionCommittee.validators
                         [] r = "ResolutionAuditor" -> resolutionCommittee.auditors
<1>1. BondsFollowCommittee <=>
          \A a \in Accounts, r \in Roles :
              /\ bonds[a][r].active <=> a \in ToSet(seats(r))
              /\ ~bonds[a][r].active => bonds[a][r].left = 0
    BY DEF BondsFollowCommittee
<1>2. /\ seats("RuleMaker") = ruleCommittee.makers
      /\ seats("RuleVerifier") = ruleCommittee.verifiers
      /\ seats("ResolutionValidator") = resolutionCommittee.validators
      /\ seats("ResolutionAuditor") = resolutionCommittee.auditors
    OBVIOUS
<1> HIDE DEF seats
<1>3. ASSUME NEW a \in Accounts
      PROVE  (\A r \in Roles : bonds[a][r].active <=> a \in ToSet(seats(r))) <=>
             /\ bonds[a]["RuleMaker"].active <=> a \in ToSet(ruleCommittee.makers)
             /\ bonds[a]["RuleVerifier"].active <=> a \in ToSet(ruleCommittee.verifiers)
             /\ bonds[a]["ResolutionValidator"].active
                    <=> a \in ToSet(resolutionCommittee.validators)
             /\ bonds[a]["ResolutionAuditor"].active
                    <=> a \in ToSet(resolutionCommittee.auditors)
    BY <1>2 DEF Roles
<1> QED BY <1>1, <1>3 DEF Seated

LEMMA CoveredIsWithinStake == Covered(bonds, stake) => BondsWithinStake
BY DEF Covered, BondsWithinStake, LockedIn, Locked

LEMMA StakeInit == Init => StakeInv
<1> SUFFICES ASSUME Init PROVE StakeInv
    OBVIOUS
<1>1. /\ bonds = [a \in Accounts |-> [r \in Roles |-> NoBond]] /\ stake = InitialStake
      /\ ruleCommittee = NoRuleCommittee /\ resolutionCommittee = NoResolutionCommittee
      /\ vault.status = "Absent"
    BY DEF Init, BaseInit
<1>2. /\ bonds \in BondRecords /\ stake \in [Accounts -> Nat]
      /\ \A a \in Accounts, r \in Roles : bonds[a][r] = NoBond
    BY <1>1, StakesAreNat DEF BondRecords, NoBond
<1>3. ASSUME NEW a \in Accounts PROVE LockedIn(bonds, a) <= stake[a]
    <2> DEFINE f == [r \in Roles |-> bonds[a][r].left]
    <2>1. \A r \in Roles : f[r] = 0
        BY <1>2 DEF NoBond
    <2> HIDE DEF f
    <2>2. Sum(Roles, f) = 0
        BY <2>1, SumOfZero
    <2>3. stake[a] \in Nat /\ LockedIn(bonds, a) = 0
        BY <1>2, <2>2 DEF f, LockedIn
    <2> QED BY <2>3
<1>4. Covered(bonds, stake)
    BY <1>2, <1>3 DEF Covered
<1>5. Seated(ruleCommittee, resolutionCommittee, bonds)
    BY <1>1, <1>2, NobodySits DEF Seated, NoBond, Roles
<1>6. DisqualifiedHasLost
    BY <1>1 DEF DisqualifiedHasLost, RoundPhases, RevealPhases
<1> QED BY <1>4, <1>5, <1>6 DEF StakeInv

\* What a round's slash of a validator or an auditor is of, and how much.
LEMMA ValidatorSlashFits ==
    ASSUME NEW a, bonds[a]["ResolutionValidator"].left \in Nat
    PROVE  /\ ValidatorSlash(a).agent = a /\ ValidatorSlash(a).role = "ResolutionValidator"
           /\ ValidatorSlash(a).amount \in 0 .. bonds[a]["ResolutionValidator"].left
           /\ \/ ValidatorSlash(a).incident
                     = RoundIncident("missing-resolution-submission", a, "ResolutionValidator")
              \/ ValidatorSlash(a).incident
                     = RoundIncident("resolution-validator-verdict", a, consensusVerdict(a))
<1> DEFINE left == bonds[a]["ResolutionValidator"].left
           verdict == consensusVerdict(a)
           amount == CASE Disqualified(a) -> 0
                       [] ~Disqualified(a) /\ verdict = "Malicious" -> left
                       [] ~Disqualified(a) /\ verdict = "Invalid" -> left \div 2
                       [] OTHER -> 0
<1>1. left \in Nat /\ left \div 2 \in 0 .. left
    OBVIOUS
<1>2. amount \in {0, left, left \div 2}
    OBVIOUS
<1> HIDE DEF verdict, left, amount
<1>3. amount \in 0 .. left /\ left \in 0 .. left
    BY <1>1, <1>2
<1>4. CASE MissingSubmission(a)
    <2>1. ValidatorSlash(a) = Slash(a, "ResolutionValidator", left,
              RoundIncident("missing-resolution-submission", a, "ResolutionValidator"))
        BY <1>4 DEF ValidatorSlash, left
    <2> QED BY <1>3, <2>1 DEF Slash, left
<1>5. CASE ~MissingSubmission(a)
    <2>1. ValidatorSlash(a) = Slash(a, "ResolutionValidator", amount,
              RoundIncident("resolution-validator-verdict", a, verdict))
        BY <1>5 DEF ValidatorSlash, left, verdict, amount
    <2> QED BY <1>3, <2>1 DEF Slash, left, verdict
<1> QED BY <1>4, <1>5

LEMMA AuditorSlashFits ==
    ASSUME NEW b, bonds[b]["ResolutionAuditor"].left \in Nat
    PROVE  /\ AuditorSlash(b).agent = b /\ AuditorSlash(b).role = "ResolutionAuditor"
           /\ AuditorSlash(b).amount \in 0 .. bonds[b]["ResolutionAuditor"].left
           /\ \E label \in {"missing-audit-verdict", "auditor-successful-challenge"} :
                  AuditorSlash(b).incident = RoundIncident(label, b, "ResolutionAuditor")
<1> DEFINE left == bonds[b]["ResolutionAuditor"].left
           amount == IF hasSuccessfulChallengeAgainst(b) THEN left ELSE 0
<1>1. amount \in 0 .. left /\ left \in 0 .. left
    OBVIOUS
<1> HIDE DEF left, amount
<1>2. CASE Judged(b) # Reveals
    <2>1. AuditorSlash(b) = Slash(b, "ResolutionAuditor", left,
              RoundIncident("missing-audit-verdict", b, "ResolutionAuditor"))
        BY <1>2 DEF AuditorSlash, left
    <2> QED BY <1>1, <2>1 DEF Slash, left
<1>3. CASE Judged(b) = Reveals
    <2>1. AuditorSlash(b) = Slash(b, "ResolutionAuditor", amount,
              RoundIncident("auditor-successful-challenge", b, "ResolutionAuditor"))
        BY <1>3 DEF AuditorSlash, left, amount
    <2> QED BY <1>1, <2>1 DEF Slash, left
<1> QED BY <1>2, <1>3

\* The slashes of a round are of its members, one each, out of the member's bond.
LEMMA ResolutionSlashesFit ==
    ASSUME CommitteesInv, StakeInv
    PROVE  /\ \A s \in ResolutionSlashes :
                  /\ s.agent \in Accounts
                  /\ s.agent \in ToSet(resolutionCommittee.validators
                                           \o resolutionCommittee.auditors)
                  /\ s.role \in {"ResolutionValidator", "ResolutionAuditor"}
                  /\ s.amount \in Nat /\ s.amount <= bonds[s.agent][s.role].left
           /\ \A s, t \in ResolutionSlashes : s.agent = t.agent => s = t
<1> DEFINE V == ToSet(resolutionCommittee.validators)
           A == ToSet(resolutionCommittee.auditors)
<1>1. /\ resolutionCommittee.validators \in Seq(Agents)
      /\ resolutionCommittee.auditors \in Seq(Agents) /\ V \cap A = {}
    BY DEF CommitteesInv
<1>2. V \subseteq Agents /\ A \subseteq Agents /\ Agents \subseteq Accounts
    BY <1>1, LenProperties DEF ToSet, Accounts
<1>3. ToSet(resolutionCommittee.validators \o resolutionCommittee.auditors) = V \cup A
    BY <1>1, MembersAreBoth
<1>4. \A a \in Accounts : /\ bonds[a]["ResolutionValidator"].left \in Nat
                          /\ bonds[a]["ResolutionAuditor"].left \in Nat
    BY DEF StakeInv, Covered, BondRecords, Roles
<1> HIDE DEF V, A
<1>5. ASSUME NEW a \in V
      PROVE  /\ ValidatorSlash(a).agent = a /\ ValidatorSlash(a).role = "ResolutionValidator"
             /\ ValidatorSlash(a).amount \in 0 .. bonds[a]["ResolutionValidator"].left
    BY <1>2, <1>4, ValidatorSlashFits
<1>6. ASSUME NEW b \in A
      PROVE  /\ AuditorSlash(b).agent = b /\ AuditorSlash(b).role = "ResolutionAuditor"
             /\ AuditorSlash(b).amount \in 0 .. bonds[b]["ResolutionAuditor"].left
    BY <1>2, <1>4, AuditorSlashFits
<1>7. \A s : s \in ResolutionSlashes <=>
                 (\E a \in V : s = ValidatorSlash(a)) \/ (\E b \in A : s = AuditorSlash(b))
    BY DEF ResolutionSlashes, V, A
<1>8. ASSUME NEW s \in ResolutionSlashes
      PROVE  /\ s.agent \in Accounts /\ s.agent \in V \cup A
             /\ s.role \in {"ResolutionValidator", "ResolutionAuditor"}
             /\ s.amount \in Nat /\ s.amount <= bonds[s.agent][s.role].left
    <2>1. CASE \E a \in V : s = ValidatorSlash(a)
        BY <1>2, <1>4, <1>5, <2>1
    <2>2. CASE \E b \in A : s = AuditorSlash(b)
        BY <1>2, <1>4, <1>6, <2>2
    <2> QED BY <1>7, <2>1, <2>2
<1>9. \A s, t \in ResolutionSlashes : s.agent = t.agent => s = t
    BY <1>1, <1>5, <1>6, <1>7
<1> QED BY <1>3, <1>8, <1>9

\* So are those of a rule round that take anything.
LEMMA RuleSlashesFit ==
    ASSUME CommitteesInv, StakeInv,
           NEW maliciousMakers \in SUBSET Agents, NEW maliciousVerifiers \in SUBSET Agents
    PROVE  LET slashes == RuleSlashes(maliciousMakers, maliciousVerifiers)
           IN  /\ \A s \in slashes :
                      /\ s.amount \in Nat
                      /\ s.amount > 0 =>
                             /\ s.agent \in Accounts
                             /\ s.agent \in ToSet(ruleCommittee.makers
                                                      \o ruleCommittee.verifiers)
                             /\ s.role \in {"RuleMaker", "RuleVerifier"}
                             /\ s.amount <= bonds[s.agent][s.role].left
               /\ \A s, t \in slashes :
                      s.amount > 0 /\ t.amount > 0 /\ s.agent = t.agent => s = t
<1> DEFINE members(r) == ToSet(IF r = "RuleMaker" THEN ruleCommittee.makers
                               ELSE ruleCommittee.verifiers)
           malicious(r) == IF r = "RuleMaker" THEN maliciousMakers ELSE maliciousVerifiers
           label(r) == IF r = "RuleMaker" THEN "missing-rule-draft" ELSE "missing-rule-issue"
           slash(a, r, l) == Slash(a, r, bonds[a][r].left, <<l, vault.ruleRound, a, r>>)
           named(a, r) == IF a \in malicious(r) THEN "rule-participant-slash" ELSE label(r)
           slashes == RuleSlashes(maliciousMakers, maliciousVerifiers)
           Both == {"RuleMaker", "RuleVerifier"}
<1>1. /\ ruleCommittee.makers \in Seq(Agents) /\ ruleCommittee.verifiers \in Seq(Agents)
      /\ members("RuleMaker") = ToSet(ruleCommittee.makers)
      /\ members("RuleVerifier") = ToSet(ruleCommittee.verifiers)
      /\ members("RuleMaker") \cap members("RuleVerifier") = {}
    BY DEF CommitteesInv
<1>2. \A r \in Both : members(r) \subseteq Agents /\ malicious(r) \subseteq Agents
    BY <1>1, LenProperties DEF ToSet
<1>3. ToSet(ruleCommittee.makers \o ruleCommittee.verifiers)
          = members("RuleMaker") \cup members("RuleVerifier")
    BY <1>1, MembersAreBoth
<1>4. \A a \in Agents, r \in Both :
          /\ a \in Accounts /\ bonds[a][r].left \in Nat
          /\ bonds[a][r].left > 0 => a \in members(r)
    <2>1. ASSUME NEW a \in Agents, NEW r \in Both
          PROVE  /\ a \in Accounts /\ bonds[a][r].left \in Nat
                 /\ bonds[a][r].left > 0 => a \in members(r)
        <3>1. a \in Accounts /\ r \in Roles
            BY DEF Accounts, Roles
        <3>2. bonds[a][r].left \in Nat /\ (~bonds[a][r].active => bonds[a][r].left = 0)
            BY <3>1 DEF StakeInv, Covered, BondRecords, Seated
        <3>3. bonds[a][r].active <=> a \in members(r)
            BY <1>1, <3>1 DEF StakeInv, Seated
        <3> QED BY <3>1, <3>2, <3>3
    <2> QED BY <2>1
<1>5. ASSUME NEW s \in slashes
      PROVE  \E r \in Both, a \in Agents : s = slash(a, r, named(a, r))
    <2>1. \E r \in Both :
              \/ \E a \in malicious(r) : s = slash(a, r, "rule-participant-slash")
              \/ \E a \in members(r) \ malicious(r) : s = slash(a, r, label(r))
        BY <1>5 DEF RuleSlashes
    <2> QED BY <1>2, <2>1
<1>6. \A a, r, l : /\ slash(a, r, l).agent = a /\ slash(a, r, l).role = r
                   /\ slash(a, r, l).amount = bonds[a][r].left
    BY DEF Slash
<1> HIDE DEF slash, members, named, slashes
<1>7. ASSUME NEW s \in slashes
      PROVE  /\ s.amount \in Nat
             /\ s.amount > 0 =>
                    /\ s.agent \in Accounts
                    /\ s.agent \in members("RuleMaker") \cup members("RuleVerifier")
                    /\ s.role \in Both
                    /\ s.amount <= bonds[s.agent][s.role].left
    <2>1. PICK r \in Both, a \in Agents : s = slash(a, r, named(a, r))
        BY <1>5
    <2>2. s.agent = a /\ s.role = r /\ s.amount = bonds[a][r].left
        BY <1>6, <2>1
    <2>3. a \in Accounts /\ bonds[a][r].left \in Nat
          /\ (bonds[a][r].left > 0 => a \in members(r))
        BY <1>4
    <2> QED BY <2>2, <2>3
<1>8. ASSUME NEW s \in slashes, NEW t \in slashes,
             s.amount > 0, t.amount > 0, s.agent = t.agent
      PROVE  s = t
    <2>1. PICK r \in Both, a \in Agents : s = slash(a, r, named(a, r))
        BY <1>5
    <2>2. PICK q \in Both, b \in Agents : t = slash(b, q, named(b, q))
        BY <1>5
    <2>3. a = b /\ bonds[a][r].left > 0 /\ bonds[a][q].left > 0
        BY <1>6, <1>8, <2>1, <2>2
    <2>4. a \in members(r) /\ a \in members(q)
        BY <1>4, <2>3
    <2>5. r = q
        BY <1>1, <2>4
    <2> QED BY <2>1, <2>2, <2>3, <2>5
<1> QED BY <1>3, <1>7, <1>8 DEF slashes

\* Registering a committee seats its members.
LEMMA RuleCommitteeSits ==
    ASSUME CustodyType, StatusInv, StakeInv, NEW committee \in RuleCommittees,
           registerRuleCommittee(committee)
    PROVE  StakeInv'
<1>1. ruleCommittee = NoRuleCommittee /\ ruleCommittee' = committee
      /\ resolutionCommittee' = resolutionCommittee /\ vault'.status = "RuleDrafting"
    BY DEF registerRuleCommittee, recordRuleCommittee, StatusInv, CommitteeMatchesStatus,
           CustodyType, VaultRecord
<1>2. ToSet(committee.makers) \cap ToSet(committee.verifiers) = {}
    <2>1. committee.makers \in Seq(Agents) /\ committee.verifiers \in Seq(Agents)
        BY CommitteesAreLists
    <2>2. IsInjective(committee.makers \o committee.verifiers)
        BY DEF registerRuleCommittee, recordRuleCommittee
    <2> QED BY <2>1, <2>2, ListsDiffer
<1>3. /\ LockBonds(committee.makers, "RuleMaker", committee.verifiers, "RuleVerifier")
      /\ fees \in FeeSchedules /\ Covered(bonds, stake)
      /\ \A a \in Accounts, p \in Roles : ~bonds[a][p].active => bonds[a][p].left = 0
      /\ {"RuleMaker", "RuleVerifier", "ResolutionValidator", "ResolutionAuditor"} = Roles
    BY DEF registerRuleCommittee, CustodyType, StakeInv, Seated, Roles
<1>4. /\ Covered(bonds', stake')
      /\ \A a \in Accounts, p \in Roles :
             bonds'[a][p] = IF \/ p = "RuleMaker" /\ a \in ToSet(committee.makers)
                               \/ p = "RuleVerifier" /\ a \in ToSet(committee.verifiers)
                            THEN [active |-> TRUE, left |-> fees.bond[p]]
                            ELSE bonds[a][p]
    BY <1>2, <1>3, LockingIsCovered
<1>5. Seated(ruleCommittee', resolutionCommittee', bonds')
    <2>1. /\ \A a \in Accounts :
                 /\ ~bonds[a]["RuleMaker"].active /\ ~bonds[a]["RuleVerifier"].active
                 /\ bonds[a]["ResolutionValidator"].active
                        <=> a \in ToSet(resolutionCommittee.validators)
                 /\ bonds[a]["ResolutionAuditor"].active
                        <=> a \in ToSet(resolutionCommittee.auditors)
          /\ bonds' \in BondRecords
        BY <1>1, <1>4, NobodySits DEF StakeInv, Seated, Covered
    <2>2. ASSUME NEW a \in Accounts
          PROVE  /\ bonds'[a]["RuleMaker"].active <=> a \in ToSet(committee.makers)
                 /\ bonds'[a]["RuleVerifier"].active <=> a \in ToSet(committee.verifiers)
                 /\ bonds'[a]["ResolutionValidator"].active
                        <=> a \in ToSet(resolutionCommittee.validators)
                 /\ bonds'[a]["ResolutionAuditor"].active
                        <=> a \in ToSet(resolutionCommittee.auditors)
        BY <1>4, <2>1 DEF Roles
    <2>3. ASSUME NEW a \in Accounts, NEW r \in Roles, ~bonds'[a][r].active
          PROVE  bonds'[a][r].left = 0
        <3> DEFINE sits == \/ r = "RuleMaker" /\ a \in ToSet(committee.makers)
                           \/ r = "RuleVerifier" /\ a \in ToSet(committee.verifiers)
        <3>1. bonds'[a][r] = IF sits THEN [active |-> TRUE, left |-> fees.bond[r]]
                             ELSE bonds[a][r]
            BY <1>4
        <3> HIDE DEF sits
        <3>2. bonds'[a][r] = bonds[a][r]
            BY <2>3, <3>1
        <3> QED BY <1>3, <2>3, <3>2
    <2> QED BY <1>1, <2>2, <2>3 DEF Seated
<1>6. DisqualifiedHasLost'
    BY <1>1 DEF DisqualifiedHasLost, RoundPhases, RevealPhases
<1> QED BY <1>4, <1>5, <1>6 DEF StakeInv

LEMMA ResolutionCommitteeSits ==
    ASSUME CustodyType, StatusInv, StakeInv, NEW committee \in ResolutionCommittees,
           registerResolutionCommittee(committee)
    PROVE  StakeInv'
<1>1. resolutionCommittee = NoResolutionCommittee /\ resolutionCommittee' = committee
      /\ ruleCommittee' = ruleCommittee /\ round' = EmptyRound
    BY DEF registerResolutionCommittee, recordResolutionCommittee, StatusInv,
           CommitteeMatchesStatus, RoundPhases, RevealPhases
<1>2. ToSet(committee.validators) \cap ToSet(committee.auditors) = {}
    <2>1. committee.validators \in Seq(Agents) /\ committee.auditors \in Seq(Agents)
        BY CommitteesAreLists
    <2>2. IsInjective(committee.validators \o committee.auditors)
        BY DEF registerResolutionCommittee, recordResolutionCommittee
    <2> QED BY <2>1, <2>2, ListsDiffer
<1>3. /\ LockBonds(committee.validators, "ResolutionValidator",
                   committee.auditors, "ResolutionAuditor")
      /\ fees \in FeeSchedules /\ Covered(bonds, stake)
      /\ \A a \in Accounts, p \in Roles : ~bonds[a][p].active => bonds[a][p].left = 0
      /\ {"RuleMaker", "RuleVerifier", "ResolutionValidator", "ResolutionAuditor"} = Roles
    BY DEF registerResolutionCommittee, CustodyType, StakeInv, Seated, Roles
<1>4. /\ Covered(bonds', stake')
      /\ \A a \in Accounts, p \in Roles :
             bonds'[a][p] = IF \/ p = "ResolutionValidator" /\ a \in ToSet(committee.validators)
                               \/ p = "ResolutionAuditor" /\ a \in ToSet(committee.auditors)
                            THEN [active |-> TRUE, left |-> fees.bond[p]]
                            ELSE bonds[a][p]
    BY <1>2, <1>3, LockingIsCovered
<1>5. Seated(ruleCommittee', resolutionCommittee', bonds')
    <2>1. /\ \A a \in Accounts :
                 /\ bonds[a]["RuleMaker"].active <=> a \in ToSet(ruleCommittee.makers)
                 /\ bonds[a]["RuleVerifier"].active <=> a \in ToSet(ruleCommittee.verifiers)
                 /\ ~bonds[a]["ResolutionValidator"].active
                 /\ ~bonds[a]["ResolutionAuditor"].active
          /\ bonds' \in BondRecords
        BY <1>1, <1>4, NobodySits DEF StakeInv, Seated, Covered
    <2>2. ASSUME NEW a \in Accounts
          PROVE  /\ bonds'[a]["RuleMaker"].active <=> a \in ToSet(ruleCommittee.makers)
                 /\ bonds'[a]["RuleVerifier"].active <=> a \in ToSet(ruleCommittee.verifiers)
                 /\ bonds'[a]["ResolutionValidator"].active
                        <=> a \in ToSet(committee.validators)
                 /\ bonds'[a]["ResolutionAuditor"].active
                        <=> a \in ToSet(committee.auditors)
        BY <1>4, <2>1 DEF Roles
    <2>3. ASSUME NEW a \in Accounts, NEW r \in Roles, ~bonds'[a][r].active
          PROVE  bonds'[a][r].left = 0
        <3> DEFINE sits == \/ r = "ResolutionValidator" /\ a \in ToSet(committee.validators)
                           \/ r = "ResolutionAuditor" /\ a \in ToSet(committee.auditors)
        <3>1. bonds'[a][r] = IF sits THEN [active |-> TRUE, left |-> fees.bond[r]]
                             ELSE bonds[a][r]
            BY <1>4
        <3> HIDE DEF sits
        <3>2. bonds'[a][r] = bonds[a][r]
            BY <2>3, <3>1
        <3> QED BY <1>3, <2>3, <3>2
    <2> QED BY <1>1, <2>2, <2>3 DEF Seated
<1>6. DisqualifiedHasLost'
    BY <1>1, EmptyRoundIsRound DEF DisqualifiedHasLost, Disqualified, Revealed
<1> QED BY <1>4, <1>5, <1>6 DEF StakeInv

\* Releasing two roles of the members of a committee empties its seats.
LEMMA RuleCommitteeLeaves ==
    ASSUME CustodyType, CommitteesInv, StakeInv,
           NEW approved \in MakerLists, NEW accepted \in VerifierLists,
           NEW maliciousMakers \in SUBSET Agents, NEW maliciousVerifiers \in SUBSET Agents,
           finalizeRuleSet(approved, accepted, maliciousMakers, maliciousVerifiers)
    PROVE  StakeInv'
<1> DEFINE slashes == RuleSlashes(maliciousMakers, maliciousVerifiers)
           members == ToSet(ruleCommittee.makers \o ruleCommittee.verifiers)
           Both == {"RuleMaker", "RuleVerifier"}
<1>1. /\ SlashAndRelease(slashes, members, Both) /\ ruleCommittee' = NoRuleCommittee
      /\ resolutionCommittee' = resolutionCommittee /\ vault'.status = "UserRuleReview"
    BY DEF finalizeRuleSet, CustodyType, VaultRecord
<1>2. /\ \A s \in slashes : s.amount \in Nat
      /\ \A s \in slashes : s.amount > 0 =>
             /\ s.agent \in Accounts \cap members /\ s.role \in Both
             /\ s.amount <= bonds[s.agent][s.role].left
      /\ \A s, t \in slashes : s.amount > 0 /\ t.amount > 0 /\ s.agent = t.agent => s = t
    <2> DEFINE all == RuleSlashes(maliciousMakers, maliciousVerifiers)
    <2>1. /\ \A s \in all :
                /\ s.amount \in Nat
                /\ s.amount > 0 =>
                       /\ s.agent \in Accounts
                       /\ s.agent \in ToSet(ruleCommittee.makers \o ruleCommittee.verifiers)
                       /\ s.role \in {"RuleMaker", "RuleVerifier"}
                       /\ s.amount <= bonds[s.agent][s.role].left
          /\ \A s, t \in all : s.amount > 0 /\ t.amount > 0 /\ s.agent = t.agent => s = t
        BY RuleSlashesFit, Zenon
    <2> QED BY <2>1
<1>3. Covered(bonds, stake) /\ Both \in SUBSET Roles
    BY DEF StakeInv, Roles
<1> HIDE DEF slashes
<1>4. Covered(bonds', stake')
    <2> HIDE DEF members, Both
    <2> QED BY <1>1, <1>2, <1>3, SlashingIsCovered
<1>5. Seated(ruleCommittee', resolutionCommittee', bonds')
    <2>1. /\ ruleCommittee.makers \in Seq(Agents) /\ ruleCommittee.verifiers \in Seq(Agents)
        BY DEF CommitteesInv
    <2>2. members = ToSet(ruleCommittee.makers) \cup ToSet(ruleCommittee.verifiers)
        BY <2>1, MembersAreBoth
    <2>3. /\ Seated(ruleCommittee, resolutionCommittee, bonds) /\ bonds \in BondRecords
        BY DEF StakeInv, Covered
    <2> HIDE DEF members
    <2>4. \A a \in Accounts, r \in Roles :
              bonds'[a][r] = IF a \in members /\ r \in Both THEN NoBond ELSE bonds[a][r]
        BY <1>1 DEF SlashAndRelease, Released
    <2>5. {"RuleMaker", "RuleVerifier", "ResolutionValidator", "ResolutionAuditor"} = Roles
        BY DEF Roles
    <2>6. ASSUME NEW a \in Accounts
          PROVE  /\ ~bonds'[a]["RuleMaker"].active /\ ~bonds'[a]["RuleVerifier"].active
                 /\ bonds'[a]["ResolutionValidator"].active
                        <=> a \in ToSet(resolutionCommittee.validators)
                 /\ bonds'[a]["ResolutionAuditor"].active
                        <=> a \in ToSet(resolutionCommittee.auditors)
        BY <2>2, <2>3, <2>4, <2>5 DEF Seated, NoBond
    <2>7. ASSUME NEW a \in Accounts, NEW r \in Roles, ~bonds'[a][r].active
          PROVE  bonds'[a][r].left = 0
        BY <2>3, <2>4, <2>7 DEF Seated, NoBond
    <2> QED BY <1>1, <2>6, <2>7, NobodySits DEF Seated
<1>6. DisqualifiedHasLost'
    BY <1>1 DEF DisqualifiedHasLost, RoundPhases, RevealPhases
<1> QED BY <1>4, <1>5, <1>6 DEF StakeInv

\* What finalizing a round takes from whom.
LEMMA RoundIsSlashed ==
    ASSUME CommitteesInv, StakeInv, finalizeV2Vault
    PROVE  /\ Covered(bonds', stake')
           /\ \A s \in ResolutionSlashes : stake'[s.agent] = stake[s.agent] - s.amount
           /\ \A a \in Accounts :
                  a \notin ToSet(resolutionCommittee.validators)
                      \cup ToSet(resolutionCommittee.auditors)
                  => stake'[a] = stake[a]
           /\ \A a \in Accounts, r \in Roles :
                  bonds'[a][r] =
                      IF /\ a \in ToSet(resolutionCommittee.validators)
                                \cup ToSet(resolutionCommittee.auditors)
                         /\ r \in {"ResolutionValidator", "ResolutionAuditor"}
                      THEN NoBond ELSE bonds[a][r]
<1> DEFINE members == ToSet(resolutionCommittee.validators \o resolutionCommittee.auditors)
           Both == {"ResolutionValidator", "ResolutionAuditor"}
<1>1. SlashAndRelease(ResolutionSlashes, members, Both)
    BY DEF finalizeV2Vault
<1>2. /\ \A s \in ResolutionSlashes :
             /\ s.amount \in Nat
             /\ s.agent \in Accounts \cap members /\ s.role \in Both
             /\ s.amount <= bonds[s.agent][s.role].left
      /\ \A s, t \in ResolutionSlashes : s.agent = t.agent => s = t
    BY ResolutionSlashesFit
<1>3. Covered(bonds, stake) /\ Both \in SUBSET Roles
    BY DEF StakeInv, Roles
<1>4. members = ToSet(resolutionCommittee.validators) \cup ToSet(resolutionCommittee.auditors)
    <2>1. /\ resolutionCommittee.validators \in Seq(Agents)
          /\ resolutionCommittee.auditors \in Seq(Agents)
        BY DEF CommitteesInv
    <2> QED BY <2>1, MembersAreBoth
<1> HIDE DEF members, Both
<1>5. /\ Covered(bonds', stake')
      /\ \A s \in ResolutionSlashes :
             s.amount > 0 => stake'[s.agent] = stake[s.agent] - s.amount
      /\ \A a \in Accounts :
             (\A s \in ResolutionSlashes : s.amount > 0 => s.agent # a) => stake'[a] = stake[a]
    <2>1. /\ \A s \in ResolutionSlashes : s.amount \in Nat
          /\ \A s \in ResolutionSlashes : s.amount > 0 =>
                 /\ s.agent \in Accounts \cap members /\ s.role \in Both
                 /\ s.amount <= bonds[s.agent][s.role].left
          /\ \A s, t \in ResolutionSlashes :
                 s.amount > 0 /\ t.amount > 0 /\ s.agent = t.agent => s = t
        BY <1>2
    <2> QED BY <1>1, <1>3, <2>1, SlashingIsCovered
<1>6. ASSUME NEW s \in ResolutionSlashes
      PROVE  stake'[s.agent] = stake[s.agent] - s.amount
    <2>1. s.agent \in Accounts /\ s.amount \in Nat /\ stake[s.agent] \in Nat
        BY <1>2, <1>3 DEF Covered
    <2>2. CASE s.amount = 0
        <3>1. \A t \in ResolutionSlashes : t.amount > 0 => t.agent # s.agent
            BY <1>2, <2>2
        <3>2. stake'[s.agent] = stake[s.agent]
            BY <1>5, <2>1, <3>1
        <3> QED BY <2>1, <2>2, <3>2
    <2> QED BY <1>5, <2>1, <2>2
<1>7. \A a \in Accounts : a \notin members => stake'[a] = stake[a]
    BY <1>2, <1>5
<1>8. \A a \in Accounts, r \in Roles :
          bonds'[a][r] = IF a \in members /\ r \in Both THEN NoBond ELSE bonds[a][r]
    BY <1>1 DEF SlashAndRelease, Released
<1> QED BY <1>4, <1>5, <1>6, <1>7, <1>8 DEF Both

LEMMA ResolutionCommitteeLeaves ==
    ASSUME CustodyType, CommitteesInv, StakeInv, finalizeV2Vault
    PROVE  StakeInv'
<1>1. resolutionCommittee' = NoResolutionCommittee /\ ruleCommittee' = ruleCommittee
    BY DEF finalizeV2Vault
<1>2. vault'.status \notin RoundPhases
    <2>1. CASE ~reachedConsensus /\ vault.resolutionRound < MAX_RESOLUTION_ROUNDS
        BY <2>1 DEF finalizeV2Vault, CustodyType, VaultRecord, RoundPhases, RevealPhases
    <2>2. CASE ~(~reachedConsensus /\ vault.resolutionRound < MAX_RESOLUTION_ROUNDS)
        <3>1. executeVaultOutcome(finalOutcome)
            BY <2>2 DEF finalizeV2Vault
        <3>2. vault'.status \in Resolved
            BY <3>1, FinalOutcomeIsOutcome, ExecutingResolves DEF Moves
        <3> QED BY <3>2 DEF Resolved, RoundPhases, RevealPhases
    <2> QED BY <2>1, <2>2
<1>3. /\ Covered(bonds', stake')
      /\ \A a \in Accounts, r \in Roles :
             bonds'[a][r] =
                 IF /\ a \in ToSet(resolutionCommittee.validators)
                           \cup ToSet(resolutionCommittee.auditors)
                    /\ r \in {"ResolutionValidator", "ResolutionAuditor"}
                 THEN NoBond ELSE bonds[a][r]
    BY RoundIsSlashed
<1>4. Seated(ruleCommittee', resolutionCommittee', bonds')
    <2>1. Seated(ruleCommittee, resolutionCommittee, bonds)
        BY DEF StakeInv
    <2>2. ASSUME NEW a \in Accounts
          PROVE  /\ ~bonds'[a]["ResolutionValidator"].active
                 /\ ~bonds'[a]["ResolutionAuditor"].active
                 /\ bonds'[a]["RuleMaker"].active <=> a \in ToSet(ruleCommittee.makers)
                 /\ bonds'[a]["RuleVerifier"].active <=> a \in ToSet(ruleCommittee.verifiers)
        BY <1>3, <2>1 DEF Seated, NoBond, Roles
    <2>3. ASSUME NEW a \in Accounts, NEW r \in Roles, ~bonds'[a][r].active
          PROVE  bonds'[a][r].left = 0
        BY <1>3, <2>1, <2>3 DEF Seated, NoBond
    <2> QED BY <1>1, <2>2, <2>3, NobodySits DEF Seated
<1>5. DisqualifiedHasLost'
    BY <1>2 DEF DisqualifiedHasLost
<1> QED BY <1>3, <1>4, <1>5 DEF StakeInv

\* The steps that leave bonds, committees and what was committed and revealed, and take no
\* locked stake.
StakesRest ==
    /\ UNCHANGED <<bonds, ruleCommittee, resolutionCommittee>>
    /\ stake' \in [Accounts -> Nat]
    /\ \A a \in Accounts : stake'[a] = stake[a] \/ stake'[a] >= LockedIn(bonds, a)
    /\ vault'.status \in RoundPhases =>
           vault.status \in RoundPhases /\ UNCHANGED <<round.commits, round.reveals>>

LEMMA RestingKeepsStakes == StakeInv /\ StakesRest => StakeInv'
<1> SUFFICES ASSUME StakeInv, StakesRest PROVE StakeInv'
    OBVIOUS
<1>1. ASSUME NEW a \in Accounts PROVE LockedIn(bonds, a) <= stake'[a]
    BY LockedIsNat DEF StakeInv, Covered, StakesRest
<1>2. Covered(bonds', stake')
    BY <1>1 DEF StakeInv, Covered, StakesRest
<1>3. Seated(ruleCommittee', resolutionCommittee', bonds')
    BY DEF StakeInv, StakesRest
<1>4. DisqualifiedHasLost'
    BY DEF StakeInv, StakesRest, DisqualifiedHasLost, Disqualified, Revealed
<1> QED BY <1>2, <1>3, <1>4 DEF StakeInv

\* A commitment, and a reveal with the slash it may cost.
LEMMA CommittingKeepsStakes ==
    ASSUME RoundInv, StakeInv, NEW a \in Agents, NEW commitment \in Commitments,
           commitResolution(a, commitment)
    PROVE  StakeInv'
<1>1. /\ UNCHANGED <<vault, ruleCommittee, resolutionCommittee, stake, bonds>>
      /\ recordCommit(a, commitment) /\ vault.status \in RoundPhases
    BY DEF commitResolution, committeeVars, stakingVars, RoundPhases, RevealPhases
<1>2. /\ round' = [round EXCEPT !.commits[a] = commitment] /\ ~Revealed(a)
      /\ round \in RoundRecord
    BY <1>1 DEF recordCommit, RoundInv
<1>3. /\ round'.reveals = round.reveals
      /\ \A b \in Agents : b # a => round'.commits[b] = round.commits[b]
    BY <1>2 DEF RoundRecord
<1>4. DisqualifiedHasLost'
    BY <1>1, <1>2, <1>3 DEF StakeInv, DisqualifiedHasLost, Disqualified, Revealed
<1>5. Covered(bonds', stake')
    BY <1>1 DEF StakeInv, Covered
<1> QED BY <1>1, <1>4, <1>5 DEF StakeInv

LEMMA RevealingKeepsStakes ==
    ASSUME RoundInv, StakeInv, NEW a \in Agents, NEW revealed \in Commitments,
           revealResolution(a, revealed)
    PROVE  StakeInv'
<1> DEFINE V == "ResolutionValidator"
           left == bonds[a][V].left
<1>1. /\ UNCHANGED <<ruleCommittee, resolutionCommittee>> /\ recordReveal(a, revealed)
      /\ vault.status \in RoundPhases /\ a \in Accounts /\ V \in Roles
    BY DEF revealResolution, committeeVars, RoundPhases, Accounts, Roles
<1>2. /\ round' = [round EXCEPT !.reveals[a] = revealed] /\ round \in RoundRecord
    BY <1>1 DEF recordReveal, RoundInv
<1>3. /\ round'.commits = round.commits /\ round'.reveals[a] = revealed
      /\ \A b \in Agents : b # a => round'.reveals[b] = round.reveals[b]
    BY <1>2 DEF RoundRecord
<1>4. /\ bonds \in BondRecords /\ left \in Nat /\ left <= LockedIn(bonds, a)
      /\ LockedIn(bonds, a) \in Nat /\ LockedIn(bonds, a) <= stake[a]
      /\ stake \in [Accounts -> Nat]
    BY <1>1, LockedIsNat DEF StakeInv, Covered
<1>5. MismatchSlash(a, revealed).amount = left
    BY DEF MismatchSlash, Slash
<1>6. CASE revealed = round.commits[a] \/ left = 0
    <2>1. UNCHANGED <<stake, bonds>>
        BY <1>5, <1>6 DEF revealResolution, stakingVars
    <2>2. DisqualifiedHasLost'
        BY <1>1, <1>3, <1>6, <2>1 DEF StakeInv, DisqualifiedHasLost, Disqualified, Revealed
    <2>3. Covered(bonds', stake')
        BY <2>1 DEF StakeInv, Covered
    <2> QED BY <1>1, <2>1, <2>2, <2>3 DEF StakeInv
<1>7. CASE ~(revealed = round.commits[a] \/ left = 0)
    <2>1. /\ stake' = [stake EXCEPT ![a] = @ - left]
          /\ bonds' = [bonds EXCEPT ![a][V].left = 0]
        BY <1>5, <1>7 DEF revealResolution
    <2>2. /\ Covered(bonds', stake') /\ bonds'[a][V].left = 0
          /\ \A b \in Accounts, r \in Roles :
                 /\ bonds'[b][r].active = bonds[b][r].active
                 /\ b # a \/ r # V => bonds'[b][r] = bonds[b][r]
        <3>1. /\ Covered(bonds, stake) /\ left + 0 = bonds[a][V].left /\ 0 \in Nat
              /\ bonds' = Spent(bonds, a, V, 0) /\ stake' = [stake EXCEPT ![a] = @ - left]
              /\ left \in Nat /\ a \in Accounts /\ V \in Roles
            BY <1>1, <1>4, <2>1 DEF StakeInv, Spent
        <3> HIDE DEF V, left
        <3> QED BY <3>1, OneSlashIsCovered, Zenon
    <2>7. Seated(ruleCommittee', resolutionCommittee', bonds')
        <3>1. \A b \in Accounts, r \in Roles : ~bonds'[b][r].active => bonds'[b][r].left = 0
            BY <2>2 DEF StakeInv, Seated
        <3>2. Seated(ruleCommittee, resolutionCommittee, bonds)
            BY DEF StakeInv
        <3> QED BY <1>1, <2>2, <3>1, <3>2 DEF Seated, Roles
    <2>8. DisqualifiedHasLost'
        <3>1. ASSUME NEW b \in Agents, Disqualified(b)' PROVE bonds'[b][V].left = 0
            <4>1. CASE b = a
                BY <2>2, <4>1
            <4>2. CASE b # a
                <5>1. b \in Accounts
                    BY DEF Accounts
                <5>2. bonds[b][V].left = 0
                    BY <1>1, <1>3, <3>1, <4>2
                    DEF StakeInv, DisqualifiedHasLost, Disqualified, Revealed
                <5> QED BY <1>1, <2>2, <4>2, <5>1, <5>2
            <4> QED BY <4>1, <4>2
        <3> QED BY <3>1 DEF DisqualifiedHasLost
    <2> QED BY <2>2, <2>7, <2>8 DEF StakeInv
<1> QED BY <1>6, <1>7

\* All other steps leave the bonds, and take nothing that is locked.
LEMMA OtherStepsRest ==
    ASSUME CustodyType, RoundInv, PoolInv, StakeInv, [Next]_vars,
           ~\E committee \in RuleCommittees : registerRuleCommittee(committee),
           ~\E committee \in ResolutionCommittees : registerResolutionCommittee(committee),
           ~\E approved \in MakerLists, accepted \in VerifierLists :
            \E maliciousMakers, maliciousVerifiers \in SUBSET Agents :
                finalizeRuleSet(approved, accepted, maliciousMakers, maliciousVerifiers),
           ~\E a \in Agents, commitment \in Commitments : commitResolution(a, commitment),
           ~\E a \in Agents, revealed \in Commitments : revealResolution(a, revealed),
           ~finalizeV2Vault
    PROVE  StakesRest
<1> USE DEF committeeVars, stakingVars
<1>0. /\ stake \in [Accounts -> Nat]
      /\ {"CommitPhase", "RevealPhase", "AuditPhase", "PublicChallenge"} = RoundPhases
      /\ round \in RoundRecord
      /\ vault \in VaultRecord
    BY DEF StakeInv, Covered, RoundPhases, RevealPhases, RoundInv, CustodyType
<1>1. CASE UNCHANGED vars
    BY <1>0, <1>1 DEF vars, StakesRest
<1>2. CASE RuleStep
    <2>1. /\ UNCHANGED <<bonds, stake, ruleCommittee, resolutionCommittee>>
          /\ vault'.status \notin RoundPhases
        BY <1>0, <1>2 DEF RuleStep, createVaultRequest, submitRuleDraft, submitRuleIssue,
                          rejectRuleSet, acceptRuleSetAndFund, VaultRecord
    <2> QED BY <1>0, <2>1 DEF StakesRest
<1>3. CASE ResolutionStep
    <2>0. /\ UNCHANGED <<bonds, stake, ruleCommittee, resolutionCommittee>>
          /\ vault'.status \in RoundPhases => vault.status \in RoundPhases
        BY <1>0, <1>3 DEF ResolutionStep, submitAuditVerdict, openPublicChallenge,
                          resolveChallenge
    <2>1. UNCHANGED <<round.commits, round.reveals>>
        <3>1. ASSUME NEW auditor \in Agents, NEW judged \in Judgeable, NEW verdict \in Verdicts,
                     submitAuditVerdict(auditor, judged, verdict)
              PROVE  UNCHANGED <<round.commits, round.reveals>>
            BY <1>0, <3>1 DEF submitAuditVerdict, recordAuditVerdict, RoundRecord
        <3>2. ASSUME NEW challenger \in Accounts, NEW target \in Agents,
                     openPublicChallenge(challenger, target)
              PROVE  UNCHANGED <<round.commits, round.reveals>>
            BY <1>0, <3>2 DEF openPublicChallenge, openChallenge, RoundRecord
        <3>3. ASSUME NEW id \in DOMAIN round.challenges, NEW successful \in BOOLEAN,
                     resolveChallenge(id, successful)
              PROVE  UNCHANGED <<round.commits, round.reveals>>
            BY <1>0, <3>3, ClosingKeepsTheRest DEF resolveChallenge
        <3> QED BY <1>3, <3>1, <3>2, <3>3 DEF ResolutionStep
    <2> QED BY <1>0, <2>0, <2>1 DEF StakesRest
<1>4. CASE LegacyStep
    <2>1. UNCHANGED <<bonds, stake, ruleCommittee, resolutionCommittee>>
        BY <1>4 DEF LegacyStep, createVaultAndDeposit, submitResolutionHash, markVaultDisputed,
                    finalizeVault
    <2>2. vault'.status \notin RoundPhases
        <3>1. ASSUME finalizeVault PROVE vault'.status \notin RoundPhases
            <4>1. resolution.outcome \in Outcomes /\ executeVaultOutcome(resolution.outcome)
                BY <3>1 DEF finalizeVault, CustodyType, ResolutionRecord
            <4>2. vault'.status \in Resolved
                BY <4>1, ExecutingResolves DEF Moves
            <4> QED BY <4>2 DEF Resolved, RoundPhases, RevealPhases
        <3> QED BY <1>0, <1>4, <3>1
                DEF LegacyStep, createVaultAndDeposit, submitResolutionHash, markVaultDisputed,
                    VaultRecord
    <2> QED BY <1>0, <2>1, <2>2 DEF StakesRest
<1>5. CASE SurroundingStep
    <2>0. UNCHANGED <<vault, bonds, round, ruleCommittee, resolutionCommittee>>
        BY <1>5 DEF SurroundingStep, claimRewards, claim, setPaused, setFees, moveStake,
                    reachSettlementTime, passDeadline, passDisputeWindow
    <2>1. ASSUME NEW a \in Claimants, claimRewards(a)
          PROVE  /\ stake' \in [Accounts -> Nat]
                 /\ \A b \in Accounts : stake'[b] = stake[b] \/ stake'[b] >= LockedIn(bonds, b)
        <3>1. a \in Accounts /\ pool.claimable[a] \in Nat
            BY BoundsAreNat DEF PoolInv, Balanced, PoolRecord
        <3>2. \E pov \in Nat : stake' = stake \/ stake' = [stake EXCEPT ![a] = @ + pov]
            <4>1. \E pov \in {pool.claimable[a], 0} :
                      stake' = stake \/ stake' = [stake EXCEPT ![a] = @ + pov]
                BY <2>1 DEF claimRewards, claim
            <4> QED BY <3>1, <4>1
        <3>3. PICK pov \in Nat : stake' = stake \/ stake' = [stake EXCEPT ![a] = @ + pov]
            BY <3>2
        <3>4. LockedIn(bonds, a) \in Nat /\ LockedIn(bonds, a) <= stake[a]
            BY <3>1, LockedIsNat DEF StakeInv, Covered
        <3> QED BY <1>0, <3>1, <3>3, <3>4
    <2>2. ASSUME NEW a \in Accounts, NEW level \in StakeLevels, moveStake(a, level)
          PROVE  /\ stake' \in [Accounts -> Nat]
                 /\ \A b \in Accounts : stake'[b] = stake[b] \/ stake'[b] >= LockedIn(bonds, b)
        BY <1>0, <2>2, StakesAreNat DEF moveStake, Locked, LockedIn
    <2>3. ASSUME ~\E a \in Claimants : claimRewards(a),
                 ~\E a \in Accounts, level \in StakeLevels : moveStake(a, level)
          PROVE  UNCHANGED stake
        BY <1>5, <2>3 DEF SurroundingStep, setPaused, setFees, reachSettlementTime,
                          passDeadline, passDisputeWindow
    <2> QED BY <1>0, <2>0, <2>1, <2>2, <2>3 DEF StakesRest
<1> QED BY <1>1, <1>2, <1>3, <1>4, <1>5 DEF Next

\* The bonds of an account are those of its seats, and its stake covers them.
THEOREM StakeIsInvariant == Spec => []StakeInv
<1>1. /\ CustodyInv /\ StatusInv /\ RecordsInv /\ PoolInv /\ StakeInv /\ [Next]_vars
      => StakeInv'
    <2> SUFFICES ASSUME CustodyInv, StatusInv, RecordsInv, PoolInv, StakeInv, [Next]_vars
                 PROVE  StakeInv'
        OBVIOUS
    <2>0. CustodyType /\ CommitteesInv /\ RoundInv
        BY DEF CustodyInv, RecordsInv
    <2>1. ASSUME NEW committee \in RuleCommittees, registerRuleCommittee(committee)
          PROVE  StakeInv'
        BY <2>0, <2>1, RuleCommitteeSits
    <2>2. ASSUME NEW committee \in ResolutionCommittees, registerResolutionCommittee(committee)
          PROVE  StakeInv'
        BY <2>0, <2>2, ResolutionCommitteeSits
    <2>3. ASSUME NEW approved \in MakerLists, NEW accepted \in VerifierLists,
                 NEW maliciousMakers \in SUBSET Agents, NEW maliciousVerifiers \in SUBSET Agents,
                 finalizeRuleSet(approved, accepted, maliciousMakers, maliciousVerifiers)
          PROVE  StakeInv'
        BY <2>0, <2>3, RuleCommitteeLeaves
    <2>4. ASSUME NEW a \in Agents, NEW commitment \in Commitments,
                 commitResolution(a, commitment)
          PROVE  StakeInv'
        BY <2>0, <2>4, CommittingKeepsStakes
    <2>5. ASSUME NEW a \in Agents, NEW revealed \in Commitments, revealResolution(a, revealed)
          PROVE  StakeInv'
        BY <2>0, <2>5, RevealingKeepsStakes
    <2>6. ASSUME finalizeV2Vault PROVE StakeInv'
        BY <2>0, <2>6, ResolutionCommitteeLeaves
    <2> QED BY <2>0, <2>1, <2>2, <2>3, <2>4, <2>5, <2>6, OtherStepsRest, RestingKeepsStakes
<1> QED BY <1>1, StakeInit, CustodyIsInvariant, StatusIsInvariant, RecordsAreInvariant,
           PoolIsInvariant, PTL DEF Spec

-----------------------------------------------------------------------------
\* The incidents slashes are charged to.

RoundLabels ==
    {"missing-resolution-submission", "resolution-validator-verdict",
     "missing-audit-verdict", "auditor-successful-challenge"}

\* The last round that has been closed.
LastClosed ==
    IF vault.status \in RoundPhases THEN vault.resolutionRound - 1 ELSE vault.resolutionRound

\* An incident of a round has been consumed by the end of the round, not before.
IncidentsOfRounds ==
    \A label \in RoundLabels : \A n, a, detail :
        <<label, n, a, detail>> \in incidents => n \in 0 .. LastClosed

LEMMA SlashesAreOfTheRound ==
    ASSUME CommitteesInv, StakeInv, NEW s \in ResolutionSlashes
    PROVE  \E label \in RoundLabels : \E a, detail :
               s.incident = <<label, vault.resolutionRound, a, detail>>
<1>1. /\ ToSet(resolutionCommittee.validators) \subseteq Accounts
      /\ ToSet(resolutionCommittee.auditors) \subseteq Accounts
    <2>1. /\ resolutionCommittee.validators \in Seq(Agents)
          /\ resolutionCommittee.auditors \in Seq(Agents)
        BY DEF CommitteesInv
    <2> QED BY <2>1, LenProperties DEF ToSet, Accounts
<1>2. \A a \in Accounts : /\ bonds[a]["ResolutionValidator"].left \in Nat
                          /\ bonds[a]["ResolutionAuditor"].left \in Nat
    BY DEF StakeInv, Covered, BondRecords, Roles
<1>3. ASSUME NEW a \in ToSet(resolutionCommittee.validators), s = ValidatorSlash(a)
      PROVE  \E label \in RoundLabels : \E b, detail :
                 s.incident = <<label, vault.resolutionRound, b, detail>>
    <2>1. \/ s.incident
                 = RoundIncident("missing-resolution-submission", a, "ResolutionValidator")
          \/ s.incident = RoundIncident("resolution-validator-verdict", a, consensusVerdict(a))
        BY <1>1, <1>2, <1>3, ValidatorSlashFits
    <2>2. \E label \in RoundLabels : \E detail : s.incident = RoundIncident(label, a, detail)
        BY <2>1 DEF RoundLabels
    <2> QED BY <2>2, Zenon DEF RoundIncident
<1>4. ASSUME NEW b \in ToSet(resolutionCommittee.auditors), s = AuditorSlash(b)
      PROVE  \E label \in RoundLabels : \E a, detail :
                 s.incident = <<label, vault.resolutionRound, a, detail>>
    <2>1. \E label \in {"missing-audit-verdict", "auditor-successful-challenge"} :
              s.incident = RoundIncident(label, b, "ResolutionAuditor")
        BY <1>1, <1>2, <1>4, AuditorSlashFits
    <2>2. \E label \in RoundLabels : s.incident = RoundIncident(label, b, "ResolutionAuditor")
        BY <2>1 DEF RoundLabels
    <2> QED BY <2>2, Zenon DEF RoundIncident
<1> QED BY <1>3, <1>4 DEF ResolutionSlashes

\* Only closing a round consumes incidents of rounds, and only its own.
LEMMA IncidentsOfOneRound ==
    ASSUME CommitteesInv, StakeInv, [Next]_vars,
           NEW label \in RoundLabels, NEW n, NEW a, NEW detail,
           <<label, n, a, detail>> \in incidents', <<label, n, a, detail>> \notin incidents
    PROVE  finalizeV2Vault /\ n = vault.resolutionRound
<1> DEFINE i == <<label, n, a, detail>>
<1>0. incidents' # incidents
    OBVIOUS
<1>1. ASSUME finalizeV2Vault PROVE n = vault.resolutionRound
    <2>1. incidents' = incidents \cup {s.incident : s \in {t \in ResolutionSlashes : t.amount > 0}}
        BY <1>1 DEF finalizeV2Vault, SlashAndRelease
    <2>2. PICK s \in ResolutionSlashes : s.incident = <<label, n, a, detail>>
        BY <2>1
    <2>3. PICK l \in RoundLabels : \E b, d : s.incident = <<l, vault.resolutionRound, b, d>>
        BY SlashesAreOfTheRound
    <2> QED BY <2>2, <2>3
<1>2. ASSUME NEW approved \in MakerLists, NEW accepted \in VerifierLists,
             NEW maliciousMakers \in SUBSET Agents, NEW maliciousVerifiers \in SUBSET Agents,
             finalizeRuleSet(approved, accepted, maliciousMakers, maliciousVerifiers)
      PROVE  FALSE
    <2> DEFINE all == RuleSlashes(maliciousMakers, maliciousVerifiers)
    <2>1. incidents' = incidents \cup {s.incident : s \in {t \in all : t.amount > 0}}
        BY <1>2 DEF finalizeRuleSet, SlashAndRelease
    <2>2. ASSUME NEW s \in all
          PROVE  \E l \in {"rule-participant-slash", "missing-rule-draft", "missing-rule-issue"} :
                 \E m, b, d : s.incident = <<l, m, b, d>>
        BY DEF RuleSlashes, Slash
    <2> HIDE DEF all
    <2>3. PICK s \in all : s.incident = <<label, n, a, detail>>
        BY <2>1
    <2>4. PICK l \in {"rule-participant-slash", "missing-rule-draft", "missing-rule-issue"} :
              \E m, b, d : s.incident = <<l, m, b, d>>
        BY <2>2
    <2>5. l = label
        BY <2>3, <2>4
    <2> QED BY <2>5 DEF RoundLabels
<1>3. ASSUME NEW b \in Agents, NEW revealed \in Commitments, revealResolution(b, revealed)
      PROVE  FALSE
    <2>1. \/ incidents' = incidents
          \/ incidents' = incidents \cup {MismatchSlash(b, revealed).incident}
        BY <1>3 DEF revealResolution, stakingVars
    <2>2. MismatchSlash(b, revealed).incident
              = <<"commit-reveal-mismatch", b, round.commits[b], revealed>>
        BY DEF MismatchSlash, Slash
    <2>3. <<label, n, a, detail>>
              = <<"commit-reveal-mismatch", b, round.commits[b], revealed>>
        BY <2>1, <2>2
    <2>4. label = "commit-reveal-mismatch"
        BY <2>3
    <2> QED BY <2>4 DEF RoundLabels
<1>4. CASE UNCHANGED vars
    BY <1>0, <1>4 DEF vars, stakingVars
<1>5. CASE RuleStep
    BY <1>0, <1>2, <1>5 DEF RuleStep, createVaultRequest, registerRuleCommittee, LockBonds,
        submitRuleDraft, submitRuleIssue, rejectRuleSet, acceptRuleSetAndFund, stakingVars
<1>6. CASE ResolutionStep
    BY <1>0, <1>1, <1>3, <1>6 DEF ResolutionStep, registerResolutionCommittee, LockBonds,
        commitResolution, submitAuditVerdict, openPublicChallenge, resolveChallenge, stakingVars
<1>7. CASE LegacyStep
    BY <1>0, <1>7 DEF LegacyStep, createVaultAndDeposit, submitResolutionHash,
        markVaultDisputed, finalizeVault, stakingVars
<1>8. CASE SurroundingStep
    BY <1>0, <1>8 DEF SurroundingStep, claimRewards, claim, setPaused, setFees, moveStake,
        reachSettlementTime, passDeadline, passDisputeWindow, stakingVars
<1> QED BY <1>4, <1>5, <1>6, <1>7, <1>8 DEF Next

LEMMA RoundsCloseForGood ==
    ASSUME CustodyType, CustodyType', Move
    PROVE  LastClosed \in Int /\ LastClosed' \in Int /\ LastClosed <= LastClosed'
<1>1. /\ vault.resolutionRound \in Nat /\ vault'.resolutionRound \in Nat
      /\ vault.status \in VaultStatus
    BY DEF CustodyType, VaultRecord
<1> USE DEF RoundPhases, RevealPhases, Resolved, LastClosed
<1>2. CASE UNCHANGED vault
    BY <1>1, <1>2
<1>3. CASE RuleMove
    BY <1>1, <1>3 DEF RuleMove, Moves
<1>4. CASE RoundMove
    BY <1>1, <1>4 DEF RoundMove, Moves
<1>5. CASE Resolves
    BY <1>1, <1>5 DEF Resolves, Moves
<1>6. CASE Debates
    BY <1>1, <1>6 DEF Debates, Moves
<1> QED BY <1>2, <1>3, <1>4, <1>5, <1>6 DEF Move

\* Finalizing closes the round.
LEMMA FinalizingCloses ==
    ASSUME CustodyType, finalizeV2Vault
    PROVE  /\ vault.status \in RoundPhases /\ vault'.status \notin RoundPhases
           /\ vault'.resolutionRound = vault.resolutionRound
           /\ UNCHANGED round
<1>1. vault.status \in RoundPhases /\ UNCHANGED round
    BY DEF finalizeV2Vault, FinalizableStatuses
<1>2. CASE ~reachedConsensus /\ vault.resolutionRound < MAX_RESOLUTION_ROUNDS
    BY <1>1, <1>2 DEF finalizeV2Vault, CustodyType, VaultRecord, RoundPhases, RevealPhases
<1>3. CASE ~(~reachedConsensus /\ vault.resolutionRound < MAX_RESOLUTION_ROUNDS)
    <2>1. executeVaultOutcome(finalOutcome)
        BY <1>3 DEF finalizeV2Vault
    <2>2. Moves(RoundPhases, Resolved, 0, 0, 0)
        BY <1>1, <2>1, FinalOutcomeIsOutcome, ExecutingResolves
    <2> QED BY <1>1, <2>2 DEF Moves, Resolved, RoundPhases, RevealPhases, CustodyType,
                              VaultRecord
<1> QED BY <1>2, <1>3

\* The incidents of a round are consumed at its end.
THEOREM IncidentsAreInvariant == Spec => []IncidentsOfRounds
<1>1. Init => IncidentsOfRounds
    BY DEF Init, BaseInit, IncidentsOfRounds
<1>2. /\ CustodyInv /\ CustodyInv' /\ RecordsInv /\ StakeInv /\ IncidentsOfRounds
      /\ [Next]_vars
      => IncidentsOfRounds'
    <2> SUFFICES ASSUME CustodyInv, CustodyInv', RecordsInv, StakeInv, IncidentsOfRounds,
                        [Next]_vars,
                        NEW label \in RoundLabels, NEW n, NEW a, NEW detail,
                        <<label, n, a, detail>> \in incidents'
                 PROVE  n \in 0 .. LastClosed'
        BY DEF IncidentsOfRounds
    <2>1. LastClosed \in Int /\ LastClosed' \in Int /\ LastClosed <= LastClosed'
        BY EveryStepMoves, RoundsCloseForGood DEF CustodyInv
    <2>2. CASE <<label, n, a, detail>> \in incidents
        BY <2>1, <2>2 DEF IncidentsOfRounds
    <2>3. CASE <<label, n, a, detail>> \notin incidents
        <3>1. finalizeV2Vault /\ n = vault.resolutionRound
            BY <2>3, IncidentsOfOneRound DEF RecordsInv
        <3>2. LastClosed' = vault.resolutionRound /\ vault.resolutionRound \in Nat
            BY <3>1, FinalizingCloses DEF CustodyInv, CustodyType, VaultRecord, LastClosed
        <3> QED BY <3>1, <3>2
    <2> QED BY <2>2, <2>3
<1> QED BY <1>1, <1>2, CustodyIsInvariant, RecordsAreInvariant, StakeIsInvariant, PTL
        DEF Spec

-----------------------------------------------------------------------------
\* The evidence a round ends on.

\* More than two thirds of a finite set are somebody.
LEMMA MajoritiesExist ==
    ASSUME NEW S, IsFiniteSet(S), NEW T \in SUBSET S, Cardinality(T) * 3 > Cardinality(S) * 2
    PROVE  \E x \in T : TRUE
<1> SUFFICES ASSUME T = {} PROVE FALSE
    OBVIOUS
<1>1. Cardinality(T) = 0
    BY FS_EmptySet
<1>2. Cardinality(S) \in Nat
    BY FS_CardinalityType
<1> QED BY <1>1, <1>2

\* Somebody is on record with an unchallenged reveal of its commitment to an outcome, which
\* an unchallenged auditor judged Valid.
Evidence(outcome) ==
    \E a, b \in Agents :
        /\ round.commits[a].outcome = outcome
        /\ round.reveals[a] = round.commits[a]
        /\ round.verdicts[a][b] = "Valid"
        /\ ~hasSuccessfulChallengeAgainst(a)
        /\ ~hasSuccessfulChallengeAgainst(b)

LEMMA ConsensusHasEvidence ==
    ASSUME CommitteesInv, reachedConsensus
    PROVE  Evidence(finalOutcome)
<1> DEFINE V == ToSet(resolutionCommittee.validators)
           A == ToSet(resolutionCommittee.auditors)
<1>1. V \subseteq Agents /\ A \subseteq Agents /\ IsFiniteSet(V) /\ IsFiniteSet(A)
    <2>1. /\ resolutionCommittee.validators \in Seq(Agents)
          /\ resolutionCommittee.auditors \in Seq(Agents)
        BY DEF CommitteesInv
    <2>2. IsFiniteSet(V) /\ IsFiniteSet(A)
        BY <2>1, ListsAreFinite
    <2> QED BY <2>1, <2>2, LenProperties DEF ToSet
<1>2. Supported(finalOutcome)
    BY DEF reachedConsensus, finalOutcome
<1>3. PICK a \in Counted : round.reveals[a].outcome = finalOutcome
    <2> DEFINE T == {a \in Counted : round.reveals[a].outcome = finalOutcome}
    <2>1. IsFiniteSet(Counted)
        <3>1. Counted \subseteq V
            BY DEF Counted
        <3> QED BY <1>1, <3>1, FS_Subset
    <2>2. T \in SUBSET Counted /\ Cardinality(T) * 3 > Cardinality(Counted) * 2
        BY <1>2 DEF Supported
    <2> HIDE DEF T
    <2>3. \E a \in T : TRUE
        BY <2>1, <2>2, MajoritiesExist
    <2> QED BY <2>3 DEF T
<1>4. a \in V /\ Qualified(a) /\ consensusVerdict(a) = "Valid"
    BY DEF Counted
<1>5. ~hasSuccessfulChallengeAgainst(a) /\ effectiveAuditVerdict(a) = "Valid"
    BY <1>4 DEF consensusVerdict
<1>6. agreedVerdict(a, "Valid")
    <2>1. \E verdict \in Verdicts : agreedVerdict(a, verdict)
        BY <1>5 DEF effectiveAuditVerdict
    <2> DEFINE agreed == CHOOSE verdict \in Verdicts : agreedVerdict(a, verdict)
    <2>2. agreedVerdict(a, agreed)
        BY <2>1
    <2>3. agreed = "Valid"
        BY <1>5, <2>1 DEF effectiveAuditVerdict
    <2> HIDE DEF agreed
    <2> QED BY <2>2, <2>3
<1>7. PICK b \in consideredAuditors(a) : round.verdicts[a][b] = "Valid"
    <2> DEFINE S == consideredAuditors(a)
               T == {b \in S : round.verdicts[a][b] = "Valid"}
    <2>1. IsFiniteSet(S)
        <3>1. S \subseteq A
            BY DEF consideredAuditors
        <3> QED BY <1>1, <3>1, FS_Subset
    <2>2. T \in SUBSET S /\ Cardinality(T) * 3 > Cardinality(S) * 2
        BY <1>6 DEF agreedVerdict
    <2> HIDE DEF T, S
    <2>3. \E b \in T : TRUE
        BY <2>1, <2>2, MajoritiesExist
    <2> QED BY <2>3 DEF T, S
<1>8. b \in A /\ ~hasSuccessfulChallengeAgainst(b)
    BY DEF consideredAuditors
<1>9. round.reveals[a] = round.commits[a] /\ round.commits[a].outcome = finalOutcome
    BY <1>3, <1>4 DEF Qualified, Disqualified
<1> QED BY <1>1, <1>4, <1>5, <1>7, <1>8, <1>9 DEF Evidence

\* No call but finalizeV2Vault ends a round.
LEMMA OnlyFinalizingCloses ==
    ASSUME CustodyType, [Next]_vars, vault.status \in RoundPhases,
           vault'.status \notin RoundPhases
    PROVE  finalizeV2Vault
<1>0. /\ {"CommitPhase", "RevealPhase", "AuditPhase", "PublicChallenge"} = RoundPhases
      /\ {"Absent", "RuleAuction", "RuleDrafting", "UserRuleReview", "Active",
          "ResolutionAuction", "Resolving", "Disputed"} \cap RoundPhases = {}
      /\ vault \in VaultRecord
    BY DEF RoundPhases, RevealPhases, CustodyType
<1>1. ~UNCHANGED vault
    OBVIOUS
<1>2. CASE UNCHANGED vars
    BY <1>1, <1>2 DEF vars
<1>3. CASE RuleStep
    BY <1>0, <1>1, <1>3 DEF RuleStep, createVaultRequest, registerRuleCommittee,
        submitRuleDraft, submitRuleIssue, finalizeRuleSet, rejectRuleSet, acceptRuleSetAndFund
<1>4. CASE ResolutionStep
    BY <1>0, <1>1, <1>4 DEF ResolutionStep, registerResolutionCommittee, commitResolution,
        revealResolution, submitAuditVerdict, openPublicChallenge, resolveChallenge, VaultRecord
<1>5. CASE LegacyStep
    BY <1>0, <1>5 DEF LegacyStep, createVaultAndDeposit, submitResolutionHash, AcceptsHashes,
        markVaultDisputed, finalizeVault
<1>6. CASE SurroundingStep
    BY <1>1, <1>6 DEF SurroundingStep, claimRewards, claim, setPaused, setFees, moveStake,
        reachSettlementTime, passDeadline, passDisputeWindow
<1> QED BY <1>2, <1>3, <1>4, <1>5, <1>6 DEF Next

\* The record of a round stays when the vault is resolved.
LEMMA RecordsStay ==
    ASSUME RoundInv, RoundChange, vault.status \in Resolved, UNCHANGED vault
    PROVE  UNCHANGED round
<1>1. vault.status \notin RoundPhases \cup {"Active", "ResolutionAuction"}
    BY DEF Resolved, RoundPhases, RevealPhases
<1>2. ASSUME NEW id \in DOMAIN round.challenges, NEW successful \in BOOLEAN,
             closeChallenge(id, successful)
      PROVE  FALSE
    BY <1>1, <1>2, ClosingKeepsTheRest DEF RoundInv
<1> QED BY <1>1, <1>2 DEF RoundChange

\* A committee takes the setter's collateral only on evidence, which stays on record
\* (CollateralTakenOnEvidence).
THEOREM TakenOnEvidence == Spec => []CollateralTakenOnEvidence
<1>1. Init => CollateralTakenOnEvidence
    BY DEF Init, BaseInit, CollateralTakenOnEvidence
<1>2. /\ CustodyInv /\ CustodyInv' /\ StatusInv /\ RecordsInv /\ CollateralTakenOnEvidence
      /\ [Next]_vars
      => CollateralTakenOnEvidence'
    <2> SUFFICES ASSUME CustodyInv, CustodyInv', StatusInv, RecordsInv,
                        CollateralTakenOnEvidence, [Next]_vars,
                        vault'.status = "ResolvedFalse", vault'.resolutionRound > 0
                 PROVE  Evidence("False")'
        BY DEF CollateralTakenOnEvidence, Evidence
    <2>0. /\ CustodyType /\ CommitteesInv /\ RoundInv /\ RoundChange
          /\ "ResolvedFalse" \in Resolved
        BY EveryStepChanges DEF CustodyInv, RecordsInv, Changes, Resolved
    <2>1. CASE vault.status \in Resolved
        <3>1. resolution.finalized
            BY <2>1 DEF CustodyInv, EscrowMatchesStatus
        <3>2. UNCHANGED vault
            BY <3>1, StepKinds, FinalStays DEF CustodyInv
        <3>3. UNCHANGED round
            BY <2>0, <2>1, <3>2, RecordsStay
        <3>4. Evidence("False")
            BY <3>2 DEF CollateralTakenOnEvidence, Evidence
        <3> QED BY <3>3, <3>4 DEF Evidence, hasSuccessfulChallengeAgainst
    <2>2. CASE vault.status \in RoundPhases
        <3>1. vault'.status \notin RoundPhases
            BY DEF RoundPhases, RevealPhases
        <3>2. finalizeV2Vault
            BY <2>0, <2>2, <3>1, OnlyFinalizingCloses
        <3>3. ~(~reachedConsensus /\ vault.resolutionRound < MAX_RESOLUTION_ROUNDS)
            BY <2>0, <3>2 DEF finalizeV2Vault, CustodyType, VaultRecord
        <3>4. executeVaultOutcome(finalOutcome)
            BY <3>2, <3>3 DEF finalizeV2Vault
        <3>5. StatusOf(finalOutcome) = "ResolvedFalse"
            BY <2>0, <3>4 DEF executeVaultOutcome, CustodyType, VaultRecord
        <3>6. finalOutcome = "False"
            BY <3>5, FinalOutcomeIsOutcome DEF StatusOf, Outcomes
        <3>7. reachedConsensus
            BY <3>6 DEF finalOutcome
        <3>8. Evidence("False")
            BY <2>0, <3>6, <3>7, ConsensusHasEvidence
        <3>9. UNCHANGED round
            BY <2>0, <3>2, FinalizingCloses
        <3> QED BY <3>8, <3>9 DEF Evidence, hasSuccessfulChallengeAgainst
    <2>3. CASE vault.status \notin Resolved \cup RoundPhases
        <3>1. Move
            BY <2>0, EveryStepMoves
        <3>2. vault.status \in {"Resolving", "Disputed"}
              /\ vault'.resolutionRound = vault.resolutionRound + 0
            BY <2>3, <3>1 DEF Move, RuleMove, RoundMove, Resolves, Debates, Moves, Resolved,
                              RoundPhases, RevealPhases
        <3>3. vault.resolutionRound = 0
            BY <3>2 DEF StatusInv, RoundsCounted
        <3> QED BY <3>2, <3>3
    <2> QED BY <2>1, <2>2, <2>3
<1> QED BY <1>1, <1>2, CustodyIsInvariant, StatusIsInvariant, RecordsAreInvariant, PTL
        DEF Spec

-----------------------------------------------------------------------------
\* What the end of a round costs and earns its members.

\* A validator loses the amount of its slash and no more.
LEMMA ValidatorIsSlashed ==
    ASSUME CommitteesInv, StakeInv, finalizeV2Vault,
           NEW a \in ToSet(resolutionCommittee.validators)
    PROVE  /\ a \in Agents /\ a \in Accounts
           /\ stake[a] \in Nat /\ bonds[a]["ResolutionValidator"].left \in Nat
           /\ ValidatorSlash(a).amount \in 0 .. bonds[a]["ResolutionValidator"].left
           /\ stake'[a] = stake[a] - ValidatorSlash(a).amount
<1>1. a \in Agents
    BY LenProperties DEF CommitteesInv, ToSet
<1>2. a \in Accounts /\ stake[a] \in Nat /\ bonds[a]["ResolutionValidator"].left \in Nat
    BY <1>1 DEF Accounts, StakeInv, Covered, BondRecords, Roles
<1>3. /\ ValidatorSlash(a).agent = a
      /\ ValidatorSlash(a).amount \in 0 .. bonds[a]["ResolutionValidator"].left
    BY <1>2, ValidatorSlashFits
<1>4. ValidatorSlash(a) \in ResolutionSlashes
    BY DEF ResolutionSlashes
<1>5. stake'[ValidatorSlash(a).agent] = stake[ValidatorSlash(a).agent] - ValidatorSlash(a).amount
    BY <1>4, RoundIsSlashed
<1> QED BY <1>1, <1>2, <1>3, <1>5

LEMMA AuditorIsSlashed ==
    ASSUME CommitteesInv, StakeInv, finalizeV2Vault,
           NEW b \in ToSet(resolutionCommittee.auditors)
    PROVE  /\ b \in Agents /\ stake[b] \in Nat
           /\ AuditorSlash(b).amount \in Nat
           /\ stake'[b] = stake[b] - AuditorSlash(b).amount
<1>1. b \in Agents
    BY LenProperties DEF CommitteesInv, ToSet
<1>2. b \in Accounts /\ stake[b] \in Nat /\ bonds[b]["ResolutionAuditor"].left \in Nat
    BY <1>1 DEF Accounts, StakeInv, Covered, BondRecords, Roles
<1>3. /\ AuditorSlash(b).agent = b
      /\ AuditorSlash(b).amount \in 0 .. bonds[b]["ResolutionAuditor"].left
    BY <1>2, AuditorSlashFits
<1>4. AuditorSlash(b) \in ResolutionSlashes
    BY DEF ResolutionSlashes
<1>5. stake'[AuditorSlash(b).agent] = stake[AuditorSlash(b).agent] - AuditorSlash(b).amount
    BY <1>4, RoundIsSlashed
<1> QED BY <1>1, <1>2, <1>3, <1>5

\* Which validator's slash is how much.
LEMMA ValidatorSlashAmount ==
    ASSUME NEW a
    PROVE  LET left == bonds[a]["ResolutionValidator"].left
               amount == ValidatorSlash(a).amount
           IN  /\ MissingSubmission(a) => amount = left
               /\ ~MissingSubmission(a) /\ Disqualified(a) => amount = 0
               /\ ~MissingSubmission(a) /\ consensusVerdict(a) \notin {"Invalid", "Malicious"}
                  => amount = 0
<1> DEFINE left == bonds[a]["ResolutionValidator"].left
           verdict == consensusVerdict(a)
           taken == CASE Disqualified(a) -> 0
                      [] ~Disqualified(a) /\ verdict = "Malicious" -> left
                      [] ~Disqualified(a) /\ verdict = "Invalid" -> left \div 2
                      [] OTHER -> 0
<1>1. CASE MissingSubmission(a)
    <2>1. ValidatorSlash(a) = Slash(a, "ResolutionValidator", left,
              RoundIncident("missing-resolution-submission", a, "ResolutionValidator"))
        BY <1>1 DEF ValidatorSlash
    <2> QED BY <1>1, <2>1 DEF Slash
<1>2. CASE ~MissingSubmission(a)
    <2>1. ValidatorSlash(a) = Slash(a, "ResolutionValidator", taken,
              RoundIncident("resolution-validator-verdict", a, verdict))
        BY <1>2 DEF ValidatorSlash
    <2>2. ValidatorSlash(a).amount = taken
        BY <2>1 DEF Slash
    <2>3. Disqualified(a) => taken = 0
        OBVIOUS
    <2>4. verdict \notin {"Invalid", "Malicious"} => taken = 0
        OBVIOUS
    <2> HIDE DEF taken
    <2> QED BY <1>2, <2>2, <2>3, <2>4
<1> QED BY <1>1, <1>2

\* A validator who committed and did not reveal, or revealed something else, has lost its
\* whole bond by the time the round is closed (FaultCostsTheBond).
THEOREM FaultsCostBonds == Spec => FaultCostsTheBond
<1>1. CustodyInv /\ RecordsInv /\ StakeInv /\ [Next]_vars => FaultCostsTheBondStep
    <2> SUFFICES ASSUME CustodyInv, RecordsInv, StakeInv, [Next]_vars,
                        vault.status \in RoundPhases, vault'.status \notin RoundPhases,
                        NEW a \in ToSet(resolutionCommittee.validators), ~Qualified(a)
                 PROVE  /\ stake'[a] = stake[a] - bonds[a]["ResolutionValidator"].left
                        /\ Disqualified(a) => bonds[a]["ResolutionValidator"].left = 0
        BY DEF FaultCostsTheBondStep
    <2>1. finalizeV2Vault
        BY OnlyFinalizingCloses DEF CustodyInv
    <2>2. /\ a \in Agents
          /\ stake[a] \in Nat /\ bonds[a]["ResolutionValidator"].left \in Nat
          /\ ValidatorSlash(a).amount \in 0 .. bonds[a]["ResolutionValidator"].left
          /\ stake'[a] = stake[a] - ValidatorSlash(a).amount
        BY <2>1, ValidatorIsSlashed DEF RecordsInv
    <2>3. Disqualified(a) => bonds[a]["ResolutionValidator"].left = 0
        BY <2>2 DEF StakeInv, DisqualifiedHasLost
    <2>4. ~Revealed(a) => ValidatorSlash(a).amount = bonds[a]["ResolutionValidator"].left
        BY ValidatorSlashAmount DEF MissingSubmission
    <2> QED BY <2>2, <2>3, <2>4 DEF Qualified
<1> QED BY <1>1, CustodyIsInvariant, RecordsAreInvariant, StakeIsInvariant, PTL
        DEF Spec, FaultCostsTheBond

\* An agreed verdict is that of some auditor.
LEMMA AgreedIsSomebodys ==
    ASSUME CommitteesInv, NEW a, NEW verdict, agreedVerdict(a, verdict)
    PROVE  \E b \in Agents : round.verdicts[a][b] = verdict
<1> DEFINE A == ToSet(resolutionCommittee.auditors)
           S == consideredAuditors(a)
           T == {b \in S : round.verdicts[a][b] = verdict}
<1>1. A \subseteq Agents /\ IsFiniteSet(A)
    <2>1. resolutionCommittee.auditors \in Seq(Agents)
        BY DEF CommitteesInv
    <2>2. IsFiniteSet(A)
        BY <2>1, ListsAreFinite
    <2> QED BY <2>1, <2>2, LenProperties DEF ToSet
<1>2. S \subseteq A
    BY DEF consideredAuditors
<1>3. T \in SUBSET S /\ Cardinality(T) * 3 > Cardinality(S) * 2
    BY DEF agreedVerdict
<1> HIDE DEF A, S, T
<1>4. IsFiniteSet(S)
    BY <1>1, <1>2, FS_Subset
<1>5. \E b \in T : TRUE
    BY <1>3, <1>4, MajoritiesExist
<1> QED BY <1>1, <1>2, <1>5 DEF T

\* A validator whose reveal matches its commitment keeps its stake, unless an auditor called
\* it Invalid or Malicious or a challenge against it succeeded (DisagreementIsNotSlashed).
THEOREM DisagreementCostsNothing == Spec => DisagreementIsNotSlashed
<1>1. CustodyInv /\ RecordsInv /\ StakeInv /\ [Next]_vars => DisagreementIsNotSlashedStep
    <2> SUFFICES ASSUME CustodyInv, RecordsInv, StakeInv, [Next]_vars,
                        vault.status \in RoundPhases, vault'.status \notin RoundPhases,
                        NEW a \in ToSet(resolutionCommittee.validators),
                        Qualified(a), ~hasSuccessfulChallengeAgainst(a),
                        \A b \in Agents : round.verdicts[a][b] \notin {"Invalid", "Malicious"}
                 PROVE  stake'[a] >= stake[a]
        BY DEF DisagreementIsNotSlashedStep
    <2>1. finalizeV2Vault
        BY OnlyFinalizingCloses DEF CustodyInv
    <2>2. a \in Agents /\ stake[a] \in Nat /\ stake'[a] = stake[a] - ValidatorSlash(a).amount
        BY <2>1, ValidatorIsSlashed DEF RecordsInv
    <2>3. ~MissingSubmission(a)
        BY <2>2 DEF Qualified, MissingSubmission, RecordsInv, RoundInv
    <2>4. effectiveAuditVerdict(a) \notin {"Invalid", "Malicious"}
        <3>1. CASE \E verdict \in Verdicts : agreedVerdict(a, verdict)
            <4>1. agreedVerdict(a, effectiveAuditVerdict(a))
                BY <3>1 DEF effectiveAuditVerdict
            <4>2. \E b \in Agents : round.verdicts[a][b] = effectiveAuditVerdict(a)
                BY <4>1, AgreedIsSomebodys DEF RecordsInv
            <4> QED BY <4>2
        <3>2. CASE ~\E verdict \in Verdicts : agreedVerdict(a, verdict)
            BY <3>2 DEF effectiveAuditVerdict
        <3> QED BY <3>1, <3>2
    <2>5. consensusVerdict(a) \notin {"Invalid", "Malicious"}
        BY <2>4 DEF consensusVerdict
    <2>6. ValidatorSlash(a).amount = 0
        BY <2>3, <2>5, ValidatorSlashAmount
    <2> QED BY <2>2, <2>6
<1> QED BY <1>1, CustodyIsInvariant, RecordsAreInvariant, StakeIsInvariant, PTL
        DEF Spec, DisagreementIsNotSlashed

\* What a finalized round is asked to pay: each member its reward.
LEMMA RequestsAreRewards ==
    ASSUME CommitteesInv, NEW outcome
    PROVE  LET reqs == ResolutionRewardRequests(outcome)
           IN  \A i \in DOMAIN reqs :
                   \/ \E a \in ToSet(resolutionCommittee.validators) :
                          reqs[i] = [to |-> a, amount |-> ValidatorReward(a, outcome)]
                   \/ \E b \in ToSet(resolutionCommittee.auditors) :
                          reqs[i] = [to |-> b, amount |-> AuditorReward(b)]
<1> DEFINE validators == resolutionCommittee.validators
           auditors == resolutionCommittee.auditors
           V(a) == [to |-> a, amount |-> ValidatorReward(a, outcome)]
           A(b) == [to |-> b, amount |-> AuditorReward(b)]
           p == [i \in DOMAIN validators |-> V(validators[i])]
           q == [i \in DOMAIN auditors |-> A(auditors[i])]
           R == {V(a) : a \in ToSet(validators)} \cup {A(b) : b \in ToSet(auditors)}
<1>1. validators \in Seq(Agents) /\ auditors \in Seq(Agents)
    BY DEF CommitteesInv
<1>2. /\ \A i \in DOMAIN validators : validators[i] \in ToSet(validators)
      /\ \A i \in DOMAIN auditors : auditors[i] \in ToSet(auditors)
    BY DEF ToSet
<1>3. p \in [DOMAIN validators -> R] /\ q \in [DOMAIN auditors -> R]
    BY <1>2
<1>a. ResolutionRewardRequests(outcome) = p \o q
    BY DEF ResolutionRewardRequests
<1> HIDE DEF p, q
<1>4. p \in Seq(R) /\ q \in Seq(R)
    BY <1>1, <1>3, ListByEntry
<1>5. p \o q \in Seq(R)
    BY <1>4, ConcatProperties
<1>6. \A i \in DOMAIN (p \o q) : (p \o q)[i] \in R
    <2> HIDE DEF R
    <2> QED BY <1>5, LenProperties
<1> QED BY <1>a, <1>6

\* Who loses stake in the step that closes a round earns nothing in it (RewardXorSlash).
THEOREM RewardedIsNotSlashed == Spec => RewardXorSlash
<1>1. CustodyInv /\ RecordsInv /\ PoolInv /\ StakeInv /\ [Next]_vars => RewardXorSlashStep
    <2> SUFFICES ASSUME CustodyInv, RecordsInv, PoolInv, StakeInv, [Next]_vars,
                        vault.status \in RoundPhases, vault'.status \notin RoundPhases,
                        NEW x \in Accounts, stake'[x] < stake[x]
                 PROVE  pool'.claimable[x] <= pool.claimable[x]
        BY DEF RewardXorSlashStep
    <2> DEFINE V == ToSet(resolutionCommittee.validators)
               A == ToSet(resolutionCommittee.auditors)
    <2>0. /\ CustodyType /\ CommitteesInv /\ RoundInv /\ pool \in PoolRecord /\ V \cap A = {}
        BY DEF CustodyInv, RecordsInv, PoolInv, Balanced, CommitteesInv
    <2>1. finalizeV2Vault
        BY <2>0, OnlyFinalizingCloses
    <2>2. x \in V \cup A
        <3>1. x \notin V \cup A => stake'[x] = stake[x]
            BY <2>0, <2>1, RoundIsSlashed
        <3>2. stake[x] \in Nat
            BY DEF StakeInv, Covered
        <3> QED BY <3>1, <3>2
    <2>3. ASSUME x \in V, NEW outcome PROVE ValidatorReward(x, outcome) = 0
        <3>1. /\ x \in Agents /\ stake[x] \in Nat
              /\ stake'[x] = stake[x] - ValidatorSlash(x).amount
              /\ ValidatorSlash(x).amount \in 0 .. bonds[x]["ResolutionValidator"].left
            BY <2>0, <2>1, <2>3, ValidatorIsSlashed
        <3>2. ValidatorSlash(x).amount # 0
            BY <3>1
        <3>3. CASE MissingSubmission(x)
            <4>1. ~Revealed(x)
                BY <2>0, <3>1, <3>3 DEF MissingSubmission, RoundInv
            <4> QED BY <4>1 DEF ValidatorReward, Qualified
        <3>4. CASE ~MissingSubmission(x)
            <4>1. consensusVerdict(x) \in {"Invalid", "Malicious"}
                BY <3>2, <3>4, ValidatorSlashAmount
            <4>2. CASE hasSuccessfulChallengeAgainst(x)
                BY <4>2 DEF ValidatorReward
            <4>3. CASE ~hasSuccessfulChallengeAgainst(x)
                <5>1. effectiveAuditVerdict(x) \notin {"Valid", "Questionable"}
                    BY <4>1, <4>3 DEF consensusVerdict
                <5> QED BY <5>1 DEF ValidatorReward
            <4> QED BY <4>2, <4>3
        <3> QED BY <3>3, <3>4
    <2>4. ASSUME x \in A PROVE AuditorReward(x) = 0
        <3>1. /\ stake[x] \in Nat /\ AuditorSlash(x).amount \in Nat
              /\ stake'[x] = stake[x] - AuditorSlash(x).amount
            BY <2>0, <2>1, <2>4, AuditorIsSlashed
        <3>2. AuditorSlash(x).amount # 0
            BY <3>1
        <3>3. Judged(x) # Reveals \/ hasSuccessfulChallengeAgainst(x)
            BY <3>2 DEF AuditorSlash, Slash
        <3> QED BY <3>3 DEF AuditorReward
    <2>5. CASE ~reachedConsensus /\ vault.resolutionRound < MAX_RESOLUTION_ROUNDS
        <3>1. pool' = pool /\ pool.claimable[x] \in Nat
            BY <2>0, <2>1, <2>5 DEF finalizeV2Vault, moneyVars, PoolRecord
        <3> QED BY <3>1
    <2>6. CASE ~(~reachedConsensus /\ vault.resolutionRound < MAX_RESOLUTION_ROUNDS)
        <3> DEFINE reqs == ResolutionRewardRequests(finalOutcome)
        <3>1. pool' = emptyReward(allocateResolutionRewards(pool, reqs))
            BY <2>1, <2>6 DEF finalizeV2Vault
        <3>2. reqs \in Requests
            BY <2>0, ResolutionRequestsAreRequests
        <3>3. \A i \in DOMAIN reqs : reqs[i].to = x => reqs[i].amount = 0
            <4> SUFFICES ASSUME NEW i \in DOMAIN reqs, reqs[i].to = x
                         PROVE  reqs[i].amount = 0
                OBVIOUS
            <4>1. CASE \E a \in V :
                           reqs[i] = [to |-> a, amount |-> ValidatorReward(a, finalOutcome)]
                BY <2>3, <4>1
            <4>2. CASE \E b \in A : reqs[i] = [to |-> b, amount |-> AuditorReward(b)]
                BY <2>4, <4>2
            <4> QED BY <2>0, <4>1, <4>2, RequestsAreRewards
        <3> HIDE DEF reqs
        <3>4. pool.reward \in Nat /\ DOMAIN reqs = 1 .. Len(reqs)
            BY <2>0, <3>2, RequestsAreNumbered DEF PoolRecord
        <3>5. PaidTo(x, reqs, pool.reward) = 0
            BY <3>2, <3>3, <3>4, PaidToIsNat
        <3>6. /\ pool'.claimable[x] = pool.claimable[x] + PaidTo(x, reqs, pool.reward)
              /\ pool.claimable[x] \in Nat
            BY <2>0, <3>1 DEF emptyReward, allocateResolutionRewards, PoolRecord
        <3> QED BY <3>5, <3>6
    <2> QED BY <2>5, <2>6
<1> QED BY <1>1, CustodyIsInvariant, RecordsAreInvariant, PoolIsInvariant, StakeIsInvariant,
           PTL DEF Spec, RewardXorSlash

-----------------------------------------------------------------------------
\* The properties of the runs.

\* Every variable has its type (TypeOK).
THEOREM TypeIsInvariant == Spec => []TypeOK
<1>1. CustodyInv /\ RecordsInv /\ PoolInv /\ StakeInv => TypeOK
    BY LayersAreTyped DEF StakeInv
<1> QED BY <1>1, CustodyIsInvariant, RecordsAreInvariant, PoolIsInvariant, StakeIsInvariant, PTL

\* A vault's committees and dispute are those of its status, and its members' bonds are
\* covered by their stake (VaultAgrees).
THEOREM VaultStaysInAgreement == Spec => []VaultAgrees
<1>1. TypeOK /\ StatusInv /\ StakeInv => VaultAgrees
    BY CoveredIsWithinStake DEF StatusInv, StakeInv, VaultAgrees
<1> QED BY <1>1, TypeIsInvariant, StatusIsInvariant, StakeIsInvariant, PTL

\* Bonds live and die with the committee or the challenge they are for (BondsAreLive).
THEOREM BondsStayLive == Spec => []BondsAreLive
<1>1. TypeOK /\ StatusInv /\ PoolInv /\ StakeInv => BondsAreLive
    BY CoveredIsWithinStake, SeatedIsFollowing DEF StatusInv, PoolInv, StakeInv, BondsAreLive
<1> QED BY <1>1, TypeIsInvariant, StatusIsInvariant, PoolIsInvariant, StakeIsInvariant, PTL

\* The reward pool holds what it owes, and no deposit of a vault that has ended
\* (DepositsAccounted).
THEOREM DepositsStayAccounted == Spec => []DepositsAccounted
<1>1. PoolInv => DepositsAccounted
    BY DEF PoolInv, Balanced, DepositsAccounted, RewardPoolBacked
<1> QED BY <1>1, PoolIsInvariant, PTL

\* No slash of a finalization can revert: its incident is fresh and its amount is there
\* (FinalizeNeverBlocked).
THEOREM FinalizeStaysOpen == Spec => []FinalizeNeverBlocked
<1>1. CustodyInv /\ RecordsInv /\ StakeInv /\ IncidentsOfRounds => FinalizeNeverBlocked
    <2> SUFFICES ASSUME CustodyInv, RecordsInv, StakeInv, IncidentsOfRounds,
                        vault.status \in RoundPhases
                 PROVE  /\ \A s \in ResolutionSlashes :
                               s.amount > 0 => /\ s.incident \notin incidents
                                               /\ s.amount <= stake[s.agent]
                        /\ ~escrow.settled
        BY DEF FinalizeNeverBlocked
    <2>1. ~escrow.settled
        BY DEF CustodyInv, EscrowMatchesStatus, RoundPhases, RevealPhases, Resolved
    <2>2. ASSUME NEW s \in ResolutionSlashes PROVE s.incident \notin incidents
        <3>1. PICK label \in RoundLabels :
                  \E a, detail : s.incident = <<label, vault.resolutionRound, a, detail>>
            BY SlashesAreOfTheRound DEF RecordsInv
        <3>2. PICK a, detail : s.incident = <<label, vault.resolutionRound, a, detail>>
            BY <3>1
        <3>3. vault.resolutionRound \in Nat /\ LastClosed = vault.resolutionRound - 1
            BY DEF CustodyInv, CustodyType, VaultRecord, LastClosed
        <3>4. vault.resolutionRound \notin 0 .. LastClosed
            BY <3>3
        <3> QED BY <3>2, <3>4 DEF IncidentsOfRounds
    <2>3. ASSUME NEW s \in ResolutionSlashes PROVE s.amount <= stake[s.agent]
        <3>1. /\ s.agent \in Accounts /\ s.role \in Roles
              /\ s.amount \in Nat /\ s.amount <= bonds[s.agent][s.role].left
            BY ResolutionSlashesFit DEF RecordsInv, Roles
        <3>2. /\ bonds[s.agent][s.role].left \in Nat
              /\ bonds[s.agent][s.role].left <= LockedIn(bonds, s.agent)
              /\ LockedIn(bonds, s.agent) \in Nat
              /\ LockedIn(bonds, s.agent) <= stake[s.agent] /\ stake[s.agent] \in Nat
            BY <3>1, LockedIsNat DEF StakeInv, Covered
        <3> QED BY <3>1, <3>2
    <2> QED BY <2>1, <2>2, <2>3
<1> QED BY <1>1, CustodyIsInvariant, RecordsAreInvariant, StakeIsInvariant,
           IncidentsAreInvariant, PTL
=============================================================================
