SPECIFICATION FairSpec
CONSTANTS
    a1 = a1
    a2 = a2
    a3 = a3
    council = council
    setter = setter
    Agents <- ThreeAgents
    Council = {council}
    Setter = setter
    InitialStake <- MCStake
    StakeLevels <- SomeLevels
    RuleCommittees <- MakerAndVerifier
    ResolutionCommittees <- VotingCommittees
    MakerLists <- NoLists
    VerifierLists <- NoLists
    Commitments <- TrueOrFalse
    Judgeable <- TwoAgents
    FeeSchedules <- TwoSchedules
    SetupDeposits = {1}
    GrossCollateral = 4
    StakeRewardClaims = FALSE
    MAX_RULE_REJECTIONS = 1
    MAX_RESOLUTION_ROUNDS = 1
    MAX_CHALLENGES_PER_ROUND = 3
    MaxChallenges = 1
    Claimants = {council}
    Pausable = FALSE
    ChallengeFailureSlashBps = 2500
    SlashAmounts = {0, 1}
CHECK_DEADLOCK FALSE
INVARIANTS
    MoneyFollowsPhase
PROPERTIES
    TakenForCause
    AuditedRoundGetsClosed
