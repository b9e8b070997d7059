SPECIFICATION PartSpec
CONSTANTS
    a1 = a1
    a2 = a2
    a3 = a3
    a4 = a4
    council = council
    setter = setter
    Parts = {"consensus", "audit", "challenges"}
    Agents <- FourAgents
    Council = {council, a2}
    Setter = setter
    InitialStake <- MCStake
    StakeLevels <- NoStakeLevels
    RuleCommittees <- EmptyRuleCommittee
    ResolutionCommittees <- AnyBench
    MakerLists <- NoList
    VerifierLists <- NoList
    Commitments <- TrueOrFalse
    Judgeable <- FirstThree
    FeeSchedules <- MCFeeSchedules
    SetupDeposits = {1}
    GrossCollateral = 4
    StakeRewardClaims = FALSE
    MAX_RULE_REJECTIONS = 0
    MAX_RESOLUTION_ROUNDS = 1
    MAX_CHALLENGES_PER_ROUND = 1
    MaxChallenges = 2
    Claimants = {}
    Pausable = FALSE
CHECK_DEADLOCK FALSE
INVARIANTS
    CollateralTakenOnEvidence
PROPERTIES
    RewardXorSlash
    DisagreementIsNotSlashed
