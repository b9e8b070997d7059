SPECIFICATION PartSpec
CONSTANTS
    a1 = a1
    a2 = a2
    a3 = a3
    a4 = a4
    council = council
    setter = setter
    Parts = {"rules", "rounds"}
    Agents <- MCAgents
    Council = {council}
    Setter = setter
    InitialStake <- MCStake
    StakeLevels <- NoStakeLevels
    RuleCommittees <- AnyRuleCommittee
    ResolutionCommittees <- MCRoundCommittees
    MakerLists <- SomeMakers
    VerifierLists <- SomeVerifiers
    Commitments <- TrueOrFalse
    Judgeable <- FirstTwo
    FeeSchedules <- MCFeeSchedules
    SetupDeposits = {3}
    GrossCollateral = 4
    StakeRewardClaims = TRUE
    MAX_RULE_REJECTIONS = 1
    MAX_RESOLUTION_ROUNDS = 2
    MAX_CHALLENGES_PER_ROUND = 1
    MaxChallenges = 1
    Claimants = {a1}
    Pausable = FALSE
CHECK_DEADLOCK FALSE
INVARIANTS
    BondsAreLive
    DepositsAccounted
    FinalizeNeverBlocked
PROPERTIES
    FaultCostsTheBond
