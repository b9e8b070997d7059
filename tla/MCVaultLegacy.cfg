SPECIFICATION Spec
CONSTANTS
    a1 = a1
    a2 = a2
    a3 = a3
    council = council
    setter = setter
    Agents <- MCAgents
    Council = {council}
    Setter = setter
    InitialStake <- MCStake
    StakeLevels <- NoStakeLevels
    RuleCommittees <- EmptyRuleCommittee
    ResolutionCommittees = {}
    MakerLists <- NoList
    VerifierLists <- NoList
    Commitments <- TrueOrFalse
    Judgeable <- FirstTwo
    FeeSchedules <- MCFeeSchedules
    SetupDeposits = {1}
    GrossCollateral = 4
    StakeRewardClaims = FALSE
    MAX_RULE_REJECTIONS = 0
    MAX_RESOLUTION_ROUNDS = 1
    MAX_CHALLENGES_PER_ROUND = 1
    MaxChallenges = 0
    Claimants = {}
    Pausable = FALSE
CHECK_DEADLOCK FALSE
INVARIANTS
    LegacyStatesOnlyForLegacyVaults
