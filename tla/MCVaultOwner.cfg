SPECIFICATION Spec
CONSTANTS
    a1 = a1
    a2 = a2
    a3 = a3
    council = council
    setter = setter
    Agents <- MCAgents
    Council = {council}
    Setter = setter
    InitialStake <- MCStake
    StakeLevels <- MCStakeLevels
    RuleCommittees <- EmptyRuleCommittee
    ResolutionCommittees <- MCRoundCommittees
    MakerLists <- NoList
    VerifierLists <- NoList
    Commitments <- TrueOrFalse
    Judgeable <- FirstOne
    FeeSchedules <- MCChangingFees
    SetupDeposits = {1}
    GrossCollateral = 4
    StakeRewardClaims = FALSE
    MAX_RULE_REJECTIONS = 0
    MAX_RESOLUTION_ROUNDS = 2
    MAX_CHALLENGES_PER_ROUND = 1
    MaxChallenges = 0
    Claimants = {}
    Pausable = TRUE
CHECK_DEADLOCK FALSE
INVARIANTS
    EscrowMatchesStatus
    VaultAgrees
PROPERTIES
    OutcomeIsFinal
    KeepsCollateralPromise
