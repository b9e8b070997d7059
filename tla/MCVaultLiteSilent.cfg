SPECIFICATION FairSpec
CONSTANTS
    a1 = a1
    a2 = a2
    a3 = a3
    council = council
    setter = setter
    Agents <- TwoAgents
    Council = {council}
    Setter = setter
    InitialStake <- MCStake
    StakeLevels <- NoLevels
    RuleCommittees <- NoRuleMembers
    ResolutionCommittees <- ValidatorAndAuditor
    MakerLists <- NoLists
    VerifierLists <- NoLists
    Commitments <- TrueOrFalse
    Judgeable <- FirstAgent
    FeeSchedules <- OneSchedule
    SetupDeposits = {1}
    GrossCollateral = 4
    StakeRewardClaims = FALSE
    MAX_RULE_REJECTIONS = 0
    MAX_RESOLUTION_ROUNDS = 1
    MAX_CHALLENGES_PER_ROUND = 3
    MaxChallenges = 0
    Claimants <- Nobody
    Pausable = FALSE
    ChallengeFailureSlashBps = 2500
    SlashAmounts = {0}
CHECK_DEADLOCK FALSE
PROPERTIES
    RoundGetsClosed
