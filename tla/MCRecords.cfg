SPECIFICATION MCSpec
CONSTANTS
    p1 = p1
    p2 = p2
    solo = solo
    timer = timer
    a1 = a1
    a2 = a2
    a3 = a3
    a4 = a4
    setter = setter
    VaultRace <- Browsers
    VaultAlone <- OneByOne
    VaultMock <- NoChain
    SubsRace <- Overlapping
    SubsReal <- RealWallets
    SubsReveal <- TwoRounds
    EvRace <- RealPolicy
    EvSearch <- Searching
    EvDirect <- NoPolicy
    EvMock <- MockProvider
    Areas = {"workflow", "workflow_alone", "workflow_mock",
             "submissions", "submissions_real", "submissions_reveal",
             "evidence", "evidence_search", "evidence_direct", "evidence_mock",
             "committees", "committees_mixed", "committees_stake",
             "metrics", "metrics_audit", "metrics_verdicts", "metrics_lossy"}
SYMMETRY Symmetry
CHECK_DEADLOCK FALSE
INVARIANTS
    RecordsAreTraced
    SubmissionsAreSound
    RevealsAreGrounded
    EnginesAgree
PROPERTY
    SeatsAreSound
