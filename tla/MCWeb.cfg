SPECIFICATION MCSpec
CONSTANTS
    t1 = t1
    t2 = t2
    alice = alice
    bob = bob
    okx = okx
    metamask = metamask
    v1 = v1
    v2 = v2
    NoAccount = NoAccount
    NoProvider = NoProvider
    NoAgent = NoAgent
    NoContent = NoContent
    Tabs <- OneTab
    Agents <- TwoAgents
    Members <- Rotating
    Contents <- TwoContents
    MaxRounds = 2
    MaxCalls = 3
    MaxSwitches = 2
    MaxFaults = 1
    Accounts <- TwoAgents
    Providers <- TwoProviders
    providerScore <- Scores
    Chains = {196, 1}
    MaxChanges = 2
    MaxConnects = 1
    CreationTabs <- TwoTabs
    Unit = 2
    ListedUnit = 2
    Cap = 3
    Amounts = {1, 2}
    Deposits = {1, 2}
    MaxTime = 1
    MaxSubmits = 2
    MaxMoves = 2
    MaxLosses = 2
    DecisionTabs <- TwoTabs
    Vaults <- TwoVaults
    Gross <- GrossOf
    MaxDecisions = 3
    MaxReprices = 1
    MaxMishaps = 2
    Parts = {"validator", "wallet_shown", "wallet_best", "wallet_silent", "creation",
             "creation_tabs", "decision", "decision_blocked", "decision_again"}
CHECK_DEADLOCK FALSE
INVARIANTS
    RevealsTheCommit
    CommitsAreUsable
    ShownIsCurrent
    CreationSound
PROPERTY
    DecisionSound
