SPECIFICATION Spec
CONSTANTS
    a1 = a1
    a2 = a2
    i1 = i1
    i2 = i2
    Agents <- MCAgents
    Tasks <- MCTasks
    Incidents <- MCIncidents
    Amounts <- MCAmounts
    AgentLists <- MCAgentLists
    Cooldowns <- MCCooldowns
    TokenSupply = 4
SYMMETRY Symmetry
INVARIANTS
    LockedMatchesBonds
    StakeAccounted
    Solvent
PROPERTY
    IncidentTakesOnce
