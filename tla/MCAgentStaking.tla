--------------------------- MODULE MCAgentStaking ---------------------------
(* Two agents and two tasks, every list of up to two agents (repeats included). *)
EXTENDS AgentStaking, TLC

CONSTANTS a1, a2, i1, i2

MCAgents == {a1, a2}
MCTasks == {"maker", "validator"}
MCIncidents == {i1, i2}
MCAmounts == 1 .. 3
MCAgentLists == UNION {[1 .. n -> MCAgents] : n \in 0 .. 2}
MCCooldowns == {0, 1}

\* Agents and incidents are interchangeable: every set above is closed under renaming.
Symmetry == Permutations(MCAgents) \cup Permutations(MCIncidents)
=============================================================================
