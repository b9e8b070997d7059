----------------------------- MODULE Committees -----------------------------
(***************************************************************************)
(* Who gets a seat: agent-runtime's committee-selector, and VaultService,  *)
(* which feeds it with the profiles of judge-listed agents, or with those  *)
(* an operator's request brings along, and saves the profiles on the way.  *)
(*                                                                         *)
(* Agents are numbers, in the order of their addresses.  The vault's       *)
(* writes to the chain and their faults are VaultWorkflow's.               *)
(***************************************************************************)
EXTENDS Integers, SequencesExt, FiniteSetsExt, Functions

CONSTANTS
    Agents,
    Profiles,       \* profiles agents are listed with
    Claims,         \* candidateAgents of requests: functions from agents to profiles
    Sizings,        \* seats asked for by requests
    Requests,
    Overlap,        \* profiles change while a request is under way
    MaxStake, MaxCalls, MaxRounds    \* bounds

Roles == {"rule-maker", "rule-verifier", "validator", "auditor"}
Tags == Roles \cup {"challenger", "all-rounder"}
Profile == [stake : Nat, available : BOOLEAN, reputation : Nat, tags : SUBSET Tags]
Phases == {"rule", "resolution"}

CommitteesAssumption ==
    /\ Agents \subseteq Nat /\ Profiles \subseteq Profile
    /\ \A c \in Claims : DOMAIN c \subseteq Agents /\ Range(c) \subseteq Profile

VARIABLES
    profiles,   \* the agents table: a function on the agents known
    listed,     \* wallets isJudgeListed says yes to
    vault,
    request,
    calls

vars == <<profiles, listed, vault, request, calls>>

None == [first |-> <<>>, second |-> <<>>, minValidCount |-> 0]
Idle == [pc |-> "idle", op |-> "none", phase |-> "rule", who |-> 0, sizing |-> None,
         agents |-> <<>>, seen |-> <<>>, answer |-> "none"]

Init ==
    /\ profiles = <<>> /\ listed = {}
    /\ vault = [status |-> "RuleAuction", rule |-> None, resolution |-> None, settled |-> FALSE,
                rounds |-> 0]
    /\ request = [r \in Requests |-> Idle] /\ calls = 0

-----------------------------------------------------------------------------
\* The selector.

canParticipateInCommittee(p) == p.available /\ p.stake > 0
isEligible(p, role) == canParticipateInCommittee(p) /\ p.tags \cap {role, "all-rounder"} # {}

roles(phase) ==
    IF phase = "rule" THEN <<"rule-maker", "rule-verifier">> ELSE <<"validator", "auditor">>

Seats(first, second, minValid) == [first |-> first, second |-> second, minValidCount |-> minValid]

recommendSizing(phase, n) ==
    CASE n < 3 -> Seats(1, 1, 1)
      [] n = 3 -> Seats(2, 1, 2)
      [] phase = "rule" -> Seats(2, 2, 0)
      [] OTHER -> Seats(3, IF n = 4 THEN 1 ELSE 2, 2)

sortAgents(agents, S) ==
    SetToSortSeq(S, LAMBDA a, b :
        LET p == agents[a]  q == agents[b] IN
        \/ p.reputation > q.reputation
        \/ p.reputation = q.reputation /\ p.stake > q.stake
        \/ p.reputation = q.reputation /\ p.stake = q.stake /\ a < b)

pool(agents, excluded) ==
    {a \in DOMAIN agents \ excluded : canParticipateInCommittee(agents[a])}
preferred(agents, role, excluded) ==
    {a \in pool(agents, excluded) : isEligible(agents[a], role)}

selectAgents(agents, role, count, excluded) ==
    LET best == preferred(agents, role, excluded)
        chosen == sortAgents(agents, IF Cardinality(best) >= count THEN best ELSE pool(agents, excluded))
    IN  SubSeq(chosen, 1, Min({count, Len(chosen)}))

selectAgentsWithPriority(agents, role, count, priority, excluded) ==
    LET ahead == priority \ excluded
    IN  SetToSeq(ahead)
            \o selectAgents(agents, role, count - Cardinality(ahead), excluded \cup ahead)

(* A priority agent goes to the first bench unless only the second is its   *)
(* trade; a member of the first bench cannot sit on the second. *)
selectCommittee_Shared(agents, phase, sizing, priority) ==
    LET role == roles(phase)
        first == selectAgentsWithPriority(agents, role[1], sizing.first, priority, {})
        second == selectAgentsWithPriority(agents, role[2], sizing.second, {}, {})
    IN  IF Len(first) < sizing.first \/ Len(second) < sizing.second THEN None
        ELSE [first |-> first, second |-> second, minValidCount |-> sizing.minValidCount]
selectCommittee(agents, phase, sizing, priority) ==
    LET role == roles(phase)
        first == selectAgentsWithPriority(agents, role[1], sizing.first,
                     {p \in priority : \/ isEligible(agents[p], role[1])
                                       \/ ~isEligible(agents[p], role[2])}, {})
        second == selectAgentsWithPriority(agents, role[2], sizing.second,
                      priority \ Range(first), Range(first))
    IN  IF Len(first) < sizing.first \/ Len(second) < sizing.second THEN None
        ELSE [first |-> first, second |-> second, minValidCount |-> sizing.minValidCount]

-----------------------------------------------------------------------------
\* Profiles.

(* Joining the judge list keeps the stake the profile already shows. *)
joinJudgeList(a) ==
    /\ a \notin listed
    /\ listed' = listed \cup {a}
    /\ \E p \in Profiles :
        profiles' = (a :> [p EXCEPT !.stake = IF a \in DOMAIN profiles THEN profiles[a].stake ELSE @])
                        @@ profiles

createFallbackAgent == [stake |-> 0, available |-> TRUE, reputation |-> 50, tags |-> {"all-rounder"}]

(* Any agent with a session may stake, listed or not. *)
stakeForAgent(a) ==
    LET p == IF a \in DOMAIN profiles THEN profiles[a] ELSE createFallbackAgent IN
    /\ p.stake < MaxStake
    /\ profiles' = (a :> [p EXCEPT !.stake = @ + 1]) @@ profiles
    /\ UNCHANGED listed

ProfileStep ==
    /\ Overlap \/ \A r \in Requests : request[r].pc = "idle"
    /\ \E a \in Agents : joinJudgeList(a) \/ stakeForAgent(a)
    /\ UNCHANGED <<vault, request, calls>>

-----------------------------------------------------------------------------
\* Requests: the vault and the candidates are read, then the candidates are saved and some
\* of them seated.

BootstrapStatus(phase) ==
    IF phase = "rule" THEN {"DraftRequest", "RuleAuction"} ELSE {"Active", "ResolutionAuction"}
Next_(phase) == IF phase = "rule" THEN "RuleDrafting" ELSE "CommitPhase"

read(r, op, phase, who, sizing) ==
    /\ request[r].pc = "idle" /\ calls < MaxCalls
    /\ calls' = calls + 1
    /\ \E claim \in (IF op = "bootstrap" THEN {<<>>} ELSE Claims \cup {<<>>}) :
        request' = [request EXCEPT ![r] =
            [pc |-> "read", op |-> op, phase |-> phase, who |-> who, sizing |-> sizing, seen |-> vault,
             agents |-> IF claim = <<>> THEN Restrict(profiles, listed \cap DOMAIN profiles) ELSE claim,
             answer |-> "none"]]
    /\ UNCHANGED <<profiles, listed, vault>>

answer(r, what) == request' = [request EXCEPT ![r] = [Idle EXCEPT !.answer = what, !.phase = @]]

resolveCandidateAgents(agents) == profiles' = agents @@ profiles

seat(r, agents, sizing, priority) ==
    LET q == request[r]
        committee == selectCommittee(agents, q.phase, sizing, priority)
    IN  IF committee = None THEN answer(r, "short") /\ UNCHANGED vault
        ELSE \/ /\ answer(r, "seated")
                /\ vault' = [q.seen EXCEPT !.status = Next_(q.phase), !.rounds = vault.rounds,
                                           !.settled = vault.settled, ![q.phase] = committee]
             \/ answer(r, "chain") /\ UNCHANGED vault    \* the factory refused

Participants(agents) == {a \in DOMAIN agents : canParticipateInCommittee(agents[a])}

fits(phase, sizing, n) ==
    /\ sizing.first + sizing.second <= n
    /\ phase = "rule" \/ sizing.minValidCount <= sizing.first
normalizeCommitteeRequest(phase, sizing, n) ==
    IF fits(phase, sizing, n) THEN sizing ELSE recommendSizing(phase, n)

registerCommittee(r) ==
    LET q == request[r]  n == Cardinality(Participants(q.agents)) IN
    /\ q.pc = "read" /\ q.op = "register"
    /\ UNCHANGED <<listed, calls>>
    /\ IF DOMAIN q.agents = {} \/ ~(DOMAIN q.agents \subseteq listed)
       THEN answer(r, "refused") /\ UNCHANGED <<profiles, vault>>
       ELSE /\ resolveCandidateAgents(q.agents)
            /\ IF n < 2 /\ ~fits(q.phase, q.sizing, n) THEN answer(r, "refused") /\ UNCHANGED vault
               ELSE seat(r, q.agents, normalizeCommitteeRequest(q.phase, q.sizing, n), {})

bootstrapCommittee(r) ==
    LET q == request[r]  candidates == Participants(q.agents)  n == Cardinality(candidates) IN
    /\ q.pc = "read" /\ q.op = "bootstrap"
    /\ UNCHANGED <<listed, calls>>
    /\ IF DOMAIN q.agents = {} THEN answer(r, "refused") /\ UNCHANGED <<profiles, vault>>
       ELSE /\ resolveCandidateAgents(q.agents)
            /\ IF \/ q.who \notin candidates
                  \/ q.seen.status \notin BootstrapStatus(q.phase)
                  \/ n < 2
                  \/ q.seen[q.phase] # None
               THEN answer(r, "refused") /\ UNCHANGED vault
               ELSE seat(r, Restrict(q.agents, candidates), recommendSizing(q.phase, n), {q.who})

RequestStep ==
    \E r \in Requests :
        \/ \E phase \in Phases, who \in Agents : read(r, "bootstrap", phase, who, None)
        \/ \E phase \in Phases, sizing \in Sizings : read(r, "register", phase, 0, sizing)
        \/ registerCommittee(r) \/ bootstrapCommittee(r)

(* Reconciliation: a committee's work ends, or settlement time passes. *)
vaultMoves ==
    /\ \/ /\ vault.status = "RuleDrafting"
          /\ \/ vault' = [vault EXCEPT !.status = "Active"]
             \/ /\ vault.rounds < MaxRounds
                /\ vault' = [vault EXCEPT !.status = "RuleAuction", !.rule = None, !.rounds = @ + 1]
       \/ /\ vault.status = "CommitPhase" /\ vault.rounds < MaxRounds
          /\ vault' = [vault EXCEPT !.status = "ResolutionAuction", !.resolution = None, !.rounds = @ + 1]
       \/ ~vault.settled /\ vault' = [vault EXCEPT !.settled = TRUE]
    /\ UNCHANGED <<profiles, listed, request, calls>>

Next == ProfileStep \/ RequestStep \/ vaultMoves
Spec == Init /\ [][Next]_vars

-----------------------------------------------------------------------------
\* Properties.

Committee(c) == DOMAIN c = DOMAIN None /\ c.first \in Seq(Agents) /\ c.second \in Seq(Agents)

(* Every profile, candidate and committee stays well formed through claims,  *)
(* fallbacks and saves, and a vault under way has had its committee. *)
TypeOK ==
    /\ DOMAIN profiles \subseteq Agents /\ \A a \in DOMAIN profiles : profiles[a] \in Profile
    /\ listed \subseteq DOMAIN profiles
    /\ Committee(vault.rule) /\ Committee(vault.resolution)
    /\ (vault.status = "CommitPhase") => vault.resolution # None
    /\ (vault.status = "RuleDrafting") => vault.rule # None

(* No agent sits twice on a committee, on one bench or on both: "keeps rule *)
(* committee roles disjoint" and "keeps resolution committee roles          *)
(* disjoint" (runtime.test.ts:80, 85), with priorities and fallbacks too. *)
RolesDisjoint ==
    \A phase \in Phases :
        LET c == vault[phase] IN
        /\ IsInjective(c.first) /\ IsInjective(c.second)
        /\ Range(c.first) \cap Range(c.second) = {}

(* Sizes are recommended for the agents there are, so a bootstrap that got  *)
(* as far as selecting never lacks an agent for a seat, whatever the tags. *)
EnoughSeats == \A r \in Requests : request[r].answer # "short"

(* An agent without the trade of a bench sits there only when it asked for  *)
(* the committee or too few of the trade were left for the seats. *)
SpecialistsFirst ==
    \A r \in Requests :
        LET q == request[r]  role == roles(q.phase)
            agents == Restrict(q.agents, Participants(q.agents))
            asked == IF q.op = "bootstrap" THEN {q.who} ELSE {}
            c == vault'[q.phase]
        IN  q.pc = "read" /\ request'[r].answer = "seated" =>
                /\ \A a \in Range(c.first) \ asked :
                     isEligible(agents[a], role[1])
                        \/ Cardinality(preferred(agents, role[1], asked)) < Len(c.first)
                /\ \A a \in Range(c.second) \ asked :
                     isEligible(agents[a], role[2])
                        \/ Cardinality(preferred(agents, role[2], Range(c.first) \cup asked)) < Len(c.second)

(* The agent who asks for a committee gets a seat on it. *)
AskerIsSeated ==
    \A r \in Requests :
        LET q == request[r]  c == vault'[q.phase] IN
        q.op = "bootstrap" /\ request'[r].answer = "seated" /\ request[r].answer # "seated"
            => q.who \in Range(c.first) \cup Range(c.second)

(* Resolving candidates, seating them or joining the list never takes away  *)
(* a stake the profile already shows. *)
StakeStays == \A a \in DOMAIN profiles : profiles'[a].stake >= profiles[a].stake

=============================================================================
