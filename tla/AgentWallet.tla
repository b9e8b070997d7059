----------------------------- MODULE AgentWallet -----------------------------
(***************************************************************************)
(* Staking and claiming through the API: what the agents' profiles say     *)
(* about their stake, next to what they staked on the chain.               *)
(*                                                                         *)
(* A request reads the profile, asks the wallet provider to ensure the     *)
(* wallet, saves the profile whole, has the transaction verified, and then *)
(* books it in a store transaction: read the profile, insert the hash      *)
(* (unique), save the profile whole.  Each of these is an await and so the *)
(* end of a step.  Seeding of new agents runs beside it and sets the       *)
(* profile to the stake it reads on the chain.                             *)
(*                                                                         *)
(* Every stake is of one unit, so a stake is a number of transactions.     *)
(***************************************************************************)
EXTENDS Integers, FiniteSets

CONSTANTS
    Requests,    \* concurrent HTTP requests
    Agents,
    Txs,         \* hashes of stake transactions
    Vaults,      \* vaults named by claims
    Postgres,    \* which store: Postgres or in memory
    Mock,        \* which provider: the mock takes a hash on trust
    MaySeed,     \* whether registration stakes are seeded
    MaxClaims,   \* bound: claims
    MaxRestarts  \* bound: restarts of the API

AgentWalletAssumption ==
    /\ {Postgres, Mock, MaySeed} \subseteq BOOLEAN
    /\ MaxClaims \in Nat /\ MaxRestarts \in Nat
    /\ "nobody" \notin Agents /\ IsFiniteSet(Txs)

VARIABLES
    staker,      \* the chain: which agent a mined transaction staked for
    seed,        \* the chain and the seeding: per agent "none", "sent", "seeded"
    agents,      \* profiles: known, activeStake
    processed,   \* processed_stake_transactions: hashes booked
    traces,      \* per vault, the claims in its trace list
    request,     \* positions and locals of the requests
    booked,      \* history: hashes whose request was answered
    claims,      \* history: claims answered, with the vaults they named
    restarts

vars == <<staker, seed, agents, processed, traces, request, booked, claims, restarts>>

Nobody == "nobody"
FallbackProfile == [known |-> FALSE, activeStake |-> 0]
Idle == [pc |-> "idle", agent |-> Nobody, tx |-> "none", seen |-> FallbackProfile,
         new |-> FALSE, claim |-> 0, vaults |-> {}, list |-> {}]

Init ==
    /\ staker = [t \in Txs |-> Nobody]
    /\ seed = [a \in Agents |-> "none"]
    /\ agents = [a \in Agents |-> FallbackProfile]
    /\ processed = {} /\ traces = [v \in Vaults |-> {}]
    /\ request = [r \in Requests |-> Idle]
    /\ booked = {} /\ claims = {} /\ restarts = 0

stakedOnChain(a) ==
    Cardinality({t \in Txs : staker[t] = a}) + IF seed[a] = "none" THEN 0 ELSE 1

Goto(r, locals) == request' = [request EXCEPT ![r] = locals]
Finish(r) == Goto(r, Idle)
saveAgent(a, profile) == agents' = [agents EXCEPT ![a] = profile]

-----------------------------------------------------------------------------
(* The chain and the seeding. *)
stakeOnChain(a, t) ==
    /\ staker[t] = Nobody
    /\ staker' = [staker EXCEPT ![t] = a]
    /\ UNCHANGED <<seed, agents, processed, traces, request, booked, claims, restarts>>

(* Only agents without stake on the chain are seeded. *)
beginSeed(a) ==
    /\ MaySeed /\ seed[a] = "none" /\ stakedOnChain(a) = 0
    /\ seed' = [seed EXCEPT ![a] = "sent"]
    /\ UNCHANGED <<staker, agents, processed, traces, request, booked, claims, restarts>>

persistSeed(a) ==
    /\ seed[a] = "sent"
    /\ seed' = [seed EXCEPT ![a] = "seeded"]
    /\ saveAgent(a, [known |-> TRUE, activeStake |-> stakedOnChain(a)])
    /\ UNCHANGED <<staker, processed, traces, request, booked, claims, restarts>>

-----------------------------------------------------------------------------
(* The requests.  ensureAgent: read, ensure the wallet, save. *)
begin(r, a, t, id, vs) ==
    /\ request[r].pc = "idle"
    /\ Goto(r, [Idle EXCEPT !.pc = "ensure", !.agent = a, !.tx = t, !.claim = id, !.vaults = vs,
                            !.seen = agents[a]])
    /\ UNCHANGED <<staker, seed, agents, processed, traces, booked, claims, restarts>>

stakeForAgent(r, a, t) == begin(r, a, t, 0, {})
claimRewards(r, a, id, vs) ==
    /\ id \notin {claim[1] : claim \in claims} \cup {request[q].claim : q \in Requests}
    /\ begin(r, a, "none", id, vs)

ensureWallet(profile) == [profile EXCEPT !.known = TRUE]

ensureAgent(r) ==
    /\ request[r].pc = "ensure"
    /\ saveAgent(request[r].agent, ensureWallet(request[r].seen))
    /\ Goto(r, [request[r] EXCEPT !.pc = IF request[r].vaults = {} THEN "verify" ELSE "claim"])
    /\ UNCHANGED <<staker, seed, processed, traces, booked, claims, restarts>>

(* The OKX provider looks the stake up on the chain; the mock executes it  *)
(* or takes the hash on trust.                                             *)
verifyExecution(r) ==
    LET a == request[r].agent  t == request[r].tx IN
    IF Mock THEN staker' = IF staker[t] = Nobody THEN [staker EXCEPT ![t] = a] ELSE staker
            ELSE staker[t] = a /\ UNCHANGED staker

verified(r) ==
    /\ request[r].pc = "verify"
    /\ verifyExecution(r)
    /\ Goto(r, [request[r] EXCEPT !.pc = "read"])
    /\ UNCHANGED <<seed, agents, processed, traces, booked, claims, restarts>>

(* A transaction of someone else, or none that was mined. *)
rejected(r) ==
    /\ request[r].pc = "verify" /\ ~Mock /\ staker[request[r].tx] # request[r].agent
    /\ Finish(r)
    /\ UNCHANGED <<staker, seed, agents, processed, traces, booked, claims, restarts>>

(* The store transaction. *)
readProfile(r) ==
    /\ request[r].pc = "read"
    /\ Goto(r, [request[r] EXCEPT !.pc = "record", !.seen = agents[request[r].agent]])
    /\ UNCHANGED <<staker, seed, agents, processed, traces, booked, claims, restarts>>

(* On Postgres the insertion waits for an open transaction that inserted   *)
(* the same hash; whether it is seen before the commit makes no other      *)
(* difference.                                                             *)
insertedByOther(r) ==
    \E q \in Requests \ {r} : request[q].pc = "save" /\ request[q].new /\ request[q].tx = request[r].tx

recordAgentStakeTransaction(r) ==
    /\ request[r].pc = "record"
    /\ Postgres => ~insertedByOther(r)
    /\ processed' = processed \cup {request[r].tx}
    /\ Goto(r, [request[r] EXCEPT !.pc = "save", !.new = request[r].tx \notin processed])
    /\ UNCHANGED <<staker, seed, agents, traces, booked, claims, restarts>>

addIntegerString(r) == request[r].seen.activeStake + 1
nextStake_Again(r) == addIntegerString(r)
nextStake(r) == IF request[r].new THEN addIntegerString(r) ELSE request[r].seen.activeStake

bookStake(r) ==
    /\ request[r].pc = "save"
    /\ saveAgent(request[r].agent, [request[r].seen EXCEPT !.activeStake = nextStake(r)])
    /\ booked' = booked \cup {request[r].tx}
    /\ Finish(r)
    /\ UNCHANGED <<staker, seed, processed, traces, claims, restarts>>

(* A claim goes into the trace list of every vault it names, one after the *)
(* other: read the record, then save it with the trace appended.           *)
readVault(r, v) ==
    /\ request[r].pc = "claim" /\ v \in request[r].vaults
    /\ Goto(r, [request[r] EXCEPT !.pc = "trace", !.tx = v, !.list = traces[v]])
    /\ UNCHANGED <<staker, seed, agents, processed, traces, booked, claims, restarts>>

appended(r) == request[r].list \cup {request[r].claim}

saveVault(r) ==
    /\ request[r].pc = "trace"
    /\ LET v == request[r].tx IN
       /\ traces' = [traces EXCEPT ![v] = appended(r)]
       /\ claims' = claims \cup {<<request[r].claim, v>>}
       /\ IF request[r].vaults = {v} THEN Finish(r)
          ELSE Goto(r, [request[r] EXCEPT !.pc = "claim", !.vaults = @ \ {v}])
    /\ UNCHANGED <<staker, seed, agents, processed, booked, restarts>>

(* A restart drops the requests; open store transactions roll back. *)
restart ==
    /\ Postgres /\ restarts < MaxRestarts /\ restarts' = restarts + 1
    /\ request' = [r \in Requests |-> Idle]
    /\ processed' = processed \
         {request[r].tx : r \in {q \in Requests : request[q].pc = "save" /\ request[q].new}}
    /\ UNCHANGED <<staker, seed, agents, traces, booked, claims>>

Next ==
    \/ \E a \in Agents : beginSeed(a) \/ persistSeed(a) \/ \E t \in Txs : ~Mock /\ stakeOnChain(a, t)
    \/ \E r \in Requests, a \in Agents :
        \/ (\E t \in Txs : stakeForAgent(r, a, t))
        \/ \E id \in 1 .. MaxClaims, vs \in (SUBSET Vaults) \ {{}} : claimRewards(r, a, id, vs)
    \/ \E r \in Requests :
        \/ ensureAgent(r) \/ verified(r) \/ rejected(r) \/ readProfile(r)
        \/ recordAgentStakeTransaction(r) \/ bookStake(r)
        \/ (\E v \in Vaults : readVault(r, v)) \/ saveVault(r)
    \/ restart

Spec == Init /\ [][Next]_vars

-----------------------------------------------------------------------------
TypeOK ==
    /\ staker \in [Txs -> Agents \cup {Nobody}]
    /\ seed \in [Agents -> {"none", "sent", "seeded"}]
    /\ agents \in [Agents -> [known : BOOLEAN, activeStake : Nat]]
    /\ processed \subseteq Txs /\ booked \subseteq processed
    /\ traces \in [Vaults -> SUBSET (1 .. MaxClaims)]

(* No profile shows more stake than its agent ever put on the chain:      *)
(* hashes quoted twice, at once, by another agent or after a restart are  *)
(* not counted again (stakeForAgent, recordAgentStakeTransaction).        *)
NeverOverstated == \A a \in Agents : agents[a].activeStake <= stakedOnChain(a)

(* A stake whose request was answered shows in the profile. *)
StakeBooked ==
    \A a \in Agents : agents[a].activeStake >= Cardinality({t \in booked : staker[t] = a})

(* A claim that was answered shows in the trace list of every vault it    *)
(* named (claimRewards saves the records whole).                          *)
ClaimsTraced == \A claim \in claims : claim[1] \in traces[claim[2]]

=============================================================================
