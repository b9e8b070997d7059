---------------------------- MODULE AgentStaking ----------------------------
(***************************************************************************)
(* The staking ledger of contracts/src/AgentStaking.sol.                   *)
(*                                                                         *)
(* An agent's stake is in three pots: lockedTaskStake, inside activeStake, *)
(* backs the bonds of the tasks the agent serves on; the rest of           *)
(* activeStake is free; pendingWithdrawal is on its way out and waits for  *)
(* a cooldown.  The contract keeps a running total of all of it, which its *)
(* token balance has to cover.                                             *)
(*                                                                         *)
(* Every external function is one action.  msg.sender's authorisation is   *)
(* not modelled: any caller the modifier admits may make any call in any   *)
(* order.  A Solidity checked subtraction that would revert is a guard.    *)
(*                                                                         *)
(* An operator X_Variant before X is X with a mistake in it, kept to show  *)
(* which property notices; the specification never uses it.                *)
(***************************************************************************)
EXTENDS Sequences, Sums

CONSTANTS
    Agents,         \* addresses that stake
    Tasks,          \* the (vaultId, role) pairs that a task key is hashed from
    Incidents,      \* incident hashes
    Amounts,        \* token amounts that calls are made with
    AgentLists,     \* the address[] arguments of seedAgentStakesFrom
    Cooldowns,      \* the values the owner sets withdrawalCooldown to
    TokenSupply     \* ProofOfVaultToken's fixed total supply

ASSUME AgentsAreFinite == IsFiniteSet(Agents)
ASSUME TasksAreFinite == IsFiniteSet(Tasks)
ASSUME AmountsAreNat == Amounts \subseteq Nat
ASSUME AgentListsAreSeqs == AgentLists \subseteq Seq(Agents)
ASSUME CooldownsAreNat == Cooldowns \subseteq Nat
ASSUME TokenSupplyIsNat == TokenSupply \in Nat

VARIABLES
    activeStake, lockedTaskStake, pendingWithdrawal,    \* per agent
    withdrawalReadyIn,      \* seconds until withdrawalReadyAt, 0 once reached
    taskBonds,              \* _taskBonds: [Agents -> [Tasks -> TaskBondRecord]]
    consumedIncidents,
    totalAccountedStake,
    tokenBalance,           \* stakeToken.balanceOf(address(this))
    withdrawalsEnabled, withdrawalCooldown

settings == <<withdrawalsEnabled, withdrawalCooldown>>
bondVars == <<lockedTaskStake, taskBonds, consumedIncidents>>
exitVars == <<pendingWithdrawal, withdrawalReadyIn>>
vars == <<activeStake, bondVars, exitVars, totalAccountedStake, tokenBalance, settings>>

TaskBondRecord == [amount : Nat, slashedAmount : Nat, active : BOOLEAN]
NoBond == [amount |-> 0, slashedAmount |-> 0, active |-> FALSE]

\* What is left of agent a's bond for task t.
Remaining(a, t) == taskBonds[a][t].amount - taskBonds[a][t].slashedAmount

freeStakeOf(a) == activeStake[a] - lockedTaskStake[a]

isActiveAgent(a) == activeStake[a] > 0

Init ==
    /\ activeStake = [a \in Agents |-> 0]
    /\ lockedTaskStake = [a \in Agents |-> 0]
    /\ pendingWithdrawal = [a \in Agents |-> 0]
    /\ withdrawalReadyIn = [a \in Agents |-> 0]
    /\ taskBonds = [a \in Agents |-> [t \in Tasks |-> NoBond]]
    /\ consumedIncidents = {}
    /\ totalAccountedStake = 0
    /\ tokenBalance = 0
    /\ withdrawalsEnabled = FALSE
    /\ withdrawalCooldown \in Cooldowns

-----------------------------------------------------------------------------
\* Tokens move in and out.  The rest of the supply is outside the contract, so
\* no transfer brings in more than that.

PullExact(amount) ==
    /\ tokenBalance + amount <= TokenSupply
    /\ tokenBalance' = tokenBalance + amount

PayOut(amount) ==
    /\ amount <= totalAccountedStake
    /\ amount <= tokenBalance
    /\ totalAccountedStake' = totalAccountedStake - amount
    /\ tokenBalance' = tokenBalance - amount

\* Somebody transfers tokens to the contract without a call: RewardPool does, just
\* before creditRewardStake.
Transfer(amount) ==
    /\ PullExact(amount)
    /\ UNCHANGED <<activeStake, bondVars, exitVars, totalAccountedStake, settings>>

stakeForAgent(a, amount) ==
    /\ amount > 0
    /\ PullExact(amount)
    /\ activeStake' = [activeStake EXCEPT ![a] = @ + amount]
    /\ totalAccountedStake' = totalAccountedStake + amount
    /\ UNCHANGED <<bondVars, exitVars, settings>>

\* The i-th of n agents gets an equal share; the first `remainder' of them one more.
SeedShare_OffByOne(totalAmount, n, i) ==
    totalAmount \div n + (IF i < totalAmount % n THEN 1 ELSE 0)
SeedShare(totalAmount, n, i) ==
    totalAmount \div n + (IF i <= totalAmount % n THEN 1 ELSE 0)

SeedFor(a, agents, totalAmount) ==
    IF \E i \in DOMAIN agents : agents[i] = a
    THEN SeedShare(totalAmount, Len(agents), CHOOSE i \in DOMAIN agents : agents[i] = a)
    ELSE 0

seedAgentStakesFrom(agents, totalAmount) ==
    /\ Len(agents) > 0
    /\ totalAmount >= Len(agents)
    /\ \A i, j \in DOMAIN agents : i # j => agents[i] # agents[j]
    /\ PullExact(totalAmount)
    /\ activeStake' = [a \in Agents |-> activeStake[a] + SeedFor(a, agents, totalAmount)]
    /\ totalAccountedStake' = totalAccountedStake + totalAmount
    /\ UNCHANGED <<bondVars, exitVars, settings>>

\* What the contract has to hold before it credits a reward.
requiredBalance_RewardOnly(amount) == amount
requiredBalance(amount) == totalAccountedStake + amount

creditRewardStake(a, amount) ==
    /\ amount > 0
    /\ tokenBalance >= requiredBalance(amount)
    /\ activeStake' = [activeStake EXCEPT ![a] = @ + amount]
    /\ totalAccountedStake' = totalAccountedStake + amount
    /\ UNCHANGED <<bondVars, exitVars, tokenBalance, settings>>

requestWithdrawal(a, amount) ==
    /\ withdrawalsEnabled
    /\ amount > 0
    /\ freeStakeOf(a) >= amount
    /\ activeStake' = [activeStake EXCEPT ![a] = @ - amount]
    /\ pendingWithdrawal' = [pendingWithdrawal EXCEPT ![a] = @ + amount]
    /\ withdrawalReadyIn' = [withdrawalReadyIn EXCEPT ![a] = withdrawalCooldown]
    /\ UNCHANGED <<bondVars, totalAccountedStake, tokenBalance, settings>>

completeWithdrawal(a) ==
    /\ pendingWithdrawal[a] > 0
    /\ withdrawalReadyIn[a] = 0
    /\ PayOut(pendingWithdrawal[a])
    /\ pendingWithdrawal' = [pendingWithdrawal EXCEPT ![a] = 0]
    /\ withdrawalReadyIn' = [withdrawalReadyIn EXCEPT ![a] = 0]
    /\ UNCHANGED <<activeStake, bondVars, settings>>

-----------------------------------------------------------------------------
\* Task bonds.

lockTaskBond(a, t, amount) ==
    /\ amount > 0
    /\ freeStakeOf(a) >= amount
    /\ ~taskBonds[a][t].active
    /\ taskBonds' = [taskBonds EXCEPT ![a][t] =
                        [amount |-> amount, slashedAmount |-> 0, active |-> TRUE]]
    /\ lockedTaskStake' = [lockedTaskStake EXCEPT ![a] = @ + amount]
    /\ UNCHANGED <<activeStake, exitVars, consumedIncidents, totalAccountedStake,
                   tokenBalance, settings>>

releaseTaskBond_WholeAmount(a, t) ==
    /\ taskBonds[a][t].active
    /\ taskBonds[a][t].amount <= lockedTaskStake[a]
    /\ lockedTaskStake' = [lockedTaskStake EXCEPT ![a] = @ - taskBonds[a][t].amount]
    /\ taskBonds' = [taskBonds EXCEPT ![a][t] = NoBond]
    /\ UNCHANGED <<activeStake, exitVars, consumedIncidents, totalAccountedStake,
                   tokenBalance, settings>>
releaseTaskBond(a, t) ==
    /\ taskBonds[a][t].active
    /\ Remaining(a, t) <= lockedTaskStake[a]
    /\ lockedTaskStake' = [lockedTaskStake EXCEPT ![a] = @ - Remaining(a, t)]
    /\ taskBonds' = [taskBonds EXCEPT ![a][t] = NoBond]
    /\ UNCHANGED <<activeStake, exitVars, consumedIncidents, totalAccountedStake,
                   tokenBalance, settings>>

NewIncident_Unchecked(incidentHash) == TRUE
NewIncident(incidentHash) == incidentHash \notin consumedIncidents

slashTaskBond(a, t, amount, incidentHash) ==
    /\ amount > 0
    /\ NewIncident(incidentHash)
    /\ taskBonds[a][t].active
    /\ Remaining(a, t) >= amount
    /\ amount <= activeStake[a]
    /\ amount <= lockedTaskStake[a]
    /\ consumedIncidents' = consumedIncidents \cup {incidentHash}
    /\ taskBonds' = [taskBonds EXCEPT ![a][t].slashedAmount = @ + amount]
    /\ activeStake' = [activeStake EXCEPT ![a] = @ - amount]
    /\ lockedTaskStake' = [lockedTaskStake EXCEPT ![a] = @ - amount]
    /\ PayOut(amount)
    /\ UNCHANGED <<exitVars, settings>>

\* What a slash larger than the free stake leaves of the pending withdrawal.
PendingLeft(a, amount) == pendingWithdrawal[a] - (amount - freeStakeOf(a))

\* Free stake pays first, then the pending withdrawal; locked stake never does.
slashAgent(a, amount) ==
    /\ amount > 0
    /\ lockedTaskStake[a] <= activeStake[a]
    /\ freeStakeOf(a) + pendingWithdrawal[a] >= amount
    /\ IF freeStakeOf(a) >= amount
       THEN /\ activeStake' = [activeStake EXCEPT ![a] = @ - amount]
            /\ UNCHANGED exitVars
       ELSE /\ activeStake' = [activeStake EXCEPT ![a] = @ - freeStakeOf(a)]
            /\ pendingWithdrawal' = [pendingWithdrawal EXCEPT ![a] = PendingLeft(a, amount)]
            /\ withdrawalReadyIn' =
                   [withdrawalReadyIn EXCEPT ![a] = IF PendingLeft(a, amount) = 0 THEN 0 ELSE @]
    /\ PayOut(amount)
    /\ UNCHANGED <<bondVars, settings>>

-----------------------------------------------------------------------------
\* The owner's settings, and the passing of time.

setWithdrawalCooldown(cooldown) ==
    /\ withdrawalCooldown' = cooldown
    /\ UNCHANGED <<activeStake, bondVars, exitVars, totalAccountedStake, tokenBalance,
                   withdrawalsEnabled>>

setWithdrawalsEnabled(enabled) ==
    /\ withdrawalsEnabled' = enabled
    /\ UNCHANGED <<activeStake, bondVars, exitVars, totalAccountedStake, tokenBalance,
                   withdrawalCooldown>>

Tick ==
    /\ withdrawalReadyIn' = [a \in Agents |-> IF withdrawalReadyIn[a] > 0
                                              THEN withdrawalReadyIn[a] - 1 ELSE 0]
    /\ UNCHANGED <<activeStake, bondVars, pendingWithdrawal, totalAccountedStake,
                   tokenBalance, settings>>

Next ==
    \/ \E amount \in Amounts : Transfer(amount)
    \/ \E a \in Agents, amount \in Amounts : stakeForAgent(a, amount)
    \/ \E agents \in AgentLists, amount \in Amounts : seedAgentStakesFrom(agents, amount)
    \/ \E a \in Agents, amount \in Amounts : creditRewardStake(a, amount)
    \/ \E a \in Agents, amount \in Amounts : requestWithdrawal(a, amount)
    \/ \E a \in Agents : completeWithdrawal(a)
    \/ \E a \in Agents, t \in Tasks, amount \in Amounts : lockTaskBond(a, t, amount)
    \/ \E a \in Agents, t \in Tasks : releaseTaskBond(a, t)
    \/ \E a \in Agents, t \in Tasks, amount \in Amounts, incidentHash \in Incidents :
           slashTaskBond(a, t, amount, incidentHash)
    \/ \E a \in Agents, amount \in Amounts : slashAgent(a, amount)
    \/ \E cooldown \in Cooldowns : setWithdrawalCooldown(cooldown)
    \/ \E enabled \in BOOLEAN : setWithdrawalsEnabled(enabled)
    \/ Tick

Spec == Init /\ [][Next]_vars

-----------------------------------------------------------------------------
\* Properties

TypeOK ==
    /\ activeStake \in [Agents -> Nat]
    /\ lockedTaskStake \in [Agents -> Nat]
    /\ pendingWithdrawal \in [Agents -> Nat]
    /\ withdrawalReadyIn \in [Agents -> Nat]
    /\ taskBonds \in [Agents -> [Tasks -> TaskBondRecord]]
    /\ consumedIncidents \subseteq Incidents
    /\ totalAccountedStake \in Nat
    /\ tokenBalance \in Nat
    /\ withdrawalsEnabled \in BOOLEAN
    /\ withdrawalCooldown \in Nat

\* The stake an agent has locked is exactly what is left of its task bonds, however
\* locks, partial slashes and releases of several tasks interleave: a release frees
\* what its own bond still holds and no other task's backing.
LockedMatchesBonds ==
    \A a \in Agents : lockedTaskStake[a] = Sum(Tasks, [t \in Tasks |-> Remaining(a, t)])

\* Locked stake is always there to be slashed or released: withdrawals and slashAgent
\* stop at the free stake, so freeStakeOf never underflows.
LockedWithinActive == \A a \in Agents : lockedTaskStake[a] <= activeStake[a]

\* The running total is the stake of all agents, on whatever path tokens came and went.
StakeAccounted ==
    totalAccountedStake
        = Sum(Agents, [a \in Agents |-> activeStake[a] + pendingWithdrawal[a]])

\* The contract holds every token it has promised: rewards are credited only out of
\* tokens that have arrived and are not yet somebody's stake.
Solvent == totalAccountedStake <= tokenBalance

\* One incident takes from one bond once.  A bond that stays locked loses value only in
\* a step that consumes an incident nobody has been slashed for, and no other bond
\* changes in that step.
BondTaken(a, t) ==
    /\ taskBonds[a][t].active /\ taskBonds'[a][t].active
    /\ Remaining(a, t)' # Remaining(a, t)
IncidentConsumed ==
    \E i \in Incidents \ consumedIncidents : consumedIncidents' = consumedIncidents \cup {i}
OtherBondsKept(a, t) ==
    \A b \in Agents, u \in Tasks : <<b, u>> # <<a, t>> => taskBonds'[b][u] = taskBonds[b][u]
TakenOnce ==
    \A a \in Agents, t \in Tasks :
        BondTaken(a, t) => IncidentConsumed /\ OtherBondsKept(a, t)
IncidentTakesOnce == [][TakenOnce]_vars
=============================================================================
