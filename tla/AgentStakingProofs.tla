------------------------- MODULE AgentStakingProofs -------------------------
(***************************************************************************)
(* Theorems of AgentStaking, for any number of agents, tasks, incidents    *)
(* and amounts.                                                            *)
(***************************************************************************)
EXTENDS AgentStaking, SumsTheorems

-----------------------------------------------------------------------------
\* Types.  The guards alone keep every amount natural.

LEMMA SeedIsNat ==
    ASSUME NEW agents \in AgentLists, NEW amount \in Amounts, Len(agents) > 0, NEW a \in Agents
    PROVE  SeedFor(a, agents, amount) \in Nat
<1>1. agents \in Seq(Agents) /\ amount \in Nat /\ Len(agents) \in Nat \ {0}
    BY AgentListsAreSeqs, AmountsAreNat
<1>2. amount \div Len(agents) \in Nat /\ amount % Len(agents) \in Nat
    BY <1>1
<1> QED BY <1>2 DEF SeedFor, SeedShare

LEMMA TypeInit == Init => TypeOK
<1> SUFFICES ASSUME Init PROVE TypeOK
    OBVIOUS
<1>1. NoBond \in TaskBondRecord
    BY DEF NoBond, TaskBondRecord
<1>2. taskBonds \in [Agents -> [Tasks -> TaskBondRecord]]
    BY <1>1 DEF Init
<1> QED BY <1>2, CooldownsAreNat DEF Init, TypeOK

LEMMA TypeStep == TypeOK /\ [Next]_vars => TypeOK'
<1> SUFFICES ASSUME TypeOK, [Next]_vars PROVE TypeOK'
    OBVIOUS
<1> USE DEF TypeOK, TaskBondRecord
<1>1. ASSUME NEW amount \in Amounts, Transfer(amount) PROVE TypeOK'
    BY <1>1, AmountsAreNat DEF Transfer, PullExact, settings, bondVars, exitVars
<1>2. ASSUME NEW a \in Agents, NEW amount \in Amounts, stakeForAgent(a, amount) PROVE TypeOK'
    BY <1>2, AmountsAreNat DEF stakeForAgent, PullExact, settings, bondVars, exitVars
<1>3. ASSUME NEW agents \in AgentLists, NEW amount \in Amounts,
             seedAgentStakesFrom(agents, amount)
      PROVE  TypeOK'
    <2>1. \A a \in Agents : SeedFor(a, agents, amount) \in Nat
        BY <1>3, SeedIsNat DEF seedAgentStakesFrom
    <2>2. activeStake' \in [Agents -> Nat]
        BY <1>3, <2>1 DEF seedAgentStakesFrom
    <2> QED BY <1>3, <2>2, AmountsAreNat
        DEF seedAgentStakesFrom, PullExact, settings, bondVars, exitVars
<1>4. ASSUME NEW a \in Agents, NEW amount \in Amounts, creditRewardStake(a, amount)
      PROVE  TypeOK'
    BY <1>4, AmountsAreNat DEF creditRewardStake, settings, bondVars, exitVars
<1>5. ASSUME NEW a \in Agents, NEW amount \in Amounts, requestWithdrawal(a, amount)
      PROVE  TypeOK'
    BY <1>5, AmountsAreNat DEF requestWithdrawal, freeStakeOf, settings, bondVars
<1>6. ASSUME NEW a \in Agents, completeWithdrawal(a) PROVE TypeOK'
    BY <1>6 DEF completeWithdrawal, PayOut, settings, bondVars
<1>7. ASSUME NEW a \in Agents, NEW t \in Tasks, NEW amount \in Amounts,
             lockTaskBond(a, t, amount)
      PROVE  TypeOK'
    BY <1>7, AmountsAreNat DEF lockTaskBond, settings, exitVars
<1>8. ASSUME NEW a \in Agents, NEW t \in Tasks, releaseTaskBond(a, t) PROVE TypeOK'
    BY <1>8 DEF releaseTaskBond, Remaining, NoBond, settings, exitVars
<1>9. ASSUME NEW a \in Agents, NEW t \in Tasks, NEW amount \in Amounts,
             NEW incidentHash \in Incidents, slashTaskBond(a, t, amount, incidentHash)
      PROVE  TypeOK'
    <2>1. [taskBonds[a][t] EXCEPT !.slashedAmount = @ + amount] \in TaskBondRecord
        BY AmountsAreNat
    <2>2. taskBonds' \in [Agents -> [Tasks -> TaskBondRecord]]
        BY <1>9, <2>1 DEF slashTaskBond
    <2>3. /\ activeStake' \in [Agents -> Nat] /\ lockedTaskStake' \in [Agents -> Nat]
          /\ totalAccountedStake' \in Nat /\ tokenBalance' \in Nat
        BY <1>9, AmountsAreNat DEF slashTaskBond, PayOut
    <2> QED BY <1>9, <2>2, <2>3 DEF slashTaskBond, settings, exitVars
<1>10. ASSUME NEW a \in Agents, NEW amount \in Amounts, slashAgent(a, amount) PROVE TypeOK'
    <2>1. CASE freeStakeOf(a) >= amount
        BY <1>10, <2>1, AmountsAreNat
        DEF slashAgent, PayOut, freeStakeOf, settings, bondVars, exitVars
    <2>2. CASE ~(freeStakeOf(a) >= amount)
        <3>1. PendingLeft(a, amount) \in Nat
            BY <1>10, <2>2, AmountsAreNat DEF slashAgent, freeStakeOf, PendingLeft
        <3>2. /\ activeStake' = [activeStake EXCEPT ![a] = @ - freeStakeOf(a)]
              /\ pendingWithdrawal' = [pendingWithdrawal EXCEPT ![a] = PendingLeft(a, amount)]
              /\ withdrawalReadyIn' = [withdrawalReadyIn EXCEPT ![a] =
                                          IF PendingLeft(a, amount) = 0 THEN 0 ELSE @]
            BY <1>10, <2>2 DEF slashAgent
        <3>3. /\ activeStake' \in [Agents -> Nat] /\ pendingWithdrawal' \in [Agents -> Nat]
              /\ withdrawalReadyIn' \in [Agents -> Nat]
            BY <3>1, <3>2 DEF freeStakeOf
        <3>4. totalAccountedStake' \in Nat /\ tokenBalance' \in Nat
            BY <1>10, AmountsAreNat DEF slashAgent, PayOut
        <3>5. UNCHANGED <<bondVars, settings>>
            BY <1>10 DEF slashAgent
        <3> QED BY <3>3, <3>4, <3>5 DEF settings, bondVars
    <2> QED BY <2>1, <2>2
<1>11. ASSUME NEW cooldown \in Cooldowns, setWithdrawalCooldown(cooldown) PROVE TypeOK'
    BY <1>11, CooldownsAreNat DEF setWithdrawalCooldown, bondVars, exitVars
<1>12. ASSUME NEW enabled \in BOOLEAN, setWithdrawalsEnabled(enabled) PROVE TypeOK'
    BY <1>12 DEF setWithdrawalsEnabled, bondVars, exitVars
<1>13. CASE Tick
    BY <1>13 DEF Tick, settings, bondVars
<1>14. CASE UNCHANGED vars
    BY <1>14 DEF vars, settings, bondVars, exitVars
<1> QED BY <1>1, <1>2, <1>3, <1>4, <1>5, <1>6, <1>7, <1>8, <1>9, <1>10, <1>11, <1>12, <1>13,
           <1>14 DEF Next

\* Every amount in the ledger is a natural number: none of its subtractions underflows.
THEOREM TypeCorrect == Spec => []TypeOK
BY TypeInit, TypeStep, PTL DEF Spec

-----------------------------------------------------------------------------
\* Bonds.  No bond is slashed beyond its amount, and a released one leaves nothing.

BondsInRange ==
    \A a \in Agents, t \in Tasks :
        /\ taskBonds[a][t].slashedAmount <= taskBonds[a][t].amount
        /\ ~taskBonds[a][t].active => Remaining(a, t) = 0

BondInv == TypeOK /\ BondsInRange /\ LockedWithinActive /\ LockedMatchesBonds

\* Three operations touch the bonds, each the bond of one agent for one task.
Locks(a, t) == \E amount \in Amounts : lockTaskBond(a, t, amount)
Slashes(a, t) ==
    \E amount \in Amounts, incidentHash \in Incidents : slashTaskBond(a, t, amount, incidentHash)

LEMMA BondStep ==
    ASSUME [Next]_vars
    PROVE  \/ UNCHANGED bondVars
           \/ \E a \in Agents, t \in Tasks : Locks(a, t) \/ releaseTaskBond(a, t) \/ Slashes(a, t)
BY DEF Next, vars, Transfer, stakeForAgent, seedAgentStakesFrom, creditRewardStake,
       requestWithdrawal, completeWithdrawal, slashAgent, setWithdrawalCooldown,
       setWithdrawalsEnabled, Tick, Locks, Slashes

LEMMA BondsInRangeStep ==
    ASSUME TypeOK, BondsInRange, [Next]_vars PROVE BondsInRange'
<1> USE DEF TypeOK, TaskBondRecord
<1>1. CASE UNCHANGED bondVars
    BY <1>1 DEF BondsInRange, bondVars, Remaining
<1>2. ASSUME NEW a \in Agents, NEW t \in Tasks, Locks(a, t) PROVE BondsInRange'
    BY <1>2, AmountsAreNat DEF BondsInRange, Locks, lockTaskBond, Remaining
<1>3. ASSUME NEW a \in Agents, NEW t \in Tasks, releaseTaskBond(a, t) PROVE BondsInRange'
    BY <1>3 DEF BondsInRange, releaseTaskBond, Remaining, NoBond
<1>4. ASSUME NEW a \in Agents, NEW t \in Tasks, Slashes(a, t) PROVE BondsInRange'
    BY <1>4, AmountsAreNat DEF BondsInRange, Slashes, slashTaskBond, Remaining
<1> QED BY <1>1, <1>2, <1>3, <1>4, BondStep

LEMMA LockedWithinActiveStep ==
    ASSUME TypeOK, BondsInRange, LockedWithinActive, [Next]_vars PROVE LockedWithinActive'
<1> USE DEF TypeOK, TaskBondRecord, LockedWithinActive
<1>1. ASSUME NEW amount \in Amounts, Transfer(amount) PROVE LockedWithinActive'
    BY <1>1 DEF Transfer, bondVars
<1>2. ASSUME NEW a \in Agents, NEW amount \in Amounts, stakeForAgent(a, amount)
      PROVE  LockedWithinActive'
    BY <1>2, AmountsAreNat DEF stakeForAgent, bondVars
<1>3. ASSUME NEW agents \in AgentLists, NEW amount \in Amounts,
             seedAgentStakesFrom(agents, amount)
      PROVE  LockedWithinActive'
    <2>1. \A a \in Agents : SeedFor(a, agents, amount) \in Nat
        BY <1>3, SeedIsNat DEF seedAgentStakesFrom
    <2> QED BY <1>3, <2>1 DEF seedAgentStakesFrom, bondVars
<1>4. ASSUME NEW a \in Agents, NEW amount \in Amounts, creditRewardStake(a, amount)
      PROVE  LockedWithinActive'
    BY <1>4, AmountsAreNat DEF creditRewardStake, bondVars
<1>5. ASSUME NEW a \in Agents, NEW amount \in Amounts, requestWithdrawal(a, amount)
      PROVE  LockedWithinActive'
    BY <1>5, AmountsAreNat DEF requestWithdrawal, freeStakeOf, bondVars
<1>6. ASSUME NEW a \in Agents, completeWithdrawal(a) PROVE LockedWithinActive'
    BY <1>6 DEF completeWithdrawal, bondVars
<1>7. ASSUME NEW a \in Agents, NEW t \in Tasks, Locks(a, t) PROVE LockedWithinActive'
    BY <1>7, AmountsAreNat DEF Locks, lockTaskBond, freeStakeOf
<1>8. ASSUME NEW a \in Agents, NEW t \in Tasks, releaseTaskBond(a, t) PROVE LockedWithinActive'
    <2>1. Remaining(a, t) \in Nat
        BY DEF BondsInRange, Remaining
    <2> QED BY <1>8, <2>1 DEF releaseTaskBond
<1>9. ASSUME NEW a \in Agents, NEW t \in Tasks, Slashes(a, t) PROVE LockedWithinActive'
    BY <1>9, AmountsAreNat DEF Slashes, slashTaskBond
<1>10. ASSUME NEW a \in Agents, NEW amount \in Amounts, slashAgent(a, amount)
       PROVE  LockedWithinActive'
    BY <1>10, AmountsAreNat DEF slashAgent, freeStakeOf, bondVars
<1>11. ASSUME NEW cooldown \in Cooldowns, setWithdrawalCooldown(cooldown)
       PROVE  LockedWithinActive'
    BY <1>11 DEF setWithdrawalCooldown, bondVars
<1>12. ASSUME NEW enabled \in BOOLEAN, setWithdrawalsEnabled(enabled)
       PROVE  LockedWithinActive'
    BY <1>12 DEF setWithdrawalsEnabled, bondVars
<1>13. CASE Tick
    BY <1>13 DEF Tick, bondVars
<1>14. CASE UNCHANGED vars
    BY <1>14 DEF vars, bondVars
<1> QED BY <1>1, <1>2, <1>3, <1>4, <1>5, <1>6, <1>7, <1>8, <1>9, <1>10, <1>11, <1>12, <1>13,
           <1>14 DEF Next, Locks, Slashes

\* When the bond of one agent for one task changes and the agent's locked stake moves by
\* as much, locked stake still matches the bonds.
LEMMA OneBondChanges ==
    ASSUME TypeOK, TypeOK', BondsInRange, BondsInRange', LockedMatchesBonds,
           NEW a \in Agents, NEW t \in Tasks, OtherBondsKept(a, t),
           lockedTaskStake'[a] = lockedTaskStake[a] + (Remaining(a, t)' - Remaining(a, t)),
           \A b \in Agents \ {a} : lockedTaskStake'[b] = lockedTaskStake[b]
    PROVE  LockedMatchesBonds'
<1> DEFINE f(b) == [u \in Tasks |-> Remaining(b, u)]
           g(b) == [u \in Tasks |-> Remaining(b, u)']
<1>1. \A b \in Agents, u \in Tasks : Remaining(b, u) \in Nat /\ Remaining(b, u)' \in Nat
    BY DEF TypeOK, TaskBondRecord, BondsInRange, Remaining
<1>2. \A b \in Agents, u \in Tasks :
          <<b, u>> # <<a, t>> => Remaining(b, u)' = Remaining(b, u)
    BY DEF OtherBondsKept, Remaining
<1>3. Sum(Tasks, g(a)) = Sum(Tasks, f(a)) + g(a)[t] - f(a)[t]
    <2>1. \A u \in Tasks : f(a)[u] \in Nat /\ g(a)[u] \in Nat
        BY <1>1
    <2>2. \A u \in Tasks \ {t} : g(a)[u] = f(a)[u]
        BY <1>2
    <2> QED BY <2>1, <2>2, TasksAreFinite, SumOfChange
<1>4. \A b \in Agents \ {a} : Sum(Tasks, g(b)) = Sum(Tasks, f(b))
    <2> SUFFICES ASSUME NEW b \in Agents \ {a} PROVE Sum(Tasks, g(b)) = Sum(Tasks, f(b))
        OBVIOUS
    <2>1. \A u \in Tasks : g(b)[u] = f(b)[u]
        BY <1>2
    <2> QED BY <2>1, SumOfEqual
<1>5. \A b \in Agents : lockedTaskStake[b] = Sum(Tasks, f(b)) /\ lockedTaskStake[b] \in Nat
    BY DEF LockedMatchesBonds, TypeOK
<1>6. lockedTaskStake'[a] = Sum(Tasks, g(a))
    BY <1>1, <1>3, <1>5
<1>7. \A b \in Agents : lockedTaskStake'[b] = Sum(Tasks, g(b))
    BY <1>4, <1>5, <1>6
<1> QED BY <1>7 DEF LockedMatchesBonds

LEMMA LockedMatchesBondsStep ==
    ASSUME BondInv, TypeOK', BondsInRange', [Next]_vars PROVE LockedMatchesBonds'
<1> USE DEF BondInv
<1>1. CASE UNCHANGED bondVars
    BY <1>1 DEF LockedMatchesBonds, bondVars, Remaining
<1>2. ASSUME NEW a \in Agents, NEW t \in Tasks, Locks(a, t) PROVE LockedMatchesBonds'
    <2>1. OtherBondsKept(a, t) /\ \A b \in Agents \ {a} : lockedTaskStake'[b] = lockedTaskStake[b]
        BY <1>2 DEF Locks, lockTaskBond, OtherBondsKept, TypeOK
    <2>2. lockedTaskStake'[a] = lockedTaskStake[a] + (Remaining(a, t)' - Remaining(a, t))
        BY <1>2, AmountsAreNat DEF Locks, lockTaskBond, BondsInRange, Remaining, TypeOK
    <2> QED BY <2>1, <2>2, OneBondChanges
<1>3. ASSUME NEW a \in Agents, NEW t \in Tasks, releaseTaskBond(a, t) PROVE LockedMatchesBonds'
    <2>1. OtherBondsKept(a, t) /\ \A b \in Agents \ {a} : lockedTaskStake'[b] = lockedTaskStake[b]
        BY <1>3 DEF releaseTaskBond, OtherBondsKept, TypeOK
    <2>2. lockedTaskStake'[a] = lockedTaskStake[a] + (Remaining(a, t)' - Remaining(a, t))
        BY <1>3 DEF releaseTaskBond, NoBond, Remaining, TypeOK, TaskBondRecord
    <2> QED BY <2>1, <2>2, OneBondChanges
<1>4. ASSUME NEW a \in Agents, NEW t \in Tasks, Slashes(a, t) PROVE LockedMatchesBonds'
    <2>1. OtherBondsKept(a, t) /\ \A b \in Agents \ {a} : lockedTaskStake'[b] = lockedTaskStake[b]
        BY <1>4 DEF Slashes, slashTaskBond, OtherBondsKept, TypeOK
    <2>2. lockedTaskStake'[a] = lockedTaskStake[a] + (Remaining(a, t)' - Remaining(a, t))
        BY <1>4, AmountsAreNat DEF Slashes, slashTaskBond, Remaining, TypeOK, TaskBondRecord
    <2> QED BY <2>1, <2>2, OneBondChanges
<1> QED BY <1>1, <1>2, <1>3, <1>4, BondStep

LEMMA BondInit == Init => BondInv
<1> SUFFICES ASSUME Init PROVE BondInv
    OBVIOUS
<1>1. \A a \in Agents, t \in Tasks : taskBonds[a][t] = NoBond /\ Remaining(a, t) = 0
    BY DEF Init, NoBond, Remaining
<1>2. \A a \in Agents : Sum(Tasks, [t \in Tasks |-> Remaining(a, t)]) = 0
    BY <1>1, SumOfZero
<1>3. BondsInRange
    BY <1>1 DEF BondsInRange, NoBond
<1>4. LockedMatchesBonds /\ LockedWithinActive
    BY <1>2 DEF Init, LockedMatchesBonds, LockedWithinActive
<1> QED BY <1>3, <1>4, TypeInit DEF BondInv

LEMMA BondInvStep == BondInv /\ [Next]_vars => BondInv'
<1> SUFFICES ASSUME BondInv, [Next]_vars PROVE BondInv'
    OBVIOUS
<1>1. TypeOK' BY TypeStep DEF BondInv
<1>2. BondsInRange' BY BondsInRangeStep DEF BondInv
<1>3. LockedWithinActive' BY LockedWithinActiveStep DEF BondInv
<1>4. LockedMatchesBonds' BY <1>1, <1>2, LockedMatchesBondsStep
<1> QED BY <1>1, <1>2, <1>3, <1>4 DEF BondInv

LEMMA BondInvariant == Spec => []BondInv
BY BondInit, BondInvStep, PTL DEF Spec

\* Locked stake is what is left of the agent's bonds, in every interleaving of locks,
\* slashes and releases.
THEOREM LocksBacked == Spec => []LockedMatchesBonds
<1>1. BondInv => LockedMatchesBonds BY DEF BondInv
<1> QED BY <1>1, BondInvariant, PTL

\* No withdrawal and no slash reaches into locked stake.
THEOREM LocksWithinStake == Spec => []LockedWithinActive
<1>1. BondInv => LockedWithinActive BY DEF BondInv
<1> QED BY <1>1, BondInvariant, PTL

-----------------------------------------------------------------------------
\* Incidents.

LEMMA TakenOnceStep == ASSUME TypeOK, [Next]_vars PROVE TakenOnce
<1> USE DEF TypeOK, TaskBondRecord, TakenOnce, BondTaken
<1>1. CASE UNCHANGED bondVars
    BY <1>1 DEF bondVars, Remaining
<1>2. ASSUME NEW a \in Agents, NEW t \in Tasks, Locks(a, t) PROVE TakenOnce
    <2>1. ~taskBonds[a][t].active /\ OtherBondsKept(a, t)
        BY <1>2 DEF Locks, lockTaskBond, OtherBondsKept
    <2> QED BY <2>1 DEF OtherBondsKept, Remaining
<1>3. ASSUME NEW a \in Agents, NEW t \in Tasks, releaseTaskBond(a, t) PROVE TakenOnce
    <2>1. ~taskBonds'[a][t].active /\ OtherBondsKept(a, t)
        BY <1>3 DEF releaseTaskBond, NoBond, OtherBondsKept
    <2> QED BY <2>1 DEF OtherBondsKept, Remaining
<1>4. ASSUME NEW a \in Agents, NEW t \in Tasks, Slashes(a, t) PROVE TakenOnce
    <2>1. IncidentConsumed /\ OtherBondsKept(a, t)
        BY <1>4 DEF Slashes, slashTaskBond, NewIncident, OtherBondsKept, IncidentConsumed
    <2>2. \A b \in Agents, u \in Tasks : BondTaken(b, u) => b = a /\ u = t
        BY <2>1 DEF OtherBondsKept, Remaining
    <2> QED BY <2>1, <2>2
<1> QED BY <1>1, <1>2, <1>3, <1>4, BondStep

\* A bond that stays locked only loses value to an incident not charged before.
THEOREM IncidentsChargedOnce == Spec => IncidentTakesOnce
<1>1. TypeOK /\ [Next]_vars => [TakenOnce]_vars
    BY TakenOnceStep
<1> QED BY <1>1, TypeCorrect, PTL DEF Spec, IncidentTakesOnce

-----------------------------------------------------------------------------
\* Solvency.  A step that raises the total by a deposit raises the balance as much; a
\* reward is credited only against tokens that have arrived.

LEMMA SolventStep == ASSUME TypeOK, Solvent, [Next]_vars PROVE Solvent'
<1> USE AmountsAreNat DEF TypeOK, Solvent
<1>1. ASSUME NEW amount \in Amounts, Transfer(amount) PROVE Solvent'
    BY <1>1 DEF Transfer, PullExact
<1>2. ASSUME NEW a \in Agents, NEW amount \in Amounts, stakeForAgent(a, amount) PROVE Solvent'
    BY <1>2 DEF stakeForAgent, PullExact
<1>3. ASSUME NEW agents \in AgentLists, NEW amount \in Amounts,
             seedAgentStakesFrom(agents, amount)
      PROVE  Solvent'
    BY <1>3 DEF seedAgentStakesFrom, PullExact
<1>4. ASSUME NEW a \in Agents, NEW amount \in Amounts, creditRewardStake(a, amount)
      PROVE  Solvent'
    BY <1>4 DEF creditRewardStake, requiredBalance
<1>5. ASSUME NEW amount \in Nat, PayOut(amount) PROVE Solvent'
    BY <1>5 DEF PayOut
<1>6. ASSUME UNCHANGED <<totalAccountedStake, tokenBalance>> PROVE Solvent'
    BY <1>6
<1>7. ASSUME NEW a \in Agents, completeWithdrawal(a) PROVE Solvent'
    BY <1>5, <1>7 DEF completeWithdrawal
<1>8. ASSUME NEW a \in Agents, NEW t \in Tasks, Slashes(a, t) PROVE Solvent'
    BY <1>5, <1>8 DEF Slashes, slashTaskBond
<1>9. ASSUME NEW a \in Agents, NEW amount \in Amounts, slashAgent(a, amount) PROVE Solvent'
    BY <1>5, <1>9 DEF slashAgent
<1> QED BY <1>1, <1>2, <1>3, <1>4, <1>6, <1>7, <1>8, <1>9
    DEF Next, vars, requestWithdrawal, lockTaskBond, releaseTaskBond, Slashes,
        setWithdrawalCooldown, setWithdrawalsEnabled, Tick

\* The contract always holds the tokens it accounts for.
THEOREM Solvency == Spec => []Solvent
<1>1. Init => Solvent
    BY DEF Init, Solvent
<1>2. TypeOK /\ Solvent /\ [Next]_vars => Solvent'
    BY SolventStep
<1> QED BY <1>1, <1>2, TypeCorrect, PTL DEF Spec

-----------------------------------------------------------------------------
\* Seeding.  Deal the tokens 0, 1, 2, ... of the total to the n agents in turn: the q-th
\* token of the i-th agent is number n * (q - 1) + i - 1.  SeedShare says how many an agent
\* gets, so the shares add up to the total.

LEMMA ProductIsNat ==
    ASSUME NEW n \in Nat, NEW q \in Nat
    PROVE  n * q \in Nat
OBVIOUS

LEMMA Multiples ==
    ASSUME NEW n \in Nat, NEW p \in Nat, NEW q \in Nat, p < q
    PROVE  n * p + n <= n * q
OBVIOUS

LEMMA Quotients ==
    ASSUME NEW n \in Nat \ {0}, NEW k \in Nat
    PROVE  /\ k \div n \in Nat /\ k % n \in 0 .. n - 1
           /\ k = n * (k \div n) + (k % n)
<1> n \in Nat /\ n > 0
    OBVIOUS
<1> QED OBVIOUS

LEMMA QuotientsUnique ==
    ASSUME NEW n \in Nat \ {0}, NEW p \in Nat, NEW q \in Nat,
           NEW r \in 0 .. n - 1, NEW s \in 0 .. n - 1, n * p + r = n * q + s
    PROVE  p = q /\ r = s
<1>1. ~(p < q)
    BY Multiples
<1>2. ~(q < p)
    BY Multiples
<1> QED BY <1>1, <1>2

LEMMA Dealing ==
    ASSUME NEW n \in Nat \ {0}, NEW total \in Nat, NEW i \in 1 .. n, NEW q \in Nat
    PROVE  n * q + i <= total <=> q + 1 <= SeedShare(total, n, i)
<1> DEFINE d == total \div n
           r == total % n
<1>1. d \in Nat /\ r \in 0 .. n - 1 /\ total = n * d + r
    BY Quotients
<1> HIDE DEF d, r
<1>2. SeedShare(total, n, i) = d + (IF i <= r THEN 1 ELSE 0)
    BY DEF SeedShare, d, r
<1>3. CASE q < d
    <2>1. n * q + n <= n * d
        BY <1>1, <1>3, Multiples
    <2> QED BY <1>1, <1>2, <1>3, <2>1
<1>4. CASE q = d
    BY <1>1, <1>2, <1>4
<1>5. CASE d < q
    <2>1. n * d + n <= n * q
        BY <1>1, <1>5, Multiples
    <2> QED BY <1>1, <1>2, <1>5, <2>1
<1> QED BY <1>1, <1>3, <1>4, <1>5

LEMMA SeedsOfListed ==
    ASSUME NEW agents, NEW total, NEW i \in DOMAIN agents,
           \A j \in DOMAIN agents : j # i => agents[j] # agents[i]
    PROVE  SeedFor(agents[i], agents, total) = SeedShare(total, Len(agents), i)
<1>1. (CHOOSE j \in DOMAIN agents : agents[j] = agents[i]) = i
    OBVIOUS
<1> QED BY <1>1 DEF SeedFor

LEMMA SeedsAddUp ==
    ASSUME NEW agents \in Seq(Agents), NEW total \in Nat, Len(agents) > 0,
           \A i, j \in DOMAIN agents : i # j => agents[i] # agents[j]
    PROVE  Sum(Agents, [a \in Agents |-> SeedFor(a, agents, total)]) = total
<1> DEFINE n == Len(agents)
           seeds == [a \in Agents |-> SeedFor(a, agents, total)]
           U == UNION {Units(seeds, a) : a \in Agents}
           d(k) == (k - 1) \div n
           r(k) == (k - 1) % n
           m == [k \in 1 .. total |-> <<agents[r(k) + 1], d(k) + 1>>]
<1>1. /\ n \in Nat \ {0} /\ DOMAIN agents = 1 .. n
      /\ \A i \in 1 .. n : agents[i] \in Agents
      /\ \A i, j \in 1 .. n : agents[i] = agents[j] => i = j
    OBVIOUS
<1>2. \A i \in 1 .. n : seeds[agents[i]] = SeedShare(total, n, i)
    BY <1>1, SeedsOfListed
<1>3. \A p : p \in U <=> \E a \in Agents : \E q \in 1 .. seeds[a] : p = <<a, q>>
    BY DEF Units
<1>4. ASSUME NEW k \in 1 .. total
      PROVE  d(k) \in Nat /\ r(k) \in 0 .. n - 1 /\ k = n * d(k) + r(k) + 1
    <2>1. k - 1 \in Nat
        OBVIOUS
    <2>2. d(k) \in Nat /\ r(k) \in 0 .. n - 1 /\ k - 1 = n * d(k) + r(k)
        BY <1>1, <2>1, Quotients
    <2> HIDE DEF n, d, r
    <2> QED BY <1>1, <2>2
<1> HIDE DEF n, seeds, U, d, r
<1>5. m \in [1 .. total -> U]
    <2> SUFFICES ASSUME NEW k \in 1 .. total PROVE <<agents[r(k) + 1], d(k) + 1>> \in U
        OBVIOUS
    <2>1. d(k) + 1 <= SeedShare(total, n, r(k) + 1)
        BY <1>1, <1>4, Dealing
    <2>2. d(k) + 1 \in 1 .. seeds[agents[r(k) + 1]]
        <3>1. SeedShare(total, n, r(k) + 1) \in Nat
            <4>1. total \div n \in Nat
                BY <1>1, Quotients
            <4> QED BY <4>1 DEF SeedShare
        <3> QED BY <1>1, <1>2, <1>4, <2>1, <3>1
    <2>3. agents[r(k) + 1] \in Agents
        BY <1>1, <1>4
    <2> QED BY <1>3, <2>2, <2>3
<1>6. ASSUME NEW p \in U PROVE \E k \in 1 .. total : m[k] = p
    <2>1. PICK a \in Agents, q \in Int : q \in 1 .. seeds[a] /\ p = <<a, q>>
        BY <1>3
    <2>2. PICK i \in 1 .. n : agents[i] = a
        <3>1. seeds[a] # 0
            BY <2>1
        <3> QED BY <1>1, <3>1 DEF seeds, SeedFor
    <2>3. q - 1 \in Nat /\ q <= SeedShare(total, n, i)
        BY <1>2, <2>1, <2>2
    <2>4. n * (q - 1) + i <= total <=> (q - 1) + 1 <= SeedShare(total, n, i)
        BY <1>1, <2>3, Dealing
    <2>5. PICK k \in 1 .. total : k = n * (q - 1) + i
        <3>1. n * (q - 1) \in Nat
            BY <1>1, <2>3
        <3> QED BY <2>3, <2>4, <3>1
    <2>6. n * d(k) + r(k) = n * (q - 1) + (i - 1)
        <3>1. n * (q - 1) \in Nat /\ n * d(k) \in Nat
            <4>1. n \in Nat /\ d(k) \in Nat
                BY <1>1, <1>4
            <4> QED BY <2>3, <4>1, ProductIsNat
        <3>2. r(k) \in Nat /\ k = n * d(k) + r(k) + 1
            BY <1>4
        <3> QED BY <2>5, <3>1, <3>2
    <2>7. d(k) = q - 1 /\ r(k) = i - 1
        <3>1. i - 1 \in 0 .. n - 1 /\ d(k) \in Nat /\ r(k) \in 0 .. n - 1
            <4>1. i \in 1 .. n /\ n \in Nat
                BY <1>1
            <4> QED BY <1>4, <4>1
        <3>2. n \in Nat \ {0} /\ q - 1 \in Nat
            BY <1>1, <2>3
        <3>3. PICK x \in Nat, y \in 0 .. n - 1, z \in Nat, w \in 0 .. n - 1 :
                  x = d(k) /\ y = r(k) /\ z = q - 1 /\ w = i - 1
            BY <3>1, <3>2
        <3>4. n * x + y = n * z + w
            BY <2>6, <3>3
        <3>5. x = z /\ y = w
            BY <3>2, <3>4, QuotientsUnique
        <3> QED BY <3>3, <3>5
    <2>8. m[k] = <<agents[r(k) + 1], d(k) + 1>>
        BY <2>5
    <2> QED BY <1>1, <2>1, <2>2, <2>5, <2>7, <2>8
<1>7. ASSUME NEW k \in 1 .. total, NEW j \in 1 .. total, m[k] = m[j] PROVE k = j
    <2>1. agents[r(k) + 1] = agents[r(j) + 1] /\ d(k) + 1 = d(j) + 1
        BY <1>7
    <2>2. r(k) + 1 = r(j) + 1
        <3>1. n \in Nat /\ r(k) \in 0 .. n - 1 /\ r(j) \in 0 .. n - 1
            BY <1>1, <1>4
        <3>2. r(k) + 1 \in 1 .. n /\ r(j) + 1 \in 1 .. n
            BY <3>1
        <3> QED BY <1>1, <2>1, <3>2
    <2>3. d(k) = d(j) /\ r(k) = r(j)
        BY <1>4, <2>1, <2>2
    <2> QED BY <1>4, <2>3
<1> HIDE DEF m
<1>8. m \in Injection(1 .. total, U)
    BY <1>5, <1>7 DEF Injection, IsInjective
<1>9. m \in Surjection(1 .. total, U)
    BY <1>5, <1>6 DEF Surjection
<1>10. ExistsBijection(1 .. total, U)
    BY <1>8, <1>9 DEF ExistsBijection, Bijection
<1> QED BY <1>10, FS_CountingElements DEF Sum, U, seeds

-----------------------------------------------------------------------------
\* The running total.

Owned(a) == activeStake[a] + pendingWithdrawal[a]

\* When what one agent owns and the running total move by as much, the total stays right.
LEMMA OneOwnerChanges ==
    ASSUME TypeOK, TypeOK', StakeAccounted, NEW a \in Agents,
           totalAccountedStake' = totalAccountedStake + (Owned(a)' - Owned(a)),
           \A b \in Agents \ {a} : Owned(b)' = Owned(b)
    PROVE  StakeAccounted'
<1> DEFINE f == [b \in Agents |-> Owned(b)]
           g == [b \in Agents |-> Owned(b)']
<1>1. \A b \in Agents : f[b] \in Nat /\ g[b] \in Nat
    BY DEF TypeOK, Owned
<1>2. \A b \in Agents \ {a} : g[b] = f[b]
    OBVIOUS
<1>3. Sum(Agents, g) = Sum(Agents, f) + g[a] - f[a]
    BY <1>1, <1>2, AgentsAreFinite, SumOfChange
<1>4. totalAccountedStake = Sum(Agents, f) /\ totalAccountedStake \in Nat
    BY DEF StakeAccounted, Owned, TypeOK
<1>5. f[a] = Owned(a) /\ g[a] = Owned(a)'
    OBVIOUS
<1> HIDE DEF f, g
<1>6. totalAccountedStake' = Sum(Agents, g)
    BY <1>1, <1>3, <1>4, <1>5
<1> QED BY <1>6 DEF StakeAccounted, Owned, g

LEMMA StakeAccountedStep ==
    ASSUME TypeOK, TypeOK', StakeAccounted, LockedWithinActive, [Next]_vars
    PROVE  StakeAccounted'
<1>1. ASSUME UNCHANGED <<activeStake, pendingWithdrawal, totalAccountedStake>>
      PROVE  StakeAccounted'
    BY <1>1 DEF StakeAccounted
<1>2. ASSUME NEW a \in Agents, NEW amount \in Amounts,
             stakeForAgent(a, amount) \/ creditRewardStake(a, amount)
      PROVE  StakeAccounted'
    <2>1. /\ activeStake' = [activeStake EXCEPT ![a] = @ + amount]
          /\ totalAccountedStake' = totalAccountedStake + amount
          /\ pendingWithdrawal' = pendingWithdrawal
        BY <1>2 DEF stakeForAgent, creditRewardStake, exitVars
    <2>2. totalAccountedStake' = totalAccountedStake + (Owned(a)' - Owned(a))
        BY <2>1, AmountsAreNat DEF Owned, TypeOK
    <2>3. \A b \in Agents \ {a} : Owned(b)' = Owned(b)
        BY <2>1 DEF Owned, TypeOK
    <2> QED BY <2>2, <2>3, OneOwnerChanges
<1>3. ASSUME NEW agents \in AgentLists, NEW amount \in Amounts,
             seedAgentStakesFrom(agents, amount)
      PROVE  StakeAccounted'
    <2> DEFINE f == [a \in Agents |-> Owned(a)]
               g == [a \in Agents |-> SeedFor(a, agents, amount)]
               h == [a \in Agents |-> Owned(a)']
    <2>1. agents \in Seq(Agents) /\ amount \in Nat
        BY AgentListsAreSeqs, AmountsAreNat
    <2>2. Len(agents) > 0 /\ \A i, j \in DOMAIN agents : i # j => agents[i] # agents[j]
        BY <1>3 DEF seedAgentStakesFrom
    <2>3. Sum(Agents, g) = amount
        BY <2>1, <2>2, SeedsAddUp
    <2>4. \A a \in Agents : f[a] \in Nat /\ g[a] \in Nat
        BY <2>2, SeedIsNat DEF Owned, TypeOK
    <2>5. \A a \in Agents : h[a] = f[a] + g[a]
        BY <1>3, <2>4 DEF seedAgentStakesFrom, exitVars, Owned, TypeOK
    <2>6. Sum(Agents, h) = Sum(Agents, f) + Sum(Agents, g)
        BY <2>4, <2>5, AgentsAreFinite, SumOfPlus
    <2>7. totalAccountedStake = Sum(Agents, f) /\ totalAccountedStake' = totalAccountedStake + amount
        BY <1>3 DEF seedAgentStakesFrom, StakeAccounted, Owned
    <2> HIDE DEF f, g, h
    <2>8. totalAccountedStake' = Sum(Agents, h)
        BY <2>3, <2>6, <2>7
    <2> QED BY <2>8 DEF StakeAccounted, Owned, h
<1>4. ASSUME NEW a \in Agents, NEW amount \in Amounts, requestWithdrawal(a, amount)
      PROVE  StakeAccounted'
    <2>1. totalAccountedStake' = totalAccountedStake + (Owned(a)' - Owned(a))
        BY <1>4, AmountsAreNat DEF requestWithdrawal, Owned, TypeOK
    <2>2. \A b \in Agents \ {a} : Owned(b)' = Owned(b)
        BY <1>4 DEF requestWithdrawal, Owned, TypeOK
    <2> QED BY <2>1, <2>2, OneOwnerChanges
<1>5. ASSUME NEW a \in Agents, completeWithdrawal(a) PROVE StakeAccounted'
    <2>1. totalAccountedStake' = totalAccountedStake + (Owned(a)' - Owned(a))
        BY <1>5 DEF completeWithdrawal, PayOut, Owned, TypeOK
    <2>2. \A b \in Agents \ {a} : Owned(b)' = Owned(b)
        BY <1>5 DEF completeWithdrawal, Owned, TypeOK
    <2> QED BY <2>1, <2>2, OneOwnerChanges
<1>6. ASSUME NEW a \in Agents, NEW t \in Tasks, Slashes(a, t) PROVE StakeAccounted'
    <2>1. totalAccountedStake' = totalAccountedStake + (Owned(a)' - Owned(a))
        BY <1>6, AmountsAreNat DEF Slashes, slashTaskBond, PayOut, exitVars, Owned, TypeOK
    <2>2. \A b \in Agents \ {a} : Owned(b)' = Owned(b)
        BY <1>6 DEF Slashes, slashTaskBond, exitVars, Owned, TypeOK
    <2> QED BY <2>1, <2>2, OneOwnerChanges
<1>7. ASSUME NEW a \in Agents, NEW amount \in Amounts, slashAgent(a, amount)
      PROVE  StakeAccounted'
    <2>1. totalAccountedStake' = totalAccountedStake - amount /\ amount \in Nat
        BY <1>7, AmountsAreNat DEF slashAgent, PayOut
    <2>2. Owned(a)' = Owned(a) - amount
        <3>1. CASE freeStakeOf(a) >= amount
            BY <1>7, <2>1, <3>1 DEF slashAgent, exitVars, Owned, TypeOK
        <3>2. CASE ~(freeStakeOf(a) >= amount)
            BY <1>7, <2>1, <3>2 DEF slashAgent, PendingLeft, freeStakeOf, Owned, TypeOK
        <3> QED BY <3>1, <3>2
    <2>3. \A b \in Agents \ {a} : Owned(b)' = Owned(b)
        BY <1>7 DEF slashAgent, exitVars, Owned, TypeOK
    <2>4. Owned(a) \in Nat
        BY DEF Owned, TypeOK
    <2>5. totalAccountedStake' = totalAccountedStake + (Owned(a)' - Owned(a))
        BY <2>1, <2>2, <2>4 DEF TypeOK
    <2> QED BY <2>3, <2>5, OneOwnerChanges
<1> QED BY <1>1, <1>2, <1>3, <1>4, <1>5, <1>6, <1>7
    DEF Next, vars, exitVars, Transfer, lockTaskBond, releaseTaskBond, Slashes,
        setWithdrawalCooldown, setWithdrawalsEnabled, Tick

\* The running total is what all agents own together, seeding with its rounding included.
THEOREM TotalIsRight == Spec => []StakeAccounted
<1>1. Init => StakeAccounted
    <2> SUFFICES ASSUME Init PROVE StakeAccounted
        OBVIOUS
    <2>1. Sum(Agents, [a \in Agents |-> activeStake[a] + pendingWithdrawal[a]]) = 0
        BY SumOfZero DEF Init
    <2> QED BY <2>1 DEF Init, StakeAccounted
<1>2. BondInv /\ StakeAccounted /\ [Next]_vars => StakeAccounted'
    BY TypeStep, StakeAccountedStep DEF BondInv
<1> QED BY <1>1, <1>2, BondInvariant, PTL DEF Spec
=============================================================================
