---------------------------- MODULE VaultFactory ----------------------------
(***************************************************************************)
(* contracts/src/VaultFactory.sol: the life of one vault, from its request *)
(* through the rule phase and the resolution rounds, or along the legacy   *)
(* path (createVaultAndDeposit, submitResolutionHash, markVaultDisputed,   *)
(* finalizeVault), which shares the status Active with the other one.      *)
(*                                                                         *)
(* Callers: any account calls what it is allowed to in any order.  Owner,  *)
(* orchestrator, finalizer and safety council are trusted roles that may   *)
(* still act at any moment and in any order.                               *)
(***************************************************************************)
EXTENDS VaultFactoryRuleLib, VaultFactoryResolutionLib

createVaultAndDeposit ==
    /\ whenNotPaused
    /\ vault.status = "Absent"
    /\ GrossCollateral > 0
    /\ ~clock.settlementReached
    /\ FundEscrow
    /\ vault' = [vault EXCEPT !.status = "Active", !.legacyMode = TRUE, !.ruleSet = TRUE]
    /\ UNCHANGED <<committeeVars, submissions, round, resolution, pool, stakingVars, clock,
                   adminVars>>

-----------------------------------------------------------------------------
\* The legacy path.  None of these asks for legacyMode.

AcceptsHashes == vault.status \in {"Active", "Resolving", "Disputed"}

\* A submitted resolution, its dispute window just opened.
Submitted(outcome) ==
    [outcome |-> outcome, disputed |-> FALSE, finalized |-> FALSE, windowOver |-> FALSE]

submitResolutionHash(a, outcome) ==
    /\ whenNotPaused
    /\ clock.settlementReached
    /\ AcceptsHashes
    /\ isActiveAgent(a)
    /\ ~resolution.finalized
    /\ resolution.outcome = "None" \/ resolution.disputed
    /\ resolution' = Submitted(outcome)
    /\ vault' = [vault EXCEPT !.status = "Resolving"]
    /\ UNCHANGED <<committeeVars, submissions, round, moneyVars, stakingVars, clock,
                   adminVars>>

\* The safety council may dispute while the protocol is paused, and after the dispute
\* window as long as nobody has finalized.
markVaultDisputed_WhenDecided ==
    /\ resolution.outcome # "None"
    /\ resolution' = [resolution EXCEPT !.disputed = TRUE, !.finalized = FALSE]
    /\ vault' = [vault EXCEPT !.status = "Disputed"]
    /\ UNCHANGED <<committeeVars, submissions, round, moneyVars, stakingVars, clock,
                   adminVars>>
markVaultDisputed ==
    /\ vault.status = "Resolving"
    /\ resolution.outcome # "None"
    /\ resolution' = [resolution EXCEPT !.disputed = TRUE, !.finalized = FALSE]
    /\ vault' = [vault EXCEPT !.status = "Disputed"]
    /\ UNCHANGED <<committeeVars, submissions, round, moneyVars, stakingVars, clock,
                   adminVars>>

finalizeVault ==
    /\ whenNotPaused
    /\ vault.status \in {"Resolving", "Disputed"}
    /\ resolution.outcome # "None"
    /\ ~resolution.finalized
    /\ ~resolution.disputed
    /\ resolution.windowOver
    /\ executeVaultOutcome(resolution.outcome)
    /\ UNCHANGED <<committeeVars, submissions, round, pool, stakingVars, clock, adminVars>>

-----------------------------------------------------------------------------
\* Rewards are claimed through the factory or from the pool itself, paused or not.

claim(a, pov, native) ==
    /\ pov + native > 0
    /\ pool' = [pool EXCEPT !.claimable[a] = @ - pov, !.heldPov = @ - pov,
                            !.claimableSetup[a] = @ - native, !.heldNative = @ - native]
    /\ stake' = IF StakeRewardClaims THEN [stake EXCEPT ![a] = @ + pov] ELSE stake
    /\ UNCHANGED <<vault, committeeVars, submissions, round, resolution, escrow, collateral,
                   bonds, incidents, clock, adminVars>>

claimRewards(a) ==
    \/ claim(a, pool.claimable[a], pool.claimableSetup[a])  \* VaultFactory.claimRewards
    \/ claim(a, pool.claimable[a], 0)                       \* RewardPool.claimRewards
    \/ claim(a, 0, pool.claimableSetup[a])                  \* RewardPool.claimSetupRewards

-----------------------------------------------------------------------------
\* The surroundings: the owner, the agents' dealings with AgentStaking outside this vault
\* (deposits, withdrawals, slashAgent), which never reach locked stake, and time.

setPaused ==
    /\ Pausable
    /\ paused' = ~paused
    /\ UNCHANGED <<vault, committeeVars, submissions, round, resolution, moneyVars,
                   stakingVars, clock, fees>>

setFees(schedule) ==
    /\ schedule # fees
    /\ fees' = schedule
    /\ UNCHANGED <<vault, committeeVars, submissions, round, resolution, moneyVars,
                   stakingVars, clock, paused>>

moveStake(a, level) ==
    /\ level # stake[a]
    /\ level >= Locked(a)
    /\ stake' = [stake EXCEPT ![a] = level]
    /\ UNCHANGED <<vault, committeeVars, submissions, round, resolution, moneyVars, bonds,
                   incidents, clock, adminVars>>

reachSettlementTime ==
    /\ ~clock.settlementReached
    /\ clock' = [clock EXCEPT !.settlementReached = TRUE]
    /\ UNCHANGED <<vault, committeeVars, submissions, round, resolution, moneyVars,
                   stakingVars, adminVars>>

passDeadline ==
    /\ vault.status \in RoundPhases
    /\ clock.deadlinesPassed < 4
    /\ clock' = [clock EXCEPT !.deadlinesPassed = @ + 1]
    /\ UNCHANGED <<vault, committeeVars, submissions, round, resolution, moneyVars,
                   stakingVars, adminVars>>

passDisputeWindow ==
    /\ resolution.outcome # "None"
    /\ ~resolution.windowOver
    /\ resolution' = [resolution EXCEPT !.windowOver = TRUE]
    /\ UNCHANGED <<vault, committeeVars, submissions, round, moneyVars, stakingVars, clock,
                   adminVars>>

-----------------------------------------------------------------------------
Init == BaseInit

RuleStep ==
    \/ \E value \in SetupDeposits : createVaultRequest(value)
    \/ \E committee \in RuleCommittees : registerRuleCommittee(committee)
    \/ \E a \in Agents : submitRuleDraft(a)
    \/ \E a \in Agents, severity \in Severities : submitRuleIssue(a, severity)
    \/ \E approved \in MakerLists, accepted \in VerifierLists :
       \E maliciousMakers, maliciousVerifiers \in SUBSET Agents :
           finalizeRuleSet(approved, accepted, maliciousMakers, maliciousVerifiers)
    \/ rejectRuleSet
    \/ acceptRuleSetAndFund

ResolutionStep ==
    \/ \E committee \in ResolutionCommittees : registerResolutionCommittee(committee)
    \/ \E a \in Agents, commitment \in Commitments : commitResolution(a, commitment)
    \/ \E a \in Agents, revealed \in Commitments : revealResolution(a, revealed)
    \/ \E auditor \in Agents, judged \in Judgeable, verdict \in Verdicts :
           submitAuditVerdict(auditor, judged, verdict)
    \/ \E challenger \in Accounts, target \in Agents : openPublicChallenge(challenger, target)
    \/ \E id \in DOMAIN round.challenges, successful \in BOOLEAN :
           resolveChallenge(id, successful)
    \/ finalizeV2Vault

LegacyStep ==
    \/ createVaultAndDeposit
    \/ \E a \in Accounts, outcome \in Outcomes : submitResolutionHash(a, outcome)
    \/ markVaultDisputed
    \/ finalizeVault

SurroundingStep ==
    \/ \E a \in Claimants : claimRewards(a)
    \/ setPaused
    \/ \E schedule \in FeeSchedules : setFees(schedule)
    \/ \E a \in Accounts, level \in StakeLevels : moveStake(a, level)
    \/ reachSettlementTime
    \/ passDeadline
    \/ passDisputeWindow

Next == RuleStep \/ ResolutionStep \/ LegacyStep \/ SurroundingStep

Spec == Init /\ [][Next]_vars

-----------------------------------------------------------------------------
\* Properties

\* A member of a registered committee has a bond locked in its role, and nobody else has:
\* however a round ends (reopened, settled, rejected), no bond outlives its committee.
BondsFollowCommittee ==
    LET members(r) == ToSet(CASE r = "RuleMaker" -> ruleCommittee.makers
                              [] r = "RuleVerifier" -> ruleCommittee.verifiers
                              [] r = "ResolutionValidator" -> resolutionCommittee.validators
                              [] r = "ResolutionAuditor" -> resolutionCommittee.auditors)
    IN  \A a \in Accounts, r \in Roles :
            /\ bonds[a][r].active <=> a \in members(r)
            /\ ~bonds[a][r].active => bonds[a][r].left = 0

\* Committees exist only while their phase lasts.
CommitteeMatchesStatus ==
    /\ vault.status \in RoundPhases <=> resolutionCommittee # NoResolutionCommittee
    /\ ruleCommittee # NoRuleCommittee => vault.status = "RuleDrafting"

\* What is locked is part of the stake, through slashes, claims and withdrawals.
BondsWithinStake == \A a \in Accounts : Locked(a) <= stake[a]

\* Once the last deadline has passed and the challenges are answered, no slash of the
\* finalization can hit a consumed incident, so a revert in AgentStaking cannot keep the
\* collateral locked.
FinalizeNeverBlocked ==
    vault.status \in RoundPhases /\ Before(4) /\ openChallenges = {}
    => /\ \A s \in ResolutionSlashes :
              s.amount > 0 => s.incident \notin incidents /\ s.amount <= stake[s.agent]
       /\ ~escrow.settled

\* A vault is disputed exactly as long as its resolution is.
DisputeAgrees == vault.status = "Disputed" <=> resolution.disputed

\* The setter may send the rule set back once, and a resolution is tried twice at most.
RoundsBounded ==
    /\ vault.resolutionRound <= MAX_RESOLUTION_ROUNDS
    /\ vault.ruleRound <= MAX_RULE_REJECTIONS + 1
    /\ vault.rejectionCount > MAX_RULE_REJECTIONS <=> vault.status = "Cancelled"
    /\ vault.status = "ResolutionAuction" => vault.resolutionRound < MAX_RESOLUTION_ROUNDS

\* Whatever the owner, the agents and the council change meanwhile, a vault's committees and
\* dispute are those of its status, and the bonds of its members are covered by their stake.
VaultAgrees == TypeOK /\ CommitteeMatchesStatus /\ DisputeAgrees /\ BondsWithinStake

\* Bonds live and die with the committee they are for, task bonds and challenge bonds
\* alike, through rejections, reopened rounds, slashes and claims.
BondsAreLive ==
    TypeOK /\ BondsFollowCommittee /\ BondHeldWhileOpen /\ BondsWithinStake /\ RoundsBounded

\* RewardPool holds what it owes and no deposit of a vault that has ended.
DepositsAccounted == RewardPoolBacked /\ NoDepositLeftBehind

\* A committee takes the setter's collateral only on evidence: somebody committed to
\* False and revealed just that, was not successfully challenged, and was judged Valid by
\* an auditor who was not successfully challenged either.
CollateralTakenOnEvidence ==
    vault.status = "ResolvedFalse" /\ vault.resolutionRound > 0
    => \E a, b \in Agents :
           /\ round.commits[a].outcome = "False"
           /\ round.reveals[a] = round.commits[a]
           /\ round.verdicts[a][b] = "Valid"
           /\ ~hasSuccessfulChallengeAgainst(a)
           /\ ~hasSuccessfulChallengeAgainst(b)

\* finalizeV2Vault decides slashes and rewards in separate loops; they never disagree: who
\* loses stake in the step that closes a round earns nothing in it.
RewardXorSlashStep ==
    vault.status \in RoundPhases /\ vault'.status \notin RoundPhases
     => \A a \in Accounts :
            stake'[a] < stake[a] => pool'.claimable[a] <= pool.claimable[a]
RewardXorSlash == [][RewardXorSlashStep]_vars

\* Disagreeing costs nothing (README: no slashing for disagreement).  A validator whose
\* reveal matches its commitment keeps its stake, whatever the round decides, unless an
\* auditor called it Invalid or Malicious or a challenge against it succeeded.
DisagreementIsNotSlashedStep ==
    vault.status \in RoundPhases /\ vault'.status \notin RoundPhases
     => \A a \in ToSet(resolutionCommittee.validators) :
            /\ Qualified(a)
            /\ ~hasSuccessfulChallengeAgainst(a)
            /\ \A b \in Agents : round.verdicts[a][b] \notin {"Invalid", "Malicious"}
            => stake'[a] >= stake[a]
DisagreementIsNotSlashed == [][DisagreementIsNotSlashedStep]_vars

\* A validator who committed and did not reveal, or revealed something else, has lost its
\* whole bond by the time the round is closed, whichever of the two slashes took it.
FaultCostsTheBondStep ==
    vault.status \in RoundPhases /\ vault'.status \notin RoundPhases
     => \A a \in ToSet(resolutionCommittee.validators) :
            ~Qualified(a) => stake'[a] = stake[a] - bonds[a]["ResolutionValidator"].left
                             /\ (Disqualified(a) => bonds[a]["ResolutionValidator"].left = 0)
FaultCostsTheBond == [][FaultCostsTheBondStep]_vars

\* Docs/Contract-Handoff.md calls Resolving and Disputed "Legacy V1" states.
LegacyStatesOnlyForLegacyVaults ==
    vault.status \in {"Resolving", "Disputed"} => vault.legacyMode

-----------------------------------------------------------------------------
\* Progress: deadlines pass by themselves, a pause ends, and the protocol's operator keeps
\* answering challenges and finalizing rounds.  Committee members owe nothing.
Operator ==
    /\ WF_vars(passDeadline)
    /\ WF_vars(paused /\ setPaused)
    /\ SF_vars(\E id \in DOMAIN round.challenges, successful \in BOOLEAN :
                   resolveChallenge(id, successful))
    /\ SF_vars(finalizeV2Vault)

FairSpec == Spec /\ Operator

\* No strategy of the members keeps a round open: silent, late, contradictory or
\* challenging without end, the round is settled or reopened.
RoundGetsClosed ==
    vault.status \in RoundPhases ~> vault.status \in Resolved \cup {"ResolutionAuction"}
=============================================================================
