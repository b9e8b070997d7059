-------------------------- MODULE VaultFactoryLite --------------------------
(***************************************************************************)
(* contracts/src/VaultFactoryLite.sol, the reduced factory that the demo   *)
(* deployment runs instead of VaultFactory, over the same contracts.       *)
(*                                                                         *)
(* What it does as the full factory does is taken from there (Full!...,    *)
(* with no legacy path).  What differs: rule deadlines are enforced, the   *)
(* rule committee is neither paid nor slashed nor cleared, there is one    *)
(* resolution round, it is finalized only after an audit, verdicts are     *)
(* counted by majority, nobody is paid for a round, and the finalizer      *)
(* slashes and rewards when it answers a challenge.  submitRuleDraft and   *)
(* submitRuleIssue only emit events, so they are no actions here.          *)
(***************************************************************************)
EXTENDS VaultBase

CONSTANTS
    ChallengeFailureSlashBps,   \* FeeManager.challengeFailureSlashBps
    SlashAmounts                \* slashAmount of resolveChallenge

VARIABLE issueDeadlinePassed    \* block.timestamp > issueDeadline of the rule committee

\* The reduced factory has no pause, no limit on open challenges and one round.
ASSUME ReducedFactory ==
    /\ ~Pausable
    /\ MAX_CHALLENGES_PER_ROUND > MaxChallenges
    /\ MAX_RESOLUTION_ROUNDS = 1
    /\ ChallengeFailureSlashBps \in 0 .. MAX_BPS /\ SlashAmounts \subseteq Nat

Full == INSTANCE VaultFactory

liteVars == <<vars, issueDeadlinePassed>>

Before(n) == Full!Before(n)

-----------------------------------------------------------------------------
\* The rule phase.

createVaultRequest(setupDeposit) ==
    /\ Full!createVaultRequest(setupDeposit)
    /\ UNCHANGED issueDeadlinePassed

registerRuleCommittee(committee) ==
    /\ Full!registerRuleCommittee(committee)
    /\ issueDeadlinePassed' = FALSE

releaseRuleCommittee ==
    /\ bonds' = Released(ToSet(ruleCommittee.makers \o ruleCommittee.verifiers),
                         {"RuleMaker", "RuleVerifier"})
    /\ UNCHANGED <<stake, incidents>>

finalizeRuleSet ==
    /\ vault.status = "RuleDrafting"
    /\ issueDeadlinePassed
    /\ releaseRuleCommittee
    /\ vault' = [vault EXCEPT !.status = "UserRuleReview", !.ruleSet = TRUE]
    /\ UNCHANGED <<committeeVars, submissions, round, resolution, moneyVars, clock, adminVars,
                   issueDeadlinePassed>>

\* criteriaHash stays set.
rejectRuleSet ==
    LET cancelled == Full!rejectedTooOften
    IN  /\ vault.status = "UserRuleReview"
        /\ vault' = [vault EXCEPT !.rejectionCount = @ + 1,
                                  !.status = IF cancelled THEN "Cancelled" ELSE "RuleAuction"]
        /\ pool' = IF cancelled THEN emptySetup(pool) ELSE pool
        /\ UNCHANGED <<committeeVars, submissions, round, resolution, escrow, collateral,
                       stakingVars, clock, adminVars, issueDeadlinePassed>>

acceptRuleSetAndFund == Full!acceptRuleSetAndFund /\ UNCHANGED issueDeadlinePassed

-----------------------------------------------------------------------------
\* The resolution round.

registerResolutionCommittee(committee) ==
    /\ Full!registerResolutionCommittee(committee)
    /\ UNCHANGED issueDeadlinePassed

commitResolution(a, commitment) ==
    /\ Full!commitResolution(a, commitment)
    /\ UNCHANGED issueDeadlinePassed

\* A slash of a positive amount, from a bond that has it, for a new incident.
slashTaskBond(slash) ==
    /\ bonds[slash.agent][slash.role].active
    /\ slash.incident \notin incidents
    /\ slash.amount <= bonds[slash.agent][slash.role].left
    /\ incidents' = incidents \cup {slash.incident}
    /\ stake' = [stake EXCEPT ![slash.agent] = @ - slash.amount]
    /\ bonds' = [bonds EXCEPT ![slash.agent][slash.role].left = @ - slash.amount]

\* slashRemaining(validator) of a reveal that does not hash to the commitment.
MismatchSlash(a) ==
    Slash(a, "ResolutionValidator", bonds[a]["ResolutionValidator"].left, <<"lite-mismatch", a>>)

isMismatch(a, revealed) == revealed # round.commits[a]

revealResolution(a, revealed) ==
    /\ Full!IsValidator(a)
    /\ Before(1)
    /\ vault.status \in RevealPhases
    /\ recordReveal(a, revealed)
    /\ vault' = [vault EXCEPT !.status = "RevealPhase"]
    /\ IF isMismatch(a, revealed) /\ MismatchSlash(a).amount > 0
       THEN slashTaskBond(MismatchSlash(a))
       ELSE UNCHANGED stakingVars
    /\ UNCHANGED <<committeeVars, submissions, resolution, moneyVars, clock, adminVars,
                   issueDeadlinePassed>>

\* Here the address judged must have revealed.
submitAuditVerdict(auditor, judged, verdict) ==
    /\ Revealed(judged)
    /\ Full!submitAuditVerdict(auditor, judged, verdict)
    /\ UNCHANGED issueDeadlinePassed

openPublicChallenge(challenger, target) ==
    /\ Full!openPublicChallenge(challenger, target)
    /\ UNCHANGED issueDeadlinePassed

\* The whole bond goes back, the reward is taken from the deposit uncapped (it must be
\* positive and there), and the finalizer slashes the target as it sees fit.
grantChallenge(id, role, slashAmount) ==
    LET challenge == round.challenges[id]
        reward == <<[to |-> challenge.challenger, amount |-> fees.challengerSuccess]>>
    IN  /\ fees.challengerSuccess \in 1 .. pool.reward
        /\ pool' = allocateResolutionRewards(
                       payChallengeBond(pool, id, challenge.bondAmount), reward)
        /\ IF slashAmount > 0
           THEN slashTaskBond(Slash(challenge.target, role, slashAmount,
                                    <<"challenge", id, challenge.target>>))
           ELSE UNCHANGED stakingVars

\* A share of the bond goes to the treasury, the rest back; a refund of nothing reverts.
rejectChallenge_KeepsRefund(id) ==
    /\ Bps(round.challenges[id].bondAmount, ChallengeFailureSlashBps)
           < round.challenges[id].bondAmount
    /\ pool' = payChallengeBond(pool, id,
                   Bps(round.challenges[id].bondAmount, ChallengeFailureSlashBps))
    /\ UNCHANGED stakingVars
rejectChallenge(id) ==
    /\ Bps(round.challenges[id].bondAmount, ChallengeFailureSlashBps)
           < round.challenges[id].bondAmount
    /\ pool' = payChallengeBond(pool, id, round.challenges[id].bondAmount)
    /\ UNCHANGED stakingVars

resolveChallenge(id, successful, role, slashAmount) ==
    /\ closeChallenge(id, successful)
    /\ IF successful THEN grantChallenge(id, role, slashAmount) ELSE rejectChallenge(id)
    /\ UNCHANGED <<vault, committeeVars, submissions, resolution, escrow, collateral, clock,
                   adminVars, issueDeadlinePassed>>

-----------------------------------------------------------------------------
\* The tally and the end of the round.

\* A validator's evidence is valid when more auditors call it Valid than Invalid or
\* Malicious and no challenge against the validator succeeded.  Auditors who lost a
\* challenge count, and so do reveals that missed their commitment.
JudgedAs(a, verdicts) ==
    Cardinality({b \in ToSet(resolutionCommittee.auditors) : round.verdicts[a][b] \in verdicts})
isAuditValid(a) ==
    /\ ~hasSuccessfulChallengeAgainst(a)
    /\ JudgedAs(a, {"Valid"}) > JudgedAs(a, {"Invalid", "Malicious"})

Counted_Unaudited == {a \in ToSet(resolutionCommittee.validators) : Revealed(a)}
Counted == {a \in ToSet(resolutionCommittee.validators) : Revealed(a) /\ isAuditValid(a)}

Supported(outcome) ==
    /\ Cardinality(Counted) >= resolutionCommittee.minValidCount
    /\ Cardinality({a \in Counted : round.reveals[a].outcome = outcome}) * 3
           > Cardinality(Counted) * 2

tallyOutcome ==
    IF \E outcome \in Outcomes : Supported(outcome)
    THEN CHOOSE outcome \in Outcomes : Supported(outcome)
    ELSE "Invalid"

FinalizableStatuses_AuditOnly == {"AuditPhase"}
FinalizableStatuses == {"AuditPhase", "PublicChallenge"}

finalizeV2Vault ==
    /\ vault.status \in FinalizableStatuses
    /\ Full!RoundIsOver
    /\ bonds' = Released(ToSet(resolutionCommittee.validators \o resolutionCommittee.auditors),
                         {"ResolutionValidator", "ResolutionAuditor"})
    /\ resolutionCommittee' = NoResolutionCommittee
    /\ executeVaultOutcome(tallyOutcome)
    /\ pool' = emptyReward(pool)
    /\ UNCHANGED <<ruleCommittee, submissions, round, stake, incidents, clock, adminVars,
                   issueDeadlinePassed>>

-----------------------------------------------------------------------------
\* Claims and surroundings, as for the full factory.

claimRewards(a) == Full!claimRewards(a) /\ UNCHANGED issueDeadlinePassed
setFees(schedule) == Full!setFees(schedule) /\ UNCHANGED issueDeadlinePassed
moveStake(a, level) == Full!moveStake(a, level) /\ UNCHANGED issueDeadlinePassed
reachSettlementTime == Full!reachSettlementTime /\ UNCHANGED issueDeadlinePassed
passDeadline == Full!passDeadline /\ UNCHANGED issueDeadlinePassed

passIssueDeadline ==
    /\ vault.status = "RuleDrafting"
    /\ ~issueDeadlinePassed
    /\ issueDeadlinePassed' = TRUE
    /\ UNCHANGED vars

-----------------------------------------------------------------------------
Init == BaseInit /\ issueDeadlinePassed = FALSE

RuleStep ==
    \/ \E value \in SetupDeposits : createVaultRequest(value)
    \/ \E committee \in RuleCommittees : registerRuleCommittee(committee)
    \/ finalizeRuleSet
    \/ rejectRuleSet
    \/ acceptRuleSetAndFund

ResolutionStep ==
    \/ \E committee \in ResolutionCommittees : registerResolutionCommittee(committee)
    \/ \E a \in Agents, commitment \in Commitments : commitResolution(a, commitment)
    \/ \E a \in Agents, revealed \in Commitments : revealResolution(a, revealed)
    \/ \E auditor \in Agents, judged \in Judgeable, verdict \in Verdicts :
           submitAuditVerdict(auditor, judged, verdict)
    \/ \E challenger \in Accounts, target \in Agents : openPublicChallenge(challenger, target)
    \/ \E id \in DOMAIN round.challenges, successful \in BOOLEAN, role \in Roles,
          slashAmount \in SlashAmounts :
           resolveChallenge(id, successful, role, slashAmount)
    \/ finalizeV2Vault

SurroundingStep ==
    \/ \E a \in Claimants : claimRewards(a)
    \/ \E schedule \in FeeSchedules : setFees(schedule)
    \/ \E a \in Accounts, level \in StakeLevels : moveStake(a, level)
    \/ reachSettlementTime
    \/ passDeadline
    \/ passIssueDeadline

Next == RuleStep \/ ResolutionStep \/ SurroundingStep

Spec == Init /\ [][Next]_liteVars

-----------------------------------------------------------------------------
\* Properties

LiteTypeOK == TypeOK /\ issueDeadlinePassed \in BOOLEAN

\* Although the rule committee stays registered, bonds live exactly as long as the phase
\* they are for: rule bonds while drafting, resolution bonds until the round is settled.
BondsFollowPhase ==
    LET members(r) ==
            CASE r = "RuleMaker" -> ToSet(ruleCommittee.makers)
              [] r = "RuleVerifier" -> ToSet(ruleCommittee.verifiers)
              [] r = "ResolutionValidator" -> ToSet(resolutionCommittee.validators)
              [] r = "ResolutionAuditor" -> ToSet(resolutionCommittee.auditors)
        phase(r) == IF r \in {"RuleMaker", "RuleVerifier"} THEN {"RuleDrafting"} ELSE RoundPhases
    IN  \A a \in Accounts, r \in Roles :
            /\ bonds[a][r].active <=> a \in members(r) /\ vault.status \in phase(r)
            /\ Locked(a) <= stake[a]

\* RewardPool holds what it owes, uncapped rewards, shared bonds and sweeps included: a
\* challenge's bond while it is open, and no deposit of a vault cancelled or resolved.
DepositsAccounted ==
    RewardPoolBacked /\ BondHeldWhileOpen /\ NoDepositLeftBehind

\* Bonds and deposits are held exactly while a phase needs them.
MoneyFollowsPhase == LiteTypeOK /\ BondsFollowPhase /\ DepositsAccounted

\* docs/Contract-Handoff.md, integration rules: "hard slash only follows objective faults or
\* resolved challenge outcomes".  Every slash of a bond comes with a fault of its own, a reveal
\* just recorded that misses its commitment or a challenge just won, and is taken from the
\* stake; a bond released is its owner's again, whatever the auditors said.
SlashFollowsFault ==
    \A a \in Accounts, r \in Roles :
        bonds'[a][r].left < bonds[a][r].left
        => IF bonds'[a][r].active
           THEN /\ \/ r = "ResolutionValidator" /\ ~Revealed(a) /\ Disqualified(a)'
                   \/ \E id \in openChallenges :
                          /\ round.challenges[id].target = a
                          /\ round'.challenges[id].status = "ResolvedSuccess"
                /\ stake'[a] = stake[a] - (bonds[a][r].left - bonds'[a][r].left)
           ELSE stake'[a] = stake[a]

\* The collateral is taken only when more than two thirds of at least minValidCount
\* validators revealed False and kept, in spite of verdicts and challenges, an auditor's
\* Valid each.
TakenByQualifiedMajority ==
    vault'.status = "ResolvedFalse" /\ vault.status # "ResolvedFalse"
    => LET voters == {a \in ToSet(resolutionCommittee.validators) :
                         /\ ~hasSuccessfulChallengeAgainst(a)
                         /\ \E b \in Agents : round.verdicts[a][b] = "Valid"}
           against == {a \in voters : round.reveals[a].outcome = "False"}
       IN  /\ against # {}
           /\ Cardinality(voters) >= resolutionCommittee.minValidCount
           /\ Cardinality(against) * 3 > resolutionCommittee.minValidCount * 2

\* Bonds are taken for a fault or a lost challenge, the collateral by a qualified majority.
TakenForCause == [][SlashFollowsFault /\ TakenByQualifiedMajority]_liteVars

-----------------------------------------------------------------------------
\* Progress: deadlines pass, the operator answers challenges and finalizes.

Operator ==
    /\ WF_liteVars(passDeadline)
    /\ WF_liteVars(\E id \in DOMAIN round.challenges, successful \in BOOLEAN, role \in Roles,
                      slashAmount \in SlashAmounts :
                       resolveChallenge(id, successful, role, slashAmount))
    /\ WF_liteVars(finalizeV2Vault)

FairSpec == Spec /\ Operator

\* Once one auditor has judged one reveal, the vault is resolved, whoever challenges what,
\* and even if rewards for challengers have emptied the deposit.
AuditedRoundGetsClosed ==
    vault.status \in {"AuditPhase", "PublicChallenge"} ~> vault.status \in Resolved

\* README.md: "if evidence remains insufficient, the protocol can reopen the round or fall
\* back to INVALID".  So every round is closed.
RoundGetsClosed ==
    vault.status \in RoundPhases ~> vault.status \in Resolved \cup {"ResolutionAuction"}
=============================================================================
