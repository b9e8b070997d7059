--------------------- MODULE VaultFactoryResolutionLib ----------------------
(***************************************************************************)
(* The resolution rounds of a vault:                                       *)
(* contracts/src/libraries/VaultFactoryResolutionLib with the VaultFactory *)
(* functions that call it.                                                 *)
(*                                                                         *)
(* Validators commit to an outcome, reveal it, auditors judge the reveals, *)
(* anybody allowed to challenges a member, and a finalizer closes the      *)
(* round.  clock.deadlinesPassed counts the deadlines of the round that    *)
(* block.timestamp is past: commit, reveal, audit, challenge.              *)
(***************************************************************************)
EXTENDS VaultBase

Before(n) == clock.deadlinesPassed = n

IsValidator(a) == a \in ToSet(resolutionCommittee.validators)
IsAuditor(a) == a \in ToSet(resolutionCommittee.auditors)
IsMember(a) == IsValidator(a) \/ IsAuditor(a)

-----------------------------------------------------------------------------
\* The steps of a round.

registerResolutionCommittee(committee) ==
    /\ whenNotPaused
    /\ vault.status \in {"Active", "ResolutionAuction"}
    /\ clock.settlementReached
    /\ recordResolutionCommittee(committee)
    /\ LockBonds(committee.validators, "ResolutionValidator",
                 committee.auditors, "ResolutionAuditor")
    /\ vault' = [vault EXCEPT !.status = "CommitPhase", !.resolutionRound = @ + 1]
    /\ round' = EmptyRound
    /\ clock' = [clock EXCEPT !.deadlinesPassed = 0]
    /\ UNCHANGED <<ruleCommittee, submissions, resolution, moneyVars, adminVars>>

commitResolution(a, commitment) ==
    /\ whenNotPaused
    /\ IsValidator(a)
    /\ vault.status = "CommitPhase"
    /\ Before(0)
    /\ recordCommit(a, commitment)
    /\ UNCHANGED <<vault, committeeVars, submissions, resolution, moneyVars, stakingVars,
                   clock, adminVars>>

\* A reveal that does not hash to the commitment is recorded, disqualified, and costs the
\* validator its whole bond.
MismatchSlash(a, revealed) ==
    Slash(a, "ResolutionValidator", bonds[a]["ResolutionValidator"].left,
          <<"commit-reveal-mismatch", a, round.commits[a], revealed>>)

revealResolution(a, revealed) ==
    /\ whenNotPaused
    /\ IsValidator(a)
    /\ Before(1)
    /\ vault.status \in RevealPhases
    /\ recordReveal(a, revealed)
    /\ vault' = [vault EXCEPT !.status = "RevealPhase"]
    /\ IF revealed = round.commits[a] \/ MismatchSlash(a, revealed).amount = 0
       THEN UNCHANGED stakingVars
       ELSE LET slash == MismatchSlash(a, revealed)
            IN  /\ slash.incident \notin incidents
                /\ incidents' = incidents \cup {slash.incident}
                /\ stake' = [stake EXCEPT ![a] = @ - slash.amount]
                /\ bonds' = [bonds EXCEPT ![a]["ResolutionValidator"].left = 0]
    /\ UNCHANGED <<committeeVars, submissions, resolution, moneyVars, clock, adminVars>>

\* The address judged is not checked: a verdict on somebody who is no validator is
\* recorded, counts for nothing, and still opens the audit phase.
submitAuditVerdict(auditor, judged, verdict) ==
    /\ whenNotPaused
    /\ IsAuditor(auditor)
    /\ Before(2)
    /\ vault.status \in {"RevealPhase", "AuditPhase"}
    /\ recordAuditVerdict(judged, auditor, verdict)
    /\ vault' = [vault EXCEPT !.status = "AuditPhase"]
    /\ UNCHANGED <<committeeVars, submissions, resolution, moneyVars, stakingVars, clock,
                   adminVars>>

IsPrivileged(a) == a = Setter \/ a \in Council

openPublicChallenge(challenger, target) ==
    LET id == Len(round.challenges) + 1
    IN  /\ whenNotPaused
        /\ Before(3)
        /\ vault.status \in {"AuditPhase", "PublicChallenge"}
        /\ IsMember(target)
        /\ \/ IsPrivileged(challenger)
           \/ ~IsMember(challenger) /\ challenger # target /\ isActiveAgent(challenger)
        /\ Cardinality(openChallenges) < MAX_CHALLENGES_PER_ROUND
        /\ id <= MaxChallenges
        /\ openChallenge(challenger, target, fees.challengeBond)
        /\ pool' = collectChallengeBond(pool, id, fees.challengeBond)
        /\ vault' = [vault EXCEPT !.status = "PublicChallenge"]
        /\ UNCHANGED <<committeeVars, submissions, resolution, escrow, collateral,
                       stakingVars, clock, adminVars>>

\* Won or lost, the whole bond leaves the pool (back to the challenger, less the share of a
\* lost one that FeeManager keeps at or below it and that goes to the
\* treasury); a challenger who wins is also rewarded out of the vault's deposit.
resolveChallenge(id, successful) ==
    LET challenge == round.challenges[id]
        closed == payChallengeBond(pool, id, challenge.bondAmount)
        reward == <<[to |-> challenge.challenger, amount |-> fees.challengerSuccess]>>
    IN  /\ whenNotPaused
        /\ closeChallenge(id, successful)
        /\ IsMember(challenge.target)
        /\ pool.challengeBonds[id] >= challenge.bondAmount
        /\ pool' = IF successful THEN allocateResolutionRewards(closed, reward) ELSE closed
        /\ UNCHANGED <<vault, committeeVars, submissions, resolution, escrow, collateral,
                       stakingVars, clock, adminVars>>

-----------------------------------------------------------------------------
\* What a finalized round makes of the submissions.

\* The auditors who judged a validator, less those who lost a challenge.
consideredAuditors(validator) ==
    {b \in ToSet(resolutionCommittee.auditors) :
        /\ ~hasSuccessfulChallengeAgainst(b)
        /\ round.verdicts[validator][b] # "None"}

\* More than two thirds of them agree on a verdict.
agreedVerdict(validator, verdict) ==
    LET considered == consideredAuditors(validator)
    IN  Cardinality({b \in considered : round.verdicts[validator][b] = verdict}) * 3
            > Cardinality(considered) * 2

effectiveAuditVerdict_DefaultInvalid(validator) ==
    IF \E verdict \in Verdicts : agreedVerdict(validator, verdict)
    THEN CHOOSE verdict \in Verdicts : agreedVerdict(validator, verdict)
    ELSE "Invalid"
effectiveAuditVerdict(validator) ==
    IF \E verdict \in Verdicts : agreedVerdict(validator, verdict)
    THEN CHOOSE verdict \in Verdicts : agreedVerdict(validator, verdict)
    ELSE "Questionable"

\* The reveals the consensus counts.
Qualified(a) == Revealed(a) /\ ~Disqualified(a)
consensusVerdict(a) ==
    IF hasSuccessfulChallengeAgainst(a) THEN "Malicious" ELSE effectiveAuditVerdict(a)
Counted_QuestionableToo ==
    {a \in ToSet(resolutionCommittee.validators) :
        Qualified(a) /\ consensusVerdict(a) \in {"Valid", "Questionable"}}
Counted ==
    {a \in ToSet(resolutionCommittee.validators) :
        Qualified(a) /\ consensusVerdict(a) = "Valid"}

Supported(outcome) ==
    /\ Cardinality(Counted) >= resolutionCommittee.minValidCount
    /\ Cardinality({a \in Counted : round.reveals[a].outcome = outcome}) * 3
           > Cardinality(Counted) * 2

reachedConsensus == \E outcome \in Outcomes : Supported(outcome)
finalOutcome ==
    IF reachedConsensus THEN CHOOSE outcome \in Outcomes : Supported(outcome) ELSE "Invalid"

\* Judged(auditor) of the submitted reveals, disqualified ones too.
Reveals == {a \in ToSet(resolutionCommittee.validators) : Revealed(a)}
Judged(auditor) == {a \in Reveals : round.verdicts[a][auditor] # "None"}
HighValue(auditor) ==
    \E a \in Judged(auditor) : round.verdicts[a][auditor] \in {"Invalid", "Malicious"}

MissingSubmission_NeitherStep(a) == round.commits[a] = NoCommit /\ ~Revealed(a)
MissingSubmission(a) == round.commits[a] = NoCommit \/ ~Revealed(a)

\* Every slash of the finalization is an incident of its round.
RoundIncident_AnyRound(label, a, detail) == <<label, a, detail>>
RoundIncident(label, a, detail) == <<label, vault.resolutionRound, a, detail>>

ValidatorSlash(a) ==
    LET left == bonds[a]["ResolutionValidator"].left
        verdict == consensusVerdict(a)
        slash(amount, incident) == Slash(a, "ResolutionValidator", amount, incident)
    IN  IF MissingSubmission(a)
        THEN slash(left, RoundIncident("missing-resolution-submission", a, "ResolutionValidator"))
        ELSE slash(CASE Disqualified(a) -> 0
                     [] ~Disqualified(a) /\ verdict = "Malicious" -> left
                     [] ~Disqualified(a) /\ verdict = "Invalid" -> left \div 2
                     [] OTHER -> 0,
                   RoundIncident("resolution-validator-verdict", a, verdict))

AuditorSlash(b) ==
    LET left == bonds[b]["ResolutionAuditor"].left
        slash(amount, label) ==
            Slash(b, "ResolutionAuditor", amount, RoundIncident(label, b, "ResolutionAuditor"))
    IN  IF Judged(b) # Reveals
        THEN slash(left, "missing-audit-verdict")
        ELSE slash(IF hasSuccessfulChallengeAgainst(b) THEN left ELSE 0,
                   "auditor-successful-challenge")

ResolutionSlashes ==
    {ValidatorSlash(a) : a \in ToSet(resolutionCommittee.validators)}
        \cup {AuditorSlash(b) : b \in ToSet(resolutionCommittee.auditors)}

ValidatorReward(a, outcome) ==
    IF hasSuccessfulChallengeAgainst(a) \/ ~Qualified(a) THEN 0
    ELSE CASE effectiveAuditVerdict(a) = "Valid" ->
                  fees.validatorBase + fees.validatorQuality
                      + (IF round.reveals[a].outcome = outcome THEN fees.validatorConsensus ELSE 0)
           [] effectiveAuditVerdict(a) = "Questionable" -> fees.validatorQuestionable
           [] OTHER -> 0

AuditorReward_Incomplete(b) ==
    IF hasSuccessfulChallengeAgainst(b) \/ Judged(b) = {} THEN 0
    ELSE fees.auditorBase + (IF HighValue(b) THEN fees.auditorHighValue ELSE 0)
AuditorReward(b) ==
    IF hasSuccessfulChallengeAgainst(b) \/ Reveals = {} \/ Judged(b) # Reveals THEN 0
    ELSE fees.auditorBase + (IF HighValue(b) THEN fees.auditorHighValue ELSE 0)

ResolutionRewardRequests(outcome) ==
    LET validators == resolutionCommittee.validators
        auditors == resolutionCommittee.auditors
    IN  [i \in DOMAIN validators |->
            [to |-> validators[i], amount |-> ValidatorReward(validators[i], outcome)]]
        \o [i \in DOMAIN auditors |->
            [to |-> auditors[i], amount |-> AuditorReward(auditors[i])]]

\* Statuses a round is finalized from, and when it may be.
FinalizableStatuses_AfterAudit == {"AuditPhase", "PublicChallenge"}
FinalizableStatuses == RoundPhases

RoundIsOver == Before(4) /\ openChallenges = {}

\* Slash, release and clear the committee; then either reopen the round, or pay the
\* rewards, execute the outcome and send what is left of the deposit to the treasury.
finalizeV2Vault ==
    /\ whenNotPaused
    /\ vault.status \in FinalizableStatuses
    /\ RoundIsOver
    /\ SlashAndRelease(ResolutionSlashes,
                       ToSet(resolutionCommittee.validators \o resolutionCommittee.auditors),
                       {"ResolutionValidator", "ResolutionAuditor"})
    /\ resolutionCommittee' = NoResolutionCommittee
    /\ IF ~reachedConsensus /\ vault.resolutionRound < MAX_RESOLUTION_ROUNDS
       THEN /\ vault' = [vault EXCEPT !.status = "ResolutionAuction"]
            /\ UNCHANGED <<resolution, moneyVars>>
       ELSE /\ executeVaultOutcome(finalOutcome)
            /\ pool' = emptyReward(
                   allocateResolutionRewards(pool, ResolutionRewardRequests(finalOutcome)))
    /\ UNCHANGED <<ruleCommittee, submissions, round, clock, adminVars>>
=============================================================================
