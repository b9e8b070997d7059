------------------------------ MODULE Consensus ------------------------------
(***************************************************************************)
(* What the API makes of a resolution round: the consensus metrics, the    *)
(* readiness to finalize and the agents' tasks it computes from the        *)
(* submissions posted to it, beside the round the factory keeps.  The      *)
(* factory's own verdicts, slashes and rewards come from its module.       *)
(*                                                                         *)
(* One committee sits for every round; an event of the chain is posted to  *)
(* the API at once, later or never.                                        *)
(***************************************************************************)
EXTENDS Integers, SequencesExt, FiniteSets

CONSTANTS
    Agents, Setter,
    Committee,          \* [validators, auditors, minValidCount]
    Commitments,        \* <<outcome, salt>> records
    VerdictsUsed,       \* bound: verdicts auditors give
    MAX_RESOLUTION_ROUNDS,
    MaxChallenges,      \* bound: challenges of a round
    Lossy               \* events may be posted late or never

VARIABLES
    status, round, number, clock,   \* the factory's round
    subs,                           \* submissions the API stored
    claims                          \* agents whose claimRewards trace is stored

vars == <<status, round, number, clock, subs, claims>>

Validators == ToSet(Committee.validators)
Auditors == ToSet(Committee.auditors)
Bonds == [r \in {"ResolutionValidator", "ResolutionAuditor"} |-> [active |-> TRUE, left |-> 2]]
Fees == [validatorBase |-> 1, validatorQuality |-> 1, validatorConsensus |-> 1,
         validatorQuestionable |-> 1, auditorBase |-> 1, auditorHighValue |-> 1]

Chain == INSTANCE VaultFactoryResolutionLib WITH
    Council <- {}, InitialStake <- [a \in Agents |-> 2], StakeLevels <- {}, RuleCommittees <- {},
    ResolutionCommittees <- {}, MakerLists <- {}, VerifierLists <- {}, Judgeable <- Validators,
    FeeSchedules <- {}, SetupDeposits <- {}, GrossCollateral <- 0, StakeRewardClaims <- FALSE,
    MAX_RULE_REJECTIONS <- 1, MAX_CHALLENGES_PER_ROUND <- 20, Claimants <- {}, Pausable <- FALSE,
    vault <- [status |-> status, resolutionRound |-> number], resolutionCommittee <- Committee,
    clock <- [deadlinesPassed |-> clock], stake <- [a \in Agents |-> 2], bonds <- [a \in Agents |-> Bonds],
    incidents <- {}, fees <- Fees, paused <- FALSE, ruleCommittee <- <<>>, submissions <- <<>>,
    resolution <- <<>>, escrow <- <<>>, collateral <- <<>>, pool <- <<>>

ConsensusAssumption ==
    /\ Validators \cup Auditors \subseteq Agents /\ Validators \cap Auditors = {}
    /\ Committee.minValidCount \in 1 .. Len(Committee.validators)
    /\ VerdictsUsed \subseteq Chain!Verdicts

Init ==
    /\ status = "CommitPhase" /\ round = Chain!EmptyRound /\ number = 1 /\ clock = 0
    /\ subs = {} /\ claims = {}

-----------------------------------------------------------------------------
\* The chain's round, and what is posted of it.

Sub(kind, a, target, what) ==
    [kind |-> kind, round |-> number, agent |-> a, target |-> target, what |-> what]

(* A challenge is stored open whatever has become of it. *)
challengeSub(id) == Sub("public_challenge", round.challenges[id].challenger, id, "open")

Events ==
    {Sub("resolution_commit", a, a, round.commits[a]) :
        a \in {v \in Validators : round.commits[v] # Chain!NoCommit}}
    \cup {Sub("resolution_reveal", a, a, round.reveals[a]) : a \in {v \in Validators : Chain!Revealed(v)}}
    \cup {Sub("audit_verdict", p[1], p[2], round.verdicts[p[2]][p[1]]) :
        p \in {q \in Auditors \X Validators : round.verdicts[q[2]][q[1]] # "None"}}
    \cup {challengeSub(id) : id \in DOMAIN round.challenges}

SameSub(s, t) == [s EXCEPT !.what = t.what] = t
posted(event) ==
    IF event.kind = "public_challenge" THEN \E s \in subs : SameSub(s, event) ELSE event \in subs

addSubmission(event) == subs' = subs \cup {event}
maybePosted(event) == addSubmission(event) \/ (Lossy /\ UNCHANGED subs)
postLate ==
    /\ Lossy
    /\ \E event \in Events : ~posted(event) /\ addSubmission(event)
    /\ UNCHANGED <<status, round, number, clock, claims>>

commitResolution(a, c) ==
    /\ status = "CommitPhase" /\ clock = 0 /\ round.commits[a] = Chain!NoCommit
    /\ round' = [round EXCEPT !.commits[a] = c]
    /\ maybePosted(Sub("resolution_commit", a, a, c))
    /\ UNCHANGED status
revealResolution(a, c) ==
    /\ status \in Chain!RevealPhases /\ clock = 1
    /\ round.commits[a] # Chain!NoCommit /\ ~Chain!Revealed(a)
    /\ round' = [round EXCEPT !.reveals[a] = c]
    /\ maybePosted(Sub("resolution_reveal", a, a, c))
    /\ status' = "RevealPhase"
submitAuditVerdict(b, a, verdict) ==
    /\ status \in {"RevealPhase", "AuditPhase"} /\ clock = 2
    /\ round.verdicts[a][b] = "None"
    /\ round' = [round EXCEPT !.verdicts[a][b] = verdict]
    /\ maybePosted(Sub("audit_verdict", b, a, verdict))
    /\ status' = "AuditPhase"

isChallengeEligible(a) == a = Setter \/ a \notin Validators \cup Auditors
openPublicChallenge(a, target) ==
    LET id == Len(round.challenges) + 1 IN
    /\ status \in {"AuditPhase", "PublicChallenge"} /\ clock = 3 /\ id <= MaxChallenges
    /\ isChallengeEligible(a)
    /\ round' = [round EXCEPT !.challenges =
                    Append(@, [challenger |-> a, target |-> target, status |-> "Open", bondAmount |-> 0])]
    /\ maybePosted(Sub("public_challenge", a, id, "open"))
    /\ status' = "PublicChallenge"

RoundStep ==
    /\ \/ \E a \in Validators, c \in Commitments : commitResolution(a, c) \/ revealResolution(a, c)
       \/ \E b \in Auditors, a \in Validators, v \in VerdictsUsed : submitAuditVerdict(b, a, v)
       \/ \E a \in Agents \cup {Setter}, target \in Validators \cup Auditors : openPublicChallenge(a, target)
    /\ UNCHANGED <<number, clock, claims>>

(* finalizeResolution marks the challenge before it asks the chain, which  *)
(* may refuse; a member of the safety council asks the chain alone. *)
resolveChallenge(id, successful, byApi, onChain) ==
    /\ round.challenges[id].status = "Open"
    /\ byApi => posted(challengeSub(id))
    /\ subs' = IF ~byApi THEN subs
               ELSE {IF SameSub(s, challengeSub(id))
                     THEN [s EXCEPT !.what = IF successful THEN "resolved_success" ELSE "resolved_failure"]
                     ELSE s : s \in subs}
    /\ round' = IF onChain
                THEN [round EXCEPT !.challenges[id].status =
                          IF successful THEN "ResolvedSuccess" ELSE "ResolvedFailure"]
                ELSE round
    /\ UNCHANGED <<status, number, clock, claims>>
Resolve ==
    \E id \in DOMAIN round.challenges, successful \in BOOLEAN :
        \/ resolveChallenge(id, successful, TRUE, TRUE)
        \/ Lossy /\ (resolveChallenge(id, successful, FALSE, TRUE) \/ resolveChallenge(id, successful, TRUE, FALSE))

tick == clock < 4 /\ clock' = clock + 1 /\ UNCHANGED <<status, round, number, subs, claims>>

finalizeV2Vault ==
    /\ status \in Chain!FinalizableStatuses /\ Chain!RoundIsOver
    /\ IF ~Chain!reachedConsensus /\ number < MAX_RESOLUTION_ROUNDS
       THEN /\ status' = "CommitPhase" /\ round' = Chain!EmptyRound /\ number' = number + 1 /\ clock' = 0
       ELSE status' = Chain!StatusOf(Chain!finalOutcome) /\ UNCHANGED <<round, number, clock>>
    /\ UNCHANGED <<subs, claims>>

claimRewards(a) ==
    /\ status \in Chain!Resolved /\ claims' = claims \cup {a}
    /\ UNCHANGED <<status, round, number, clock, subs>>

Next ==
    \/ RoundStep \/ postLate \/ Resolve \/ tick \/ finalizeV2Vault
    \/ \E a \in Agents : claimRewards(a)
Spec == Init /\ [][Next]_vars

-----------------------------------------------------------------------------
\* The consensus engine.

roundSubmissions(kind) == {s \in subs : s.kind = kind /\ s.round = number}
reveals == roundSubmissions("resolution_reveal")
audits(a) == {s \in roundSubmissions("audit_verdict") : s.target = a}

agree(V, verdict) ==
    Cardinality({s \in V : s.what = verdict}) * 3 > Cardinality(V) * 2
effectiveVerdict(V) ==
    CASE V = {} -> "Pending"
      [] V # {} /\ agree(V, "Malicious") -> "Malicious"
      [] V # {} /\ agree(V, "Invalid") -> "Invalid"
      [] V # {} /\ agree(V, "Valid") -> "Valid"
      [] OTHER -> "Questionable"

computeResolutionCommitHash(r) == Sub("resolution_commit", r.agent, r.agent, r.what)
matches_Any(r) == \E s \in roundSubmissions("resolution_commit") : s.agent = r.agent
matches(r) == computeResolutionCommitHash(r) \in roundSubmissions("resolution_commit")

revealVerdict(r) == IF ~matches(r) THEN "Mismatch" ELSE effectiveVerdict(audits(r.agent))
With(verdict) == {r \in reveals : revealVerdict(r) = verdict}
valid == With("Valid")

coverage(b) == {s.target : s \in {t \in roundSubmissions("audit_verdict") : t.agent = b}}
missingCoverage(b) == {r \in reveals : r.agent \notin coverage(b)}
slashCandidates ==
    {r.agent : r \in With("Mismatch") \cup With("Invalid") \cup With("Malicious")}
        \cup {b \in Auditors : missingCoverage(b) # {}}

supported(outcome) ==
    /\ Cardinality(valid) >= Committee.minValidCount
    /\ Cardinality({r \in valid : r.what.outcome = outcome}) * 3 > Cardinality(valid) * 2
decidedOutcome == {outcome \in Chain!Outcomes : supported(outcome)}    \* one or none

openChallenges == {s \in roundSubmissions("public_challenge") : s.what = "open"}
readyForFinality == With("Pending") = {} /\ openChallenges = {}
needsRoundReopen == readyForFinality /\ decidedOutcome = {}

(* Challenges of every round count, the metrics those of the round. *)
evaluateFinalityReadiness ==
    /\ clock = 4
    /\ ~\E s \in subs : s.kind = "public_challenge" /\ s.what = "open"
    /\ readyForFinality
    /\ ~needsRoundReopen

-----------------------------------------------------------------------------
\* The task router.

terminal == status \in Chain!Resolved \cup {"Cancelled"}
hasSubmission(kind, a) == \E s \in roundSubmissions(kind) : s.agent = a
committeeTask(stage, a) ==
    CASE stage = "resolution_commit" -> a \in Validators /\ hasSubmission(stage, a)
      [] stage = "resolution_reveal" -> a \in Validators /\ hasSubmission(stage, a)
      [] stage = "audit_review" ->
            a \in Auditors /\ reveals # {} /\ \A r \in reveals : r.agent \in coverage(a)
      [] OTHER -> FALSE
Assigned(stage) ==
    IF terminal THEN {} ELSE IF stage = "audit_review" THEN Auditors ELSE Validators
Stages == {"resolution_commit", "resolution_reveal", "audit_review"}

rewardKinds == {"resolution_reveal", "audit_verdict", "rule_draft", "rule_issue", "public_challenge"}
rewardTasks == IF status \in Chain!Resolved THEN {s.agent : s \in {t \in subs : t.kind \in rewardKinds}} ELSE {}
hasRewardClaim(a) == a \in claims
pendingRewards == {a \in rewardTasks : ~hasRewardClaim(a)}

-----------------------------------------------------------------------------
\* Properties.

TypeOK ==
    /\ status \in Chain!VaultStatus /\ number \in 1 .. MAX_RESOLUTION_ROUNDS /\ clock \in 0 .. 4
    /\ \A s \in subs : s.round \in 1 .. number /\ s.agent \in Agents \cup {Setter}
    /\ Cardinality(decidedOutcome) <= 1 /\ claims \subseteq Agents

(* Everything of this round has been posted, and no challenge was upheld. *)
Complete ==
    /\ \A event \in Events : posted(event)
    /\ \A s \in roundSubmissions("public_challenge") :
         (s.what = "open") <=> (round.challenges[s.target].status = "Open")
NoneUpheld == \A a \in Agents : ~Chain!hasSuccessfulChallengeAgainst(a)

(* The engine and the factory compute the outcome of a round from the same *)
(* evidence in two programs: given all of it they decide the same one, or  *)
(* both none, and the API is not ready to finalize what the chain is not. *)
OutcomesAgree ==
    Complete /\ NoneUpheld /\ ~terminal =>
        /\ decidedOutcome = IF Chain!reachedConsensus THEN {Chain!finalOutcome} ELSE {}
        /\ evaluateFinalityReadiness => Chain!RoundIsOver

(* Whoever the engine marks for slashing after the audits is slashed when  *)
(* the factory closes the round; a reveal that did not match was before. *)
SlashesAgree ==
    Complete /\ NoneUpheld /\ ~terminal /\ clock >= 3 =>
        \A a \in slashCandidates :
            \/ a \in Validators /\ (Chain!Disqualified(a) \/ Chain!ValidatorSlash(a).amount > 0)
            \/ a \in Auditors /\ Chain!AuditorSlash(a).amount > 0

(* Evidence that is missing never condemns: a validator is a candidate for *)
(* slashing only with its commit missing or for what the chain holds too. *)
NoInventedFaults ==
    \A r \in reveals :
        (revealVerdict(r) = "Mismatch" /\ hasSubmission("resolution_commit", r.agent))
            => r.round = number /\ (~terminal => Chain!Disqualified(r.agent))

(* An auditor's task is done exactly when the engine would not slash it    *)
(* for a reveal it skipped, and comes back when another reveal is posted. *)
AuditTaskMatches ==
    \A b \in Assigned("audit_review") :
        reveals # {} => (committeeTask("audit_review", b) <=> b \notin slashCandidates)

(* Everybody the factory rewards for the round is shown the reward until   *)
(* it is claimed.                                                          *)
RewardsTasked ==
    Complete /\ status \in Chain!Resolved =>
        LET requests == Chain!ResolutionRewardRequests(Chain!finalOutcome) IN
        \A i \in DOMAIN requests : requests[i].amount > 0 =>
            /\ requests[i].to \in rewardTasks
            /\ requests[i].to \in pendingRewards <=> requests[i].to \notin claims

=============================================================================
