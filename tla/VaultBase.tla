----------------------------- MODULE VaultBase ------------------------------
(***************************************************************************)
(* The state of one vault, spread in the code over VaultFactory and the    *)
(* contracts it calls (CommitteeRegistry, ResolutionRegistry, VaultEscrow, *)
(* RewardPool, AgentStaking, FeeManager), and what those contracts do when *)
(* called.  The operations of the vault are in VaultFactoryRuleLib,        *)
(* VaultFactoryResolutionLib and VaultFactory, which extend this module.   *)
(*                                                                         *)
(* A transaction is atomic: an external function with every call it makes  *)
(* is one action, and a revert anywhere in it disables the action.         *)
(*                                                                         *)
(* An operator X_Variant before X, here and in the modules that extend     *)
(* this one, is X with a mistake in it, kept to show which property        *)
(* notices; the specification never uses it.                               *)
(***************************************************************************)
EXTENDS SequencesExt, Sums

CONSTANTS
    Agents,                 \* accounts that may stake and sit on committees
    Council,                \* the owner and the members of safetyCouncil
    Setter,                 \* the account that creates the vault
    InitialStake,           \* activeStake of every account at the start
    StakeLevels,            \* what an account moves its activeStake to from outside
    RuleCommittees,         \* arguments of registerRuleCommittee
    ResolutionCommittees,   \* arguments of registerResolutionCommittee
    MakerLists, VerifierLists,  \* arguments of finalizeRuleSet
    Commitments,            \* the <<outcome, salt>> pairs validators commit to and reveal
    Judgeable,              \* the addresses auditors give verdicts on
    FeeSchedules,           \* configurations of FeeManager
    SetupDeposits,          \* msg.value of createVaultRequest
    GrossCollateral,        \* the collateral the setter brings
    StakeRewardClaims,      \* RewardPool.stakeRewardClaims
    MAX_RULE_REJECTIONS, MAX_RESOLUTION_ROUNDS,     \* 1 and 2 in the code
    MAX_CHALLENGES_PER_ROUND,                       \* 20 in the code
    MaxChallenges,          \* bound: challenges opened in one round
    Claimants,              \* bound: accounts that claim rewards while we watch
    Pausable                \* bound: whether the owner ever pauses

MAX_BPS == 10000

Accounts == Agents \cup Council \cup {Setter}
Outcomes == {"True", "False", "Invalid"}
Verdicts == {"Valid", "Questionable", "Invalid", "Malicious"}
Severities == {"Low", "Medium", "High", "Critical"}
Roles == {"RuleMaker", "RuleVerifier", "ResolutionValidator", "ResolutionAuditor"}
Holders == {"setter", "treasury", "escrow", "compensation"}

RevealPhases == {"CommitPhase", "RevealPhase"}
RoundPhases == RevealPhases \cup {"AuditPhase", "PublicChallenge"}
Resolved == {"ResolvedTrue", "ResolvedFalse", "ResolvedInvalid"}
VaultStatus ==
    {"Absent", "RuleAuction", "RuleDrafting", "UserRuleReview", "Active",
     "ResolutionAuction", "Resolving", "Disputed", "Cancelled"} \cup RoundPhases \cup Resolved

FeeSchedule ==
    [creationFeeBps : 0 .. MAX_BPS, settlementFeeBps : 0 .. MAX_BPS,
     setupDeposit : Nat, rewardDeposit : Nat, challengeBond : Nat, bond : [Roles -> Nat],
     ruleMakerBase : Nat, ruleMakerApprovalBonus : Nat, ruleVerifier : [Severities -> Nat],
     validatorBase : Nat, validatorQuality : Nat, validatorConsensus : Nat,
     validatorQuestionable : Nat, auditorBase : Nat, auditorHighValue : Nat,
     challengerSuccess : Nat]

Challenge ==
    [challenger : Accounts, target : Agents, bondAmount : Nat,
     status : {"Open", "ResolvedSuccess", "ResolvedFailure"}]

ASSUME AccountsAreFinite == IsFiniteSet(Accounts)
ASSUME StakesAreNat == InitialStake \in [Accounts -> Nat] /\ StakeLevels \subseteq Nat
ASSUME FeesAreSchedules == FeeSchedules \subseteq FeeSchedule /\ FeeSchedules # {}
ASSUME CommitteesAreLists ==
    /\ RuleCommittees \subseteq [makers : Seq(Agents), verifiers : Seq(Agents)]
    /\ ResolutionCommittees \subseteq
           [validators : Seq(Agents), auditors : Seq(Agents), minValidCount : Nat]
    /\ MakerLists \cup VerifierLists \subseteq Seq(Agents)
ASSUME AmountsAreNat == GrossCollateral \in Nat /\ SetupDeposits \subseteq Nat
ASSUME CommitmentsHaveOutcomes == \A c \in Commitments : c.outcome \in Outcomes
ASSUME BoundsAreNat ==
    /\ MAX_RULE_REJECTIONS \in Nat /\ MAX_RESOLUTION_ROUNDS \in Nat \ {0}
    /\ {MAX_CHALLENGES_PER_ROUND, MaxChallenges} \subseteq Nat
    /\ Claimants \subseteq Accounts /\ Judgeable \subseteq Agents

VARIABLES
    vault,          \* VaultRecord: status, legacyMode, rounds, pending rule set
    ruleCommittee, resolutionCommittee,     \* CommitteeRegistry
    submissions,    \* drafts and issues of the current rule round
    round,          \* commits, reveals, verdicts and challenges of the resolution round
    resolution,     \* ResolutionRegistry's ResolutionRecord
    escrow,         \* VaultEscrow's EscrowRecord
    collateral,     \* balances of the collateral token
    pool,           \* RewardPool
    stake, bonds, incidents,    \* AgentStaking: activeStake, task bonds, consumedIncidents
    clock,          \* how far block.timestamp has got past the deadlines that matter
    fees, paused

stakingVars == <<stake, bonds, incidents>>
committeeVars == <<ruleCommittee, resolutionCommittee>>
moneyVars == <<escrow, collateral, pool>>
adminVars == <<fees, paused>>
vars == <<vault, committeeVars, submissions, round, resolution, moneyVars, stakingVars,
          clock, adminVars>>

-----------------------------------------------------------------------------
\* Initial values and the empty records of the contracts' mappings.

NoBond == [active |-> FALSE, left |-> 0]
NoRuleCommittee == [makers |-> <<>>, verifiers |-> <<>>]
NoResolutionCommittee == [validators |-> <<>>, auditors |-> <<>>, minValidCount |-> 0]
NoSubmissions == [drafts |-> {}, issues |-> [a \in Agents |-> "None"]]
NoCommit == [outcome |-> "None", salt |-> "None"]
EmptyRound ==
    [commits |-> [a \in Agents |-> NoCommit], reveals |-> [a \in Agents |-> NoCommit],
     verdicts |-> [a \in Agents |-> [b \in Agents |-> "None"]], challenges |-> <<>>]
NoResolution ==
    [outcome |-> "None", disputed |-> FALSE, finalized |-> FALSE, windowOver |-> FALSE]

BaseInit ==
    /\ vault = [status |-> "Absent", legacyMode |-> FALSE, ruleSet |-> FALSE,
                ruleRound |-> 0, resolutionRound |-> 0, rejectionCount |-> 0]
    /\ ruleCommittee = NoRuleCommittee
    /\ resolutionCommittee = NoResolutionCommittee
    /\ submissions = NoSubmissions
    /\ round = EmptyRound
    /\ resolution = NoResolution
    /\ escrow = [initialized |-> FALSE, lockedAmount |-> 0, settled |-> FALSE]
    /\ collateral = [h \in Holders |-> IF h = "setter" THEN GrossCollateral ELSE 0]
    /\ pool = [setup |-> 0, reward |-> 0, challengeBonds |-> [i \in 1 .. MaxChallenges |-> 0],
               claimable |-> [a \in Accounts |-> 0], claimableSetup |-> [a \in Accounts |-> 0],
               heldPov |-> 0, heldNative |-> 0]
    /\ stake = InitialStake
    /\ bonds = [a \in Accounts |-> [r \in Roles |-> NoBond]]
    /\ incidents = {}
    /\ clock = [settlementReached |-> FALSE, deadlinesPassed |-> 0]
    /\ fees \in FeeSchedules
    /\ paused = FALSE

whenNotPaused == ~paused

-----------------------------------------------------------------------------
\* CommitteeRegistry and ResolutionRegistry.

recordRuleCommittee(committee) ==
    /\ IsInjective(committee.makers \o committee.verifiers)
    /\ ruleCommittee' = committee

recordResolutionCommittee(committee) ==
    /\ committee.minValidCount \in 1 .. Len(committee.validators)
    /\ IsInjective(committee.validators \o committee.auditors)
    /\ resolutionCommittee' = committee

recordCommit(a, commitment) ==
    /\ round.commits[a] = NoCommit
    /\ round' = [round EXCEPT !.commits[a] = commitment]

recordReveal(a, revealed) ==
    /\ round.commits[a] # NoCommit
    /\ round.reveals[a] = NoCommit
    /\ round' = [round EXCEPT !.reveals[a] = revealed]

recordAuditVerdict(judged, auditor, verdict) ==
    /\ round.verdicts[judged][auditor] = "None"
    /\ round' = [round EXCEPT !.verdicts[judged][auditor] = verdict]

openChallenge(challenger, target, bondAmount) ==
    /\ bondAmount > 0
    /\ round' = [round EXCEPT !.challenges = Append(@,
                    [challenger |-> challenger, target |-> target,
                     bondAmount |-> bondAmount, status |-> "Open"])]

closeChallenge(id, successful) ==
    /\ round.challenges[id].status = "Open"
    /\ round' = [round EXCEPT !.challenges[id].status =
                    IF successful THEN "ResolvedSuccess" ELSE "ResolvedFailure"]

\* What the records of the round say of a member, and which challenges are undecided.
Revealed(a) == round.reveals[a] # NoCommit
Disqualified(a) == Revealed(a) /\ round.reveals[a] # round.commits[a]

hasSuccessfulChallengeAgainst(a) ==
    \E i \in DOMAIN round.challenges :
        round.challenges[i].target = a /\ round.challenges[i].status = "ResolvedSuccess"

openChallenges == {i \in DOMAIN round.challenges : round.challenges[i].status = "Open"}

-----------------------------------------------------------------------------
\* FeeManager and VaultEscrow.

Bps(amount, bps) == (amount * bps) \div MAX_BPS

\* Collect the creation fee and lock the rest in the escrow: one transfer each.
FundEscrow ==
    LET creationFee == Bps(GrossCollateral, fees.creationFeeBps)
        locked == GrossCollateral - creationFee
    IN  /\ locked > 0
        /\ ~escrow.initialized
        /\ collateral["setter"] >= GrossCollateral
        /\ collateral' = [collateral EXCEPT !["setter"] = @ - GrossCollateral,
                                            !["treasury"] = @ + creationFee,
                                            !["escrow"] = @ + locked]
        /\ escrow' = [initialized |-> TRUE, lockedAmount |-> locked, settled |-> FALSE]

settlementFee_OnInvalidToo(outcome) == Bps(escrow.lockedAmount, fees.settlementFeeBps)
settlementFee(outcome) ==
    IF outcome = "Invalid" THEN 0 ELSE Bps(escrow.lockedAmount, fees.settlementFeeBps)

\* releaseToSetter, slashCollateral or refundAfterInvalid.
SettleEscrow(outcome) ==
    LET fee == settlementFee(outcome)
        receiver == IF outcome = "False" THEN "compensation" ELSE "setter"
    IN  /\ escrow.initialized
        /\ ~escrow.settled
        /\ fee <= escrow.lockedAmount
        /\ collateral["escrow"] >= escrow.lockedAmount
        /\ escrow' = [escrow EXCEPT !.settled = TRUE]
        /\ collateral' = [collateral EXCEPT !["escrow"] = @ - escrow.lockedAmount,
                                            !["treasury"] = @ + fee,
                                            ![receiver] = @ + (escrow.lockedAmount - fee)]

StatusOf(outcome) ==
    CASE outcome = "True" -> "ResolvedTrue"
      [] outcome = "False" -> "ResolvedFalse"
      [] outcome = "Invalid" -> "ResolvedInvalid"

\* Pay the collateral out, close the vault and store the final resolution.
executeVaultOutcome_NotStored(outcome) ==
    /\ SettleEscrow(outcome)
    /\ vault' = [vault EXCEPT !.status = StatusOf(outcome)]
    /\ UNCHANGED resolution
executeVaultOutcome(outcome) ==
    /\ SettleEscrow(outcome)
    /\ vault' = [vault EXCEPT !.status = StatusOf(outcome)]
    /\ resolution' = [outcome |-> outcome, disputed |-> FALSE, finalized |-> TRUE,
                      windowOver |-> TRUE]

-----------------------------------------------------------------------------
\* RewardPool.

collectSetupDeposit(p, amount) ==
    [p EXCEPT !.setup = @ + amount, !.heldNative = @ + amount]
collectResolutionRewardDeposit(p, amount) ==
    [p EXCEPT !.reward = @ + amount, !.heldPov = @ + amount]
collectChallengeBond(p, id, amount) ==
    [p EXCEPT !.challengeBonds[id] = @ + amount, !.heldPov = @ + amount]

\* The bond leaves the pool: to the challenger, or part of it to the treasury.
payChallengeBond(p, id, amount) ==
    [p EXCEPT !.challengeBonds[id] = @ - amount, !.heldPov = @ - amount]

\* The amounts paid when requests [to, amount] are served in order from a balance,
\* each capped by what the ones before it have left.
Requested(reqs, i) == Sum(1 .. i, [j \in DOMAIN reqs |-> reqs[j].amount])
Payout_Uncapped(reqs, i, balance) == reqs[i].amount
Payout(reqs, i, balance) ==
    LET left == IF Requested(reqs, i - 1) >= balance THEN 0
                ELSE balance - Requested(reqs, i - 1)
    IN  IF reqs[i].amount <= left THEN reqs[i].amount ELSE left
PaidTo(a, reqs, balance) ==
    Sum({i \in DOMAIN reqs : reqs[i].to = a}, [i \in DOMAIN reqs |-> Payout(reqs, i, balance)])
LeftOver(reqs, balance) ==
    IF Requested(reqs, Len(reqs)) >= balance THEN 0 ELSE balance - Requested(reqs, Len(reqs))

allocateSetupRewards(p, reqs) ==
    [p EXCEPT !.setup = LeftOver(reqs, p.setup),
              !.claimableSetup = [a \in Accounts |-> @[a] + PaidTo(a, reqs, p.setup)]]

allocateResolutionRewards(p, reqs) ==
    [p EXCEPT !.reward = LeftOver(reqs, p.reward),
              !.claimable = [a \in Accounts |-> @[a] + PaidTo(a, reqs, p.reward)]]

\* What is left of a deposit goes to the setter or to the treasury.
emptySetup(p) == [p EXCEPT !.heldNative = @ - p.setup, !.setup = 0]
emptyReward(p) == [p EXCEPT !.heldPov = @ - p.reward, !.reward = 0]

-----------------------------------------------------------------------------
\* AgentStaking, as the vault uses it.

Locked(a) == Sum(Roles, [r \in Roles |-> bonds[a][r].left])
freeStakeOf(a) == stake[a] - Locked(a)
isActiveAgent(a) == stake[a] > 0

MayLock_UnlessLocked(a, r) == fees.bond[r] > 0 /\ ~bonds[a][r].active
MayLock(a, r) ==
    /\ fees.bond[r] > 0
    /\ freeStakeOf(a) >= fees.bond[r]
    /\ ~bonds[a][r].active

\* Lock a bond of every member of two lists, each in its role.  A member of one list is
\* in no other (CommitteeRegistry has checked that), so each locks one bond.
LockBonds(firsts, firstRole, seconds, secondRole) ==
    LET member(r) == IF r = firstRole THEN ToSet(firsts)
                     ELSE IF r = secondRole THEN ToSet(seconds) ELSE {}
        locks(a, r) == a \in member(r)
    IN  /\ \A a \in Accounts, r \in Roles : locks(a, r) => MayLock(a, r)
        /\ bonds' = [a \in Accounts |-> [r \in Roles |->
                        IF locks(a, r) THEN [active |-> TRUE, left |-> fees.bond[r]]
                        ELSE bonds[a][r]]]
        /\ UNCHANGED <<stake, incidents>>

\* A slash of `amount' from the bond a holds in a role, charged to an incident.
Slash(a, role, amount, incident) ==
    [agent |-> a, role |-> role, amount |-> amount, incident |-> incident]

SlashedBy(slashes, a) ==
    LET of == {s \in slashes : s.agent = a} IN Sum(of, [s \in of |-> s.amount])

\* The bonds once those of the members in the two roles are released.
Released_FirstList(members, roles) ==
    [a \in Accounts |-> [r \in Roles |->
        IF a \in members /\ r \in roles \ {"RuleVerifier", "ResolutionAuditor"} THEN NoBond
        ELSE bonds[a][r]]]
Released(members, roles) ==
    [a \in Accounts |-> [r \in Roles |->
        IF a \in members /\ r \in roles THEN NoBond ELSE bonds[a][r]]]

\* Take every slash of a set that is not empty, at most one per bond, then release the
\* bonds of the two roles.
SlashAndRelease(slashes, members, roles) ==
    LET real == {s \in slashes : s.amount > 0}
    IN  /\ \A s \in real : s.incident \notin incidents
        /\ incidents' = incidents \cup {s.incident : s \in real}
        /\ stake' = [a \in Accounts |-> stake[a] - SlashedBy(real, a)]
        /\ bonds' = Released(members, roles)

-----------------------------------------------------------------------------
\* The values the contracts' state takes, whatever a factory does with them.
BondRecord == [active : BOOLEAN, left : Nat]
TypeOK ==
    /\ vault \in [status : VaultStatus, legacyMode : BOOLEAN, ruleSet : BOOLEAN,
                  ruleRound : Nat, resolutionRound : Nat, rejectionCount : Nat]
    /\ ruleCommittee \in [makers : Seq(Agents), verifiers : Seq(Agents)]
    /\ resolutionCommittee \in
           [validators : Seq(Agents), auditors : Seq(Agents), minValidCount : Nat]
    /\ submissions \in [drafts : SUBSET Agents, issues : [Agents -> Severities \cup {"None"}]]
    /\ round \in [commits : [Agents -> Commitments \cup {NoCommit}],
                  reveals : [Agents -> Commitments \cup {NoCommit}],
                  verdicts : [Agents -> [Agents -> Verdicts \cup {"None"}]],
                  challenges : Seq(Challenge)]
    /\ resolution \in [outcome : Outcomes \cup {"None"}, disputed : BOOLEAN,
                       finalized : BOOLEAN, windowOver : BOOLEAN]
    /\ escrow \in [initialized : BOOLEAN, lockedAmount : Nat, settled : BOOLEAN]
    /\ collateral \in [Holders -> Nat]
    /\ pool \in [setup : Nat, reward : Nat, challengeBonds : [1 .. MaxChallenges -> Nat],
                 claimable : [Accounts -> Nat], claimableSetup : [Accounts -> Nat],
                 heldPov : Nat, heldNative : Nat]
    /\ stake \in [Accounts -> Nat]
    /\ bonds \in [Accounts -> [Roles -> BondRecord]]
    /\ clock \in [settlementReached : BOOLEAN, deadlinesPassed : 0 .. 4]
    /\ fees \in FeeSchedules
    /\ paused \in BOOLEAN

-----------------------------------------------------------------------------
\* What any factory over these contracts owes the collateral and the deposits.

Unfunded == {"Absent", "RuleAuction", "RuleDrafting", "UserRuleReview", "Cancelled"}

\* Four contracts agree on where the vault is: the escrow holds the collateral exactly
\* while the vault is funded and undecided, and it has let go of it exactly when the
\* registry holds a final outcome and the vault carries the matching status.
EscrowMatchesStatus ==
    /\ escrow.initialized <=> vault.status \notin Unfunded
    /\ escrow.settled <=> vault.status \in Resolved
    /\ escrow.settled <=> resolution.finalized
    /\ escrow.settled => vault.status = StatusOf(resolution.outcome)
    /\ collateral["escrow"] =
           IF escrow.initialized /\ ~escrow.settled THEN escrow.lockedAmount ELSE 0
    /\ ~escrow.initialized => collateral["setter"] = GrossCollateral

\* The pool holds a challenge's bond exactly while the challenge is open, although bonds
\* are keyed by the challenge's number alone and numbers start again every round.
BondHeldWhileOpen ==
    \A id \in 1 .. MaxChallenges :
        pool.challengeBonds[id] = IF id \in openChallenges THEN round.challenges[id].bondAmount
                                  ELSE 0

\* RewardPool holds what it owes: capped allocations, claims, refunds and sweeps add up.
RewardPoolBacked ==
    /\ pool.heldNative = pool.setup + Sum(Accounts, pool.claimableSetup)
    /\ pool.heldPov = pool.reward + Sum(Accounts, pool.claimable)
                          + Sum(1 .. MaxChallenges, pool.challengeBonds)

\* A vault cancelled, or resolved by a committee, leaves no deposit behind in the pool.
NoDepositLeftBehind ==
    \/ vault.status = "Cancelled"
    \/ vault.status \in Resolved /\ vault.resolutionRound > 0
    => pool.setup = 0 /\ pool.reward = 0

\* The final word is final: no call changes a finalized resolution or a settled status.
OutcomeIsFinal ==
    [][resolution.finalized => resolution' = resolution /\ vault' = vault
                               /\ escrow' = escrow /\ collateral' = collateral]_vars

\* The whole machinery keeps the promise about the collateral.
Promise ==
    INSTANCE CollateralPromise WITH
        Gross <- GrossCollateral,
        held <- collateral["escrow"],
        returned <- IF escrow.settled THEN collateral["setter"] ELSE 0,
        compensated <- collateral["compensation"],
        feesTaken <- collateral["treasury"],
        verdict <- IF escrow.settled THEN resolution.outcome ELSE "None"
KeepsCollateralPromise == Promise!Spec
=============================================================================
