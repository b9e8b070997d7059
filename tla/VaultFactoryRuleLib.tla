------------------------ MODULE VaultFactoryRuleLib -------------------------
(***************************************************************************)
(* The rule phase of a vault: contracts/src/libraries/VaultFactoryRuleLib  *)
(* with the VaultFactory functions that call it.                           *)
(*                                                                         *)
(* RuleAuction -> RuleDrafting -> UserRuleReview -> Active, or back to     *)
(* RuleAuction after a first rejection, or Cancelled after a second.       *)
(***************************************************************************)
EXTENDS VaultBase

createVaultRequest(setupDeposit) ==
    /\ whenNotPaused
    /\ vault.status = "Absent"
    /\ setupDeposit >= fees.setupDeposit
    /\ setupDeposit > 0
    /\ GrossCollateral > 0
    /\ ~clock.settlementReached
    /\ vault' = [vault EXCEPT !.status = "RuleAuction"]
    /\ pool' = collectSetupDeposit(pool, setupDeposit)
    /\ UNCHANGED <<committeeVars, submissions, round, resolution, escrow, collateral,
                   stakingVars, clock, adminVars>>

registerRuleCommittee(committee) ==
    /\ whenNotPaused
    /\ vault.status = "RuleAuction"
    /\ recordRuleCommittee(committee)
    /\ LockBonds(committee.makers, "RuleMaker", committee.verifiers, "RuleVerifier")
    /\ vault' = [vault EXCEPT !.status = "RuleDrafting", !.ruleRound = @ + 1]
    /\ submissions' = NoSubmissions
    /\ UNCHANGED <<resolutionCommittee, round, resolution, moneyVars, clock, adminVars>>

IsMaker(a) == a \in ToSet(ruleCommittee.makers)
IsVerifier(a) == a \in ToSet(ruleCommittee.verifiers)

\* A draft or an issue may be replaced, and no deadline is enforced here.
submitRuleDraft(a) ==
    /\ whenNotPaused
    /\ vault.status = "RuleDrafting"
    /\ IsMaker(a)
    /\ submissions' = [submissions EXCEPT !.drafts = @ \cup {a}]
    /\ UNCHANGED <<vault, committeeVars, round, resolution, moneyVars, stakingVars, clock,
                   adminVars>>

submitRuleIssue(a, severity) ==
    /\ whenNotPaused
    /\ vault.status = "RuleDrafting"
    /\ IsVerifier(a)
    /\ submissions' = [submissions EXCEPT !.issues[a] = severity]
    /\ UNCHANGED <<vault, committeeVars, round, resolution, moneyVars, stakingVars, clock,
                   adminVars>>

\* What finalizeRuleSet allocates, in the order it allocates it.
RuleRewardRequests(approved, accepted) ==
    LET makers == ruleCommittee.makers
    IN  [i \in DOMAIN makers |->
            [to |-> makers[i],
             amount |-> IF makers[i] \in submissions.drafts THEN fees.ruleMakerBase ELSE 0]]
        \o [i \in DOMAIN approved |->
            [to |-> approved[i], amount |-> fees.ruleMakerApprovalBonus]]
        \o [i \in DOMAIN accepted |->
            [to |-> accepted[i], amount |-> fees.ruleVerifier[submissions.issues[accepted[i]]]]]

RuleRewardsAllowed(approved, accepted) ==
    /\ IsInjective(approved)
    /\ \A a \in ToSet(approved) : IsMaker(a) /\ a \in submissions.drafts
    /\ IsInjective(accepted)
    /\ \A a \in ToSet(accepted) : IsVerifier(a) /\ submissions.issues[a] # "None"

\* A member named malicious loses its bond; so does one who submitted nothing, unless the
\* first slash has left it nothing to lose.
RuleSlashes(maliciousMakers, maliciousVerifiers) ==
    LET members(r) == ToSet(IF r = "RuleMaker" THEN ruleCommittee.makers
                            ELSE ruleCommittee.verifiers)
        malicious(r) == IF r = "RuleMaker" THEN maliciousMakers ELSE maliciousVerifiers
        submitted(a, r) == IF r = "RuleMaker" THEN a \in submissions.drafts
                           ELSE submissions.issues[a] # "None"
        label(r) == IF r = "RuleMaker" THEN "missing-rule-draft" ELSE "missing-rule-issue"
        slash(a, r, l) == Slash(a, r, bonds[a][r].left, <<l, vault.ruleRound, a, r>>)
    IN  UNION {{slash(a, r, "rule-participant-slash") : a \in malicious(r)}
               \cup {slash(a, r, label(r)) :
                         a \in {m \in members(r) \ malicious(r) : ~submitted(m, r)}}
               : r \in {"RuleMaker", "RuleVerifier"}}

finalizeRuleSet(approved, accepted, maliciousMakers, maliciousVerifiers) ==
    /\ whenNotPaused
    /\ vault.status = "RuleDrafting"
    /\ RuleRewardsAllowed(approved, accepted)
    /\ pool' = allocateSetupRewards(pool, RuleRewardRequests(approved, accepted))
    /\ SlashAndRelease(RuleSlashes(maliciousMakers, maliciousVerifiers),
                       ToSet(ruleCommittee.makers \o ruleCommittee.verifiers),
                       {"RuleMaker", "RuleVerifier"})
    /\ ruleCommittee' = NoRuleCommittee
    /\ vault' = [vault EXCEPT !.status = "UserRuleReview", !.ruleSet = TRUE]
    /\ UNCHANGED <<resolutionCommittee, submissions, round, resolution, escrow, collateral,
                   clock, adminVars>>

rejectedTooOften == vault.rejectionCount + 1 > MAX_RULE_REJECTIONS

rejectRuleSet ==
    LET cancelled == rejectedTooOften
    IN  /\ whenNotPaused
        /\ vault.status = "UserRuleReview"
        /\ vault' = [vault EXCEPT !.rejectionCount = @ + 1, !.ruleSet = FALSE,
                                  !.status = IF cancelled THEN "Cancelled" ELSE "RuleAuction"]
        /\ pool' = IF cancelled THEN emptySetup(pool) ELSE pool
        /\ UNCHANGED <<committeeVars, submissions, round, resolution, escrow, collateral,
                       stakingVars, clock, adminVars>>

acceptRuleSetAndFund ==
    /\ whenNotPaused
    /\ vault.status = "UserRuleReview"
    /\ vault.ruleSet
    /\ fees.rewardDeposit > 0
    /\ FundEscrow
    /\ pool' = collectResolutionRewardDeposit(emptySetup(pool), fees.rewardDeposit)
    /\ vault' = [vault EXCEPT !.status = "Active"]
    /\ UNCHANGED <<committeeVars, submissions, round, resolution, stakingVars, clock,
                   adminVars>>
=============================================================================
