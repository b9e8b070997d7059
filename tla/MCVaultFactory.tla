--------------------------- MODULE MCVaultFactory ---------------------------
(* Values for the CONSTANTS of VaultFactory; each .cfg picks the committees and fees that *)
(* bring out one part of a vault's life.                                                  *)
EXTENDS VaultFactory

CONSTANTS a1, a2, a3, council, setter

MCAgents == {a1, a2, a3}
NoList == {<<>>}
NoStakeLevels == {}
MCStake == [a \in Accounts |-> IF a \in Agents THEN 4 ELSE 0]

MCFees ==
    [creationFeeBps |-> 2500, settlementFeeBps |-> 5000,
     setupDeposit |-> 1, rewardDeposit |-> 3, challengeBond |-> 2,
     bond |-> [r \in Roles |-> 2],
     ruleMakerBase |-> 1, ruleMakerApprovalBonus |-> 1,
     ruleVerifier |-> [s \in Severities |-> IF s = "Low" THEN 1 ELSE 2],
     validatorBase |-> 1, validatorQuality |-> 0, validatorConsensus |-> 1,
     validatorQuestionable |-> 1, auditorBase |-> 1, auditorHighValue |-> 1,
     challengerSuccess |-> 1]
MCFeeSchedules == {MCFees}

EmptyRuleCommittee == {[makers |-> <<>>, verifiers |-> <<>>]}
\* A maker alone, a verifier alone.
LoneMembers ==
    {[makers |-> <<a3>>, verifiers |-> <<>>], [makers |-> <<>>, verifiers |-> <<a3>>]}

FirstTwo == {a1, a2}

\* One validator, one auditor; a member twice and a quorum of none are refused.
MCRoundCommittees ==
    {[validators |-> <<a1>>, auditors |-> <<a2>>, minValidCount |-> 1],
     [validators |-> <<a1, a2>>, auditors |-> <<a2>>, minValidCount |-> 1],
     [validators |-> <<>>, auditors |-> <<a2>>, minValidCount |-> 0]}
FirstOne == {a1}
MCStakeLevels == {0, 2}

\* The owner raises the bonds and drops the settlement fee while the vault is alive.
MCChangingFees ==
    {MCFees, [MCFees EXCEPT !.bond = [r \in Roles |-> 1], !.challengeBond = 1,
                            !.settlementFeeBps = 0]}

Commit(outcome) == [outcome |-> outcome, salt |-> 1]
TrueOrFalse == {Commit("True"), Commit("False")}
OnlyTrue == {Commit("True")}
=============================================================================
