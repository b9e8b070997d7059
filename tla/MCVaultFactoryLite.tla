------------------------ MODULE MCVaultFactoryLite -------------------------
(* Values for the CONSTANTS of VaultFactoryLite. *)
EXTENDS VaultFactoryLite

CONSTANTS a1, a2, a3, council, setter

TwoAgents == {a1, a2}
ThreeAgents == {a1, a2, a3}
NoLists == {<<>>}
MCStake == [a \in Accounts |-> IF a \in Agents THEN 2 ELSE 0]

\* Challengers are paid more than the deposit can pay twice.
MCFees ==
    [creationFeeBps |-> 2500, settlementFeeBps |-> 5000,
     setupDeposit |-> 1, rewardDeposit |-> 1, challengeBond |-> 2,
     bond |-> [r \in Roles |-> 2],
     ruleMakerBase |-> 1, ruleMakerApprovalBonus |-> 1,
     ruleVerifier |-> [s \in Severities |-> 1],
     validatorBase |-> 1, validatorQuality |-> 0, validatorConsensus |-> 1,
     validatorQuestionable |-> 1, auditorBase |-> 1, auditorHighValue |-> 1,
     challengerSuccess |-> 1]
OneSchedule == {MCFees}
\* The owner may change what settling costs while the vault is alive.
TwoSchedules == {MCFees, [MCFees EXCEPT !.settlementFeeBps = 0]}

NoRuleMembers == {[makers |-> <<>>, verifiers |-> <<>>]}
MakerAndVerifier == {[makers |-> <<a1>>, verifiers |-> <<a2>>]}
ValidatorAndAuditor == {[validators |-> <<a1>>, auditors |-> <<a2>>, minValidCount |-> 1]}
\* Two validators who are both needed, and one judged by two auditors.
VotingCommittees ==
    {[validators |-> <<a1, a2>>, auditors |-> <<a3>>, minValidCount |-> 2],
     [validators |-> <<a1>>, auditors |-> <<a2, a3>>, minValidCount |-> 1]}
NoLevels == {}
SomeLevels == {0}
Nobody == {}
FirstAgent == {a1}

TrueOrFalse == {[outcome |-> "True", salt |-> 1], [outcome |-> "False", salt |-> 1]}
=============================================================================
