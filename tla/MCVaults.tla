------------------------------ MODULE MCVaults ------------------------------
(***************************************************************************)
(* The vault's life in stretches, its parts.  An execution picks one part  *)
(* at the start and stays in it: a part allows the committees, challenges  *)
(* and rejections that matter in its stretch and leaves out the others,    *)
(* whose product would be too large.                                       *)
(***************************************************************************)
EXTENDS MCVaultFactory

CONSTANTS a4, Parts

VARIABLE part

FourAgents == {a1, a2, a3, a4}
FirstThree == {a1, a2, a3}

Bench(validators, auditors, quorum) ==
    [validators |-> validators, auditors |-> auditors, minValidCount |-> quorum]

\* Two makers and a verifier, one of whom in both roles is refused, and two drafts.
Drafters ==
    {[makers |-> <<a1, a2>>, verifiers |-> <<a3>>], [makers |-> <<a1>>, verifiers |-> <<a1>>]}
AnyRuleCommittee == Drafters \cup EmptyRuleCommittee
SomeMakers == {<<>>, <<a2, a1>>, <<a1, a1>>}
SomeVerifiers == {<<>>, <<a3>>}

\* Committees at the boundary of "more than two thirds": of three validators; of two
\* validators and two auditors, of three auditors.
Voters == {Bench(<<a1, a2, a3>>, <<a4>>, 2)}
Judges == {Bench(<<a1, a2>>, <<a3, a4>>, 1), Bench(<<a1>>, <<a2, a3, a4>>, 1)}
AnyBench == MCRoundCommittees \cup Voters \cup Judges

-----------------------------------------------------------------------------
ruleCommitteeOf(committees) == ruleCommittee \in committees \cup {NoRuleCommittee}
benchOf(benches) == resolutionCommittee \in benches \cup {NoResolutionCommittee}
Unchallenged == round.challenges = <<>>
Unjudged(a) == \A b \in Agents : round.verdicts[a][b] = "None"
Unrejected == vault.rejectionCount = 0

InPart ==
    \/ part = "rules" /\ ruleCommitteeOf(Drafters) /\ benchOf({})
    \* Two rounds with a challenge each; rewards are claimed as stake.
    \/ part = "rounds" /\ ruleCommitteeOf(EmptyRuleCommittee) /\ Unrejected
    \/ part = "consensus" /\ benchOf(Voters) /\ Unchallenged
    \/ part = "audit" /\ benchOf(Judges) /\ Unchallenged /\ Unjudged(a3)
    \* Two challenges, answered by a council the auditor belongs to.
    \/ /\ part = "challenges" /\ benchOf(MCRoundCommittees) /\ Unjudged(a3)
       /\ \A id \in DOMAIN round.challenges :
              a4 \notin {round.challenges[id].challenger, round.challenges[id].target}

PartInit == part \in Parts /\ Init /\ InPart
PartNext == Next /\ UNCHANGED part /\ InPart'
PartSpec == PartInit /\ [][PartNext]_<<vars, part>>
=============================================================================
