-------------------------------- MODULE Sums --------------------------------
(***************************************************************************)
(* The total of a natural-valued function over a finite set.               *)
(*                                                                         *)
(* The ledgers of this project (stakes, bonds, rewards) all keep a running *)
(* total next to the parts it is the total of.  Sum states what that total *)
(* ought to be.  It counts the pairs <<s, k>> with 1 <= k <= f[s], so that *)
(* its laws (module SumsTheorems) follow from those of Cardinality.        *)
(***************************************************************************)
EXTENDS Integers, FiniteSets

\* The f[s] units that s contributes to the total.
Units(f, s) == {s} \X (1 .. f[s])

Sum(S, f) == Cardinality(UNION {Units(f, s) : s \in S})
=============================================================================
