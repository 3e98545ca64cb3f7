-------------------------------- MODULE Ranks --------------------------------
(***************************************************************************)
(* The place of a block among those a bitmap marks.  Backup fills its      *)
(* units with the marked blocks in ascending order and Recover finds the   *)
(* block a piece of data belongs to by counting, so a rank is all that     *)
(* connects the two.                                                       *)
(***************************************************************************)
EXTENDS Integers, FiniteSets

\* The number of elements up to b, and the element of rank i.
Rank(S, b) == Cardinality({d \in S : d <= b})
Nth(S, i) == CHOOSE b \in S : Rank(S, b) = i
=============================================================================
