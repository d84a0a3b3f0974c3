------------------------------- MODULE MCLists -------------------------------
(* Lists for TLC. *)
EXTENDS Lists, TLC

CONSTANTS l1, l2, v1, v2, m1
Symmetry == Permutations(Names) \cup Permutations(Values)
=============================================================================
