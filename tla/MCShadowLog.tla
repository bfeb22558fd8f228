---------------------------- MODULE MCShadowLog ----------------------------
(* ShadowLog on two writers; they and the values are interchangeable.      *)
EXTENDS ShadowLog, TLC

Symmetry == Permutations(Writers) \cup Permutations(Ids) \cup Permutations(Values)

=============================================================================
