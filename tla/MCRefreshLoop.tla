---------------------------- MODULE MCRefreshLoop ----------------------------
(* Instances of RefreshLoop for TLC. *)
EXTENDS RefreshLoop, TLC

Symmetry == Permutations(Auths) \cup Permutations(Workers) \cup Permutations(Callers)
=============================================================================
