----------------------------- MODULE MCConductor -----------------------------
(* Instances of Conductor for TLC. *)
EXTENDS Conductor, TLC

Symmetry == Permutations(Procs) \cup Permutations(Auths)
=============================================================================
