---------------------------- MODULE MCAuthCooldown ----------------------------
(* Instances of AuthCooldown for TLC. *)
EXTENDS AuthCooldown
=============================================================================
