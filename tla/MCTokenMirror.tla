---------------------------- MODULE MCTokenMirror ----------------------------
(* The instance of TokenMirror for TLC. *)
EXTENDS TokenMirror
=============================================================================
