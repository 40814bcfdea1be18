-------------------------- MODULE MCTssrunHandle --------------------------
(* An instance of TssrunHandle for TLC. *)
EXTENDS TssrunHandle

CONSTANTS j1, j2, n1
=============================================================================
