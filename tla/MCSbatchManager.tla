-------------------------- MODULE MCSbatchManager --------------------------
(* An instance of SbatchManager for TLC. *)
EXTENDS SbatchManager, TLC

\* Out of order and overlapping, as in --array=2,1-2.
Overlapping == {<<2, 1, 2>>}

NoArrays == {}

Symmetry == Permutations(Client)
=============================================================================
