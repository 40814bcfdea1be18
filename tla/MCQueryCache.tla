---------------------------- MODULE MCQueryCache ----------------------------
(* Instances of QueryCache for TLC. *)
EXTENDS QueryCache, TLC

\* One job each, as in squeue and sacct queries of single-job handles.
SingleKeys == {{k} : k \in Key}

Symmetry == Permutations(Caller) \cup Permutations(Key)
=============================================================================
