------------------------------- MODULE MCDocs -------------------------------
(* A statement of the documentation that the code contradicts, on the part of *)
(* the inputs of MCQueries that it is about.                                   *)
EXTENDS MCQueries

ArraySpecs == input \in {t \in Typed : t.kind = "array"} /\ [][Type]_input

\* sbatch/manager.rs:192-193, spawn_array(): "persist one snapshot per task and return one
\* handle per task".
OneHandlePerTask ==
    \A spec \in Specs : IsInjective(ExpandArrayIndices(spec))
=============================================================================
