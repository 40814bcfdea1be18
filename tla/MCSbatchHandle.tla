--------------------------- MODULE MCSbatchHandle ---------------------------
(* Instances of SbatchHandle for TLC. *)
EXTENDS SbatchHandle

\* One mishap of any kind: a requeue, a failure, a killed squeue or a dropped future.
OneMishap ==
    MaxRequeues + MaxFaults + MaxGlitches + MaxDrops
        - (budget.requeues + budget.faults + budget.glitches + budget.drops) <= 1
=============================================================================
