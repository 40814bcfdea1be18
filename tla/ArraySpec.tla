------------------------------ MODULE ArraySpec ------------------------------
(***************************************************************************)
(* The --array option (entities/slurm/sbatch_options/array_spec.rs), the   *)
(* tasks it stands for (sbatch/parse.rs) and what Python can build of it   *)
(* (py_export/entities/slurm/sbatch_options/array_spec.rs).                *)
(***************************************************************************)
EXTENDS Text

\* The three forms of an entry; where a form has no step or no end of its own, the
\* record holds the one that means the same.
Single(i) == [kind |-> "single", start |-> i, end |-> i, step |-> 1]
Interval(a, b) == [kind |-> "range", start |-> a, end |-> b, step |-> 1]
Stepped(a, b, s) == [kind |-> "stepped", start |-> a, end |-> b, step |-> s]

EntryText(e) ==
    Dec(e.start)
        \o (IF e.kind = "single" THEN <<>> ELSE Lit("-") \o Dec(e.end))
        \o (IF e.kind = "stepped" THEN Lit(":") \o Dec(e.step) ELSE <<>>)

ArrayText(spec) ==
    Join([i \in DOMAIN spec.indices |-> EntryText(spec.indices[i])], ",")
        \o (IF spec.max_concurrent = {} THEN <<>>
            ELSE Lit("%") \o Dec(CHOOSE n \in spec.max_concurrent : TRUE))

ParseEntry(t) ==
    LET byStep == SplitOnce(t, ":")
        bounds == SplitOnce(byStep[1], "-")
        kind == CASE Len(byStep) = 2 -> "stepped"
                  [] Len(byStep) = 1 /\ Len(bounds) = 2 -> "range"
                  [] OTHER -> "single"
        step == IF Len(byStep) = 2 THEN NonZeroU32(byStep[2]) ELSE {1}
    IN  {e \in [kind : {kind}, start : U32(bounds[1]), end : U32(Last(bounds)), step : step] :
            /\ e.start <= e.end
            /\ kind = "stepped" => Len(bounds) = 2}

ParseArraySpec(t) ==
    LET byCap == SplitOnce(t, "%")
        caps == IF Len(byCap) = 1 THEN {{}} ELSE {{n} : n \in NonZeroU32(byCap[2])}
        entries == Split(byCap[1], ",")
    IN  [indices : Collect([i \in DOMAIN entries |-> ParseEntry(entries[i])]),
         max_concurrent : caps]

\* ArrayIndex.single/range/stepped(): Python builds what it likes, and nothing looks at it
\* before it is printed or expanded.
PythonEntries(numbers) ==
    {Single(i) : i \in numbers} \cup {Interval(a, b) : a \in numbers, b \in numbers}
        \cup {Stepped(a, b, s) : a \in numbers, b \in numbers, s \in numbers}

\* SlurmArraySpec.from_indices(), and the two setters one by one.
PyArraySpec(indices, cap) == [indices |-> indices, max_concurrent |-> cap]

\* What Python reads off an entry: an Option for each number, there or not by the form.
PyEntryView(e) ==
    LET if(cond, n) == IF cond THEN {n} ELSE {}
    IN  [kind |-> e.kind, value |-> if(e.kind = "single", e.start),
         start |-> if(e.kind # "single", e.start), end |-> if(e.kind # "single", e.end),
         step |-> if(e.kind = "stepped", e.step)]

-----------------------------------------------------------------------------
(* expand_array_indices(). *)

\* Mutant: a stepped entry stops before its end, as range() of Python does.
EntryIndicesExclusive(e) ==
    LET from[i \in Nat] ==
          IF i > e.end \/ (i = e.end /\ e.kind = "stepped") THEN <<>>
          ELSE <<i>> \o (IF i + e.step > MaxU32 THEN <<>> ELSE from[i + e.step])
    IN  from[e.start]

\* The loop over one entry.  (A step of 0, which only Python can build, would make it
\* run for ever.)
EntryIndices(e) ==
    LET from[i \in Nat] ==
          IF i > e.end THEN <<>>
          ELSE <<i>> \o (IF i + e.step > MaxU32 THEN <<>> ELSE from[i + e.step])
    IN  from[e.start]

ExpandArrayIndices(spec) ==
    FlattenSeq([i \in DOMAIN spec.indices |-> EntryIndices(spec.indices[i])])

\* What SLURM makes of an entry: every step-th index from start to end.
TasksOf(e) == {i \in e.start..e.end : (i - e.start) % e.step = 0}
=============================================================================
