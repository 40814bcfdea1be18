------------------------------ MODULE Dependency ------------------------------
(***************************************************************************)
(* The --dependency option                                                 *)
(* (entities/slurm/sbatch_options/dependency.rs): clauses that hold all    *)
(* together (",") or one for the others ("?").                             *)
(***************************************************************************)
EXTENDS Text

\* DependencyType, by its keyword.
DependencyType == {"after", "afterany", "afterburstbuffer", "aftercorr", "afternotok",
                   "afterok", "singleton"}
TakesJobs(type) == type # "singleton"

\* One job a clause waits for, with the minutes after its start, or none.
JobRef(id, delay) == [job_id |-> id, delay_minutes |-> delay]

JobRefText(r) ==
    Dec(r.job_id) \o (IF r.delay_minutes = {} THEN <<>>
                      ELSE Lit("+") \o Dec(CHOOSE m \in r.delay_minutes : TRUE))

ClauseText(c) ==
    Join(<<Lit(c.dep_type)>> \o [i \in DOMAIN c.job_refs |-> JobRefText(c.job_refs[i])], ":")

\* DependencyJoin::as_char()
JoinSign(join) == IF join = "And" THEN "," ELSE "?"

DependencyText(d) ==
    Join([i \in DOMAIN d.clauses |-> ClauseText(d.clauses[i])], JoinSign(d.join))

ParseJobRef(t, allowDelay) ==
    LET parts == SplitOnce(t, "+")
    IN  IF Len(parts) = 1 THEN {JobRef(id, {}) : id \in U32(t)}
        ELSE {JobRef(id, {delay}) :
                 id \in U32(parts[1]), delay \in IF allowDelay THEN U32(parts[2]) ELSE {}}

\* A clause names jobs unless it is a singleton, and delays only if it is an `after`.
ParseClause(t) ==
    LET parts == Split(t, ":")
        refs == Collect([i \in 1..(Len(parts) - 1) |->
                            ParseJobRef(parts[i + 1], Head(parts) = Lit("after"))])
    IN  {c \in [dep_type : {k \in DependencyType : Head(parts) = Lit(k)}, job_refs : refs] :
            TakesJobs(c.dep_type) <=> c.job_refs # <<>>}

\* The two separators exclude each other; a single clause is joined by And.
ParseDependency(t) ==
    LET has(c) == Contains(t, Sign(c))
        join == IF has("?") THEN "Or" ELSE "And"
        clauses == Split(t, JoinSign(join))
    IN  IF has(",") /\ has("?") THEN {}
        ELSE [clauses : Collect([i \in DOMAIN clauses |-> ParseClause(clauses[i])]),
              join : {join}]

\* DependencyClause(...) and from_clauses() of Python check nothing: clauses without
\* jobs, singletons with jobs, delays of any type, and no clause at all.
PyClauses(refs) == [dep_type : DependencyType, job_refs : refs]
PyDependency(clauses, join) == [clauses |-> clauses, join |-> join]
=============================================================================
