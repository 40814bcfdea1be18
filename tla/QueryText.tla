------------------------------- MODULE QueryText -------------------------------
(***************************************************************************)
(* The command lines of the status queries (runner.rs), and the shapes by  *)
(* which the caches in front of them recognise and rebuild them            *)
(* (sbatch/query_cache.rs, squeue_cache.rs, sacct_cache.rs,                *)
(* qgroup_cache.rs).                                                       *)
(***************************************************************************)
EXTENDS Text

\* JobKey: a job, or the task of an array.
PlainKey(id) == [kind |-> "plain", id |-> id, index |-> 0]
ArrayTask(master, index) == [kind |-> "task", id |-> master, index |-> index]

KeyText(k) == Dec(k.id) \o (IF k.kind = "task" THEN Lit("_") \o Dec(k.index) ELSE <<>>)

ParseKey(t) ==
    LET parts == SplitOnce(t, "_")
    IN  IF Len(parts) = 1 THEN {PlainKey(id) : id \in U64(t)}
        ELSE {ArrayTask(m, i) : m \in U64(parts[1]), i \in U32(parts[2])}

\* Mutant: tokens that are no keys are passed over.
ParseCsvLeniently(t) ==
    LET parts == SelectSeq(Split(t, ","), LAMBDA p : ParseKey(p) # {})
    IN  Collect([i \in DOMAIN parts |-> ParseKey(parts[i])])

ParseCsv(t) ==
    LET parts == Split(t, ",")
    IN  Collect([i \in DOMAIN parts |-> ParseKey(parts[i])])

BuildCsv(keys) == Join([i \in DOMAIN keys |-> KeyText(keys[i])], ",")

-----------------------------------------------------------------------------
(* The queries. *)

SqueueQuery(csv) ==
    <<Lit("squeue"), Lit("-h"), Lit("-r"), Lit("-j"), csv, Lit("-o"), Lit("%i %T %r")>>
SacctQuery(csv) ==
    <<Lit("sacct"), Lit("-P"), Lit("-n"), Lit("-j"), csv, Lit("-o"), Lit("JobID,State,Reason,ExitCode")>>
\* Without the exit codes, for the bulk query that does not want them.
SacctStateQuery(csv) ==
    <<Lit("sacct"), Lit("-P"), Lit("-n"), Lit("-j"), csv, Lit("-o"), Lit("JobID,State,Reason")>>
QgroupQuery == <<Lit("qgroup"), Lit("-l")>>

-----------------------------------------------------------------------------
(* The shapes: the keys a command line asks about, if it is one to cache, and *)
(* the command line for a batch of keys.                                      *)

SqueueBuild(batch) ==
    <<Lit("squeue"), Lit("-h"), Lit("-r"), Lit("-j"), BuildCsv(batch), Lit("-o"), Lit("%i %T %r")>>
SacctBuild(batch) ==
    <<Lit("sacct"), Lit("-P"), Lit("-n"), Lit("-j"), BuildCsv(batch), Lit("-o"),
      Lit("JobID,State,Reason,ExitCode")>>
QgroupBuild(batch) == <<Lit("qgroup"), Lit("-l")>>

\* Every word but the fifth is the one the query is built with.
Fits(argv, built) == Len(argv) = 7 /\ \A i \in {1, 2, 3, 4, 6, 7} : argv[i] = built[i]

SqueueParse(argv) == IF Fits(argv, SqueueBuild(<<>>)) THEN ParseCsv(argv[5]) ELSE {}
SacctParse(argv) == IF Fits(argv, SacctBuild(<<>>)) THEN ParseCsv(argv[5]) ELSE {}
QgroupParse(argv) == IF argv = <<Lit("qgroup"), Lit("-l")>> THEN {<<>>} ELSE {}

\* handle_dispatcher(): the caches lie in front of each other, and a command line that
\* none of them takes is run as it is.
TakenBy(argv) ==
    {s \in {"qgroup", "squeue", "sacct"} :
        \/ s = "qgroup" /\ QgroupParse(argv) # {}
        \/ s = "squeue" /\ SqueueParse(argv) # {}
        \/ s = "sacct" /\ SacctParse(argv) # {}}

\* What is run in its place, for a batch.
RunInstead(shape, batch) ==
    CASE shape = "qgroup" -> QgroupBuild(batch)
      [] shape = "squeue" -> SqueueBuild(batch)
      [] shape = "sacct" -> SacctBuild(batch)
=============================================================================
