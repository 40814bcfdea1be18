------------------------------- MODULE Processes -------------------------------
(***************************************************************************)
(* What the managers make of the end of a command: the dispatchers         *)
(* (dispatcher.rs), submission, cancelling and run() (sbatch/manager.rs),  *)
(* the exit codes of queries (runner.rs), srun (manager.rs), the start of  *)
(* tssrun (tssrun/manager.rs), and the errors they report, in Rust         *)
(* (sbatch/error.rs, tssrun/error.rs) and in Python (py_export).           *)
(*                                                                         *)
(* A process is how it ended (by `exit', by a `signal', or `missing' if    *)
(* there was no such program), its code, the lines it printed to stdout    *)
(* and stderr, and whether the working directory of the caller is gone by  *)
(* the time it ends.  A report is a sequence of lines too.                 *)
(***************************************************************************)
EXTENDS Commands, LogFiles, Status

-----------------------------------------------------------------------------
(* Dispatchers. *)

\* TokioDispatcher::capture(): a process that a signal killed has no code; 0 stands in.
Capture(argv, p) ==
    IF argv = <<>> \/ p.end = "missing" THEN {}
    ELSE {[exit_code |-> IF p.end = "signal" THEN 0 ELSE p.code,
           stdout |-> p.stdout, stderr |-> p.stderr]}

\* TokioDispatcher::run() echoes the output and returns the code.
Dispatch(argv, p) == {out.exit_code : out \in Capture(argv, p)}

\* DryRunDispatcher starts nothing.
DryRun == 0

Success(out) == out.exit_code = 0

Blank(lines) == \A i \in DOMAIN lines : Trim(lines[i]) = <<>>

\* Mutant: what went to stderr is what matters.
DiagnosticOfStderr(out) == IF Blank(out.stderr) THEN out.stdout ELSE out.stderr

\* CaptureOutput::diagnostic().
Diagnostic(out) ==
    IF Blank(out.stderr) THEN out.stdout ELSE out.stdout \o <<Lit("[stderr]")>> \o out.stderr

\* SlurmManager::run_job().
RunJob(launcher, batchFile, dry, p) ==
    UNION {IF dry THEN {DryRun} ELSE Dispatch(argv, p) : argv \in SrunArgv(launcher, batchFile)}

-----------------------------------------------------------------------------
(* Queries. *)

InvalidId == Sign("Invalid job id specified")

\* ensure_query_success() and squeue_reports_vanished(): what Queries calls the status.
QueryStatus(tool, out) ==
    CASE Success(out) -> "ok"
      [] ~Success(out) /\ tool = "squeue" /\ \E i \in DOMAIN out.stderr : InvalidId \in ToSet(out.stderr[i])
            -> "vanished"
      [] OTHER -> "failed"

\* query_job_state(), also of a tssrun handle, whose job may have no number yet: `answer'
\* is what the query for a set of jobs gives.
StateOf(jobid, answer) ==
    IF jobid = {} THEN {Default}
    ELSE {IF j \in DOMAIN a THEN a[j] ELSE Default : j \in jobid, a \in answer}

-----------------------------------------------------------------------------
(* Submission. *)

Submitted == Sign("Submitted batch job ")

\* parse_submitted_jobid(): the number of the first line that has one that fits.
SubmittedJobid(stdout) ==
    LET idOf(line) == LET words == Trim(line)
                      IN  IF Len(words) > 1 /\ Head(words) = Submitted THEN U64(<<words[2]>>) ELSE {}
        said == {i \in DOMAIN stdout : idOf(stdout[i]) # {}}
    IN  IF said = {} THEN {} ELSE idOf(stdout[Min(said)])

\* What comes of a submission: an error, with what it carries, or handles.
Failed(why, code, output) ==
    [is |-> why, code |-> code, output |-> output, jobid |-> {}, handles |-> <<>>]

\* The snapshot of a job or a task, and its log files.
SnapshotOf(cmd, argv, jobid, task) ==
    [jobid |-> jobid, task |-> task, argv |-> argv, sent_env |-> cmd.env,
     script_path |-> Absolutize(cmd.script), chdir |-> cmd.chdir, partition |-> cmd.partition,
     job_name |-> cmd.job_name, output_template |-> cmd.output, error_template |-> cmd.error]
LogStream(stream) == IF stream = 0 THEN {"Stdout"} ELSE IF stream = 1 THEN {"Stderr"} ELSE {}
LogPath(snap, stream) ==
    LET template == [Stdout |-> snap.output_template, Stderr |-> snap.error_template]
    IN  UNION {{ResolveLogPath(t, snap.jobid, snap.task, snap.job_name, Lit("j"), Lit("a")) :
                   t \in template[s]} : s \in LogStream(stream)}

\* std::path::absolute() has no answer for a relative path either when there is no
\* working directory any more.
AbsoluteAfter(script, gone) ==
    IF gone /\ Head(script) # Sign("/") THEN {} ELSE Absolutize(script)

\* The part of spawn() and spawn_array() that they share, from what sbatch answered on:
\* the path of the script is made absolute once more, and that error does not tell the
\* job.  The first `saves' of the snapshots are saved, one after the other.
Answered(cmd, argv, out, gone, tasks, saves) ==
    LET jobid == SubmittedJobid(out.stdout)
        job == CHOOSE j \in jobid : TRUE
    IN  IF ~Success(out) THEN Failed("SubmitFailed", {out.exit_code}, Diagnostic(out))
        ELSE IF jobid = {} THEN Failed("JobidParseError", {}, out.stdout)
        ELSE IF AbsoluteAfter(cmd.script, gone) = {} THEN Failed("Other", {}, <<>>)
        ELSE IF saves < Len(tasks)
        THEN [Failed("SubmittedButUnpersisted", {}, <<>>) EXCEPT !.jobid = jobid]
        ELSE [Failed("Ok", {}, <<>>) EXCEPT
                 !.jobid = jobid,
                 !.handles = [i \in DOMAIN tasks |-> SnapshotOf(cmd, argv, job, tasks[i])]]

\* `argvs' is what build_argv() made of the command.
Start(cmd, argvs, p, tasks, saves) ==
    IF argvs = {} THEN Failed("Argv", {}, <<>>)
    ELSE IF p.end = "missing" THEN Failed("Other", {}, <<>>)
    ELSE LET argv == CHOOSE a \in argvs : TRUE
         IN  Answered(cmd, argv, CHOOSE out \in Capture(argv, p) : TRUE, p.gone, tasks, saves)
Submit(cmd, p, tasks, saves) == Start(cmd, SbatchArgv(cmd), p, tasks, saves)

Spawn(cmd, p, saves) == Submit(cmd, p, <<{}>>, saves)
SpawnArray(cmd, spec, p, saves) ==
    LET indices == ExpandArrayIndices(spec)
    IN  IF indices = <<>> THEN Failed("Other", {}, <<>>)
        ELSE Submit([cmd EXCEPT !.array_spec = {spec}], p, [i \in DOMAIN indices |-> {indices[i]}], saves)

\* Display for SbatchSpawnError, and for SbatchCancelError.
SpawnMessage(r) ==
    CASE r.is = "SubmitFailed" ->
            <<Lit("sbatch invocation failed") \o Dec(CHOOSE c \in r.code : TRUE)>> \o r.output
      [] r.is = "JobidParseError" -> <<Lit("sbatch stdout")>> \o r.output
      [] r.is = "SubmittedButUnpersisted" -> <<Lit("jobid") \o Dec(CHOOSE j \in r.jobid : TRUE)>>
      [] r.is = "Scancel" -> <<Lit("scancel failed") \o Dec(CHOOSE c \in r.code : TRUE)>> \o r.output
      [] r.is \in {"Argv", "Other"} -> <<Lit(r.is)>>

\* SbatchManager::cancel().
Cancel(jobid, p) ==
    LET outs == Capture(<<Lit("scancel"), Dec(jobid)>>, p)
        out == CHOOSE o \in outs : TRUE
    IN  CASE outs = {} -> Failed("Other", {}, <<>>)
          [] outs # {} /\ ~Success(out) -> Failed("Scancel", {out.exit_code}, Diagnostic(out))
          [] outs # {} /\ Success(out) -> Failed("Ok", {}, <<>>)

-----------------------------------------------------------------------------
(* run_with().  `spawned' is what spawn() gives; `later' says how              *)
(* wait_terminal() and refresh_with_sacct() end, and which outcome the         *)
(* snapshot then holds.                                                        *)

RunWith(cmd, spawned, later) ==
    LET f == CHOOSE f \in later.finished : TRUE
        result(is, called) == [is |-> is, called |-> called, spawned |-> spawned, finished |-> later.finished]
    IN  IF cmd.array_spec # {} THEN result("ArrayNotSupported", {})
        ELSE IF spawned.is # "Ok" THEN result("Spawn", {})
        ELSE IF later.wait = "error" THEN result("Wait", spawned.jobid)
        ELSE IF later.sacct = "error" THEN result("Sacct", spawned.jobid)
        ELSE IF later.finished = {} THEN result("MissingFinished", spawned.jobid)
        ELSE IF f.state = "Completed" THEN result("Ok", spawned.jobid)
        ELSE result("JobFailed", spawned.jobid)

\* Display for SbatchRunError.
RunMessage(r) ==
    CASE r.is = "Spawn" -> <<Lit("spawn failed")>> \o SpawnMessage(r.spawned)
      [] r.is = "MissingFinished" ->
            <<Lit("finished info was not populated") \o Dec(CHOOSE j \in r.called : TRUE)>>
      [] r.is = "JobFailed" ->
            LET f == CHOOSE f \in r.finished : TRUE
            IN  <<Lit(AsToken[f.state]) \o (IF f.exit = {} THEN <<>> ELSE Dec(CHOOSE e \in f.exit : TRUE))>>
      [] r.is \in {"ArrayNotSupported", "Wait", "Sacct"} -> <<Lit(r.is)>>

-----------------------------------------------------------------------------
(* Python: what is raised, if anything, with its message, or what is returned. *)

Raise(type, message) == [raised |-> {type}, message |-> message, returned |-> {}]
Return(value) == [raised |-> {}, message |-> <<>>, returned |-> {value}]

PySpawn(r) ==
    IF r.is = "Ok" THEN Return(r.handles) ELSE Raise("RuntimeError", SpawnMessage(r))
PyCancel(r) ==
    IF r.is = "Ok" THEN Return(<<>>) ELSE Raise("RuntimeError", SpawnMessage(r))

\* run() and run_with_jobid_callback(): what the callback raises is kept until the run has
\* ended, and raised only if it ended well.
PyRun(r, callbackRaises) ==
    CASE r.is = "ArrayNotSupported" -> Raise("ValueError", RunMessage(r))
      [] r.is \notin {"Ok", "ArrayNotSupported"} -> Raise("RuntimeError", RunMessage(r))
      [] r.is = "Ok" ->
            IF callbackRaises THEN Raise("of the callback", <<>>)
            ELSE Return(CHOOSE f \in r.finished : TRUE)

-----------------------------------------------------------------------------
(* TssrunManager::spawn(): a snapshot that cannot be saved is only warned about.  *)

TssrunSpawn(cmd, p) ==
    LET argvs == TssrunArgv(cmd)
    IN  IF argvs = {} THEN Failed("ArgvBuild", {}, <<>>)
        ELSE IF p.end = "missing" THEN Failed("SpawnFailed", {}, <<>>)
        ELSE [Failed("Ok", {}, <<>>) EXCEPT !.handles = <<CHOOSE argv \in argvs : TRUE>>]
PyTssrunSpawn(r) ==
    IF r.is = "Ok" THEN Return(r.handles) ELSE Raise("RuntimeError", <<Lit(r.is)>>)
=============================================================================
