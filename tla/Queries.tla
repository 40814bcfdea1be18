------------------------------- MODULE Queries -------------------------------
(***************************************************************************)
(* How the output of squeue, sacct and qgroup becomes the status of a job  *)
(* (runner.rs, sbatch/parse.rs, entities/slurm/status.rs), and what the    *)
(* commands print, as far as the code relies on it.                        *)
(*                                                                         *)
(* A row is its first column, its state token and its exit-code column.    *)
(* The first column names a job, an array task, an aggregate of pending    *)
(* tasks, or a step; reasons are carried along like states and left out.   *)
(***************************************************************************)
EXTENDS Integers, Sequences, FiniteSets, SequencesExt

NoTask == -1

\* JobKey: a job, or the task of an array.
Key(j, i) == [kind |-> IF i = NoTask THEN "job" ELSE "task", job |-> j, task |-> i]

-----------------------------------------------------------------------------
(* The vocabulary. *)

\* The tokens JobState::parse() accepts, upper-cased, for each state.
Tokens == [
    Pending |-> {"PENDING", "PD", "QUE"}, Configuring |-> {"CONFIGURING", "CF"},
    Requeued |-> {"REQUEUED", "RQ"}, RequeueFed |-> {"REQUEUE_FED", "RF"},
    RequeueHold |-> {"REQUEUE_HOLD", "RH"}, ResvDelHold |-> {"RESV_DEL_HOLD", "RD"},
    Suspended |-> {"SUSPENDED", "S"}, Stopped |-> {"STOPPED", "ST"},
    Running |-> {"RUNNING", "R", "RUN"}, Completing |-> {"COMPLETING", "CG"},
    Resizing |-> {"RESIZING", "RS"}, Signaling |-> {"SIGNALING", "SI"},
    StageOut |-> {"STAGE_OUT", "SO"}, Completed |-> {"COMPLETED", "CD", "CMP", "FINI"},
    BootFail |-> {"BOOT_FAIL", "BF"}, Cancelled |-> {"CANCELLED", "CA"},
    Deadline |-> {"DEADLINE", "DL"}, Failed |-> {"FAILED", "F", "FAIL"},
    NodeFail |-> {"NODE_FAIL", "NF"}, OutOfMemory |-> {"OUT_OF_MEMORY", "OOM"},
    Preempted |-> {"PREEMPTED", "PR"}, Revoked |-> {"REVOKED", "RV"},
    SpecialExit |-> {"SPECIAL_EXIT", "SE"}, Timeout |-> {"TIMEOUT", "TO"}]

JobState == DOMAIN Tokens \cup {"Unknown"}

Parse(token) ==
    IF \E s \in DOMAIN Tokens : token \in Tokens[s]
    THEN CHOOSE s \in DOMAIN Tokens : token \in Tokens[s]
    ELSE "Unknown"

\* as_token() is how a state is handed on: the long form, never an alias of qgroup.
AsToken == [
    Pending |-> "PENDING", Configuring |-> "CONFIGURING", Requeued |-> "REQUEUED",
    RequeueFed |-> "REQUEUE_FED", RequeueHold |-> "REQUEUE_HOLD",
    ResvDelHold |-> "RESV_DEL_HOLD", Suspended |-> "SUSPENDED", Stopped |-> "STOPPED",
    Running |-> "RUNNING", Completing |-> "COMPLETING", Resizing |-> "RESIZING",
    Signaling |-> "SIGNALING", StageOut |-> "STAGE_OUT", Completed |-> "COMPLETED",
    BootFail |-> "BOOT_FAIL", Cancelled |-> "CANCELLED", Deadline |-> "DEADLINE",
    Failed |-> "FAILED", NodeFail |-> "NODE_FAIL", OutOfMemory |-> "OUT_OF_MEMORY",
    Preempted |-> "PREEMPTED", Revoked |-> "REVOKED", SpecialExit |-> "SPECIAL_EXIT",
    Timeout |-> "TIMEOUT", Unknown |-> "UNKNOWN"]

\* Mutant: the signal is not looked at.
ExitCodeOfExit(field) == {f.exit : f \in field}

\* The column <exit>:<signal>, or none: an Option is a set of at most one value.
ExitCode(field) == {IF f.signal # 0 THEN 128 + f.signal ELSE f.exit : f \in field}

Default == [state |-> "Unknown", exit |-> {}]

Outcome(row) == [state |-> Parse(row.token), exit |-> ExitCode(row.field)]

-----------------------------------------------------------------------------
(* The parsers. *)

\* parse_squeue, parse_sacct, parse_sacct_with_exit_code and parse_qgroup_l: rows
\* whose first column is no number are skipped, and the last row of a job counts.
ByJob(rows) ==
    LET jobs == {row.id.job : row \in {r \in ToSet(rows) : r.id.kind = "job"}}
        ofJob(j) == {i \in DOMAIN rows : rows[i].id.kind = "job" /\ rows[i].id.job = j}
    IN  [j \in jobs |-> Outcome(rows[Max(ofJob(j))])]

\* Mutant: any row of the array's master will do.
OfTaskLoosely(rows, key) ==
    LET hits == {i \in DOMAIN rows : rows[i].id.job = key.job}
    IN  IF hits = {} THEN {} ELSE {Outcome(rows[Min(hits)])}

\* parse_squeue_array_task and parse_sacct_array_task_with_exit_code: the first row
\* whose first column is the key.
OfTask(rows, key) ==
    LET hits == {i \in DOMAIN rows : rows[i].id = key}
    IN  IF hits = {} THEN {} ELSE {Outcome(rows[Min(hits)])}

OfJob(rows, j) == LET known == ByJob(rows)
                  IN  IF j \in DOMAIN known THEN {known[j]} ELSE {}

\* What a handle takes from a listing, its own or a shared one.
Answer(rows, key) ==
    IF key.kind = "task" THEN OfTask(rows, key) ELSE OfJob(rows, key.job)

\* A task asks squeue for itself and sacct for its master.
AskedOfSqueue(key) == key
AskedOfSacct(key) == Key(key.job, NoTask)

\* An error status is a listing without rows if all jobs are gone ("Invalid job id
\* specified"), and an error otherwise.
Rows(out) == IF out.status = "vanished" THEN <<>> ELSE out.rows
IsError(out) == out.status = "failed"

-----------------------------------------------------------------------------
(* query_job_states_with_exit_code_with, query_job_states_batch_with.               *)

Jobs(S) == {Key(j, NoTask) : j \in S}

\* A row of squeue, else one of sacct, else the default; each job has an entry.
Merged(wanted, active, history) ==
    [j \in wanted |-> IF j \in DOMAIN active THEN active[j]
                      ELSE IF j \in DOMAIN history THEN history[j] ELSE Default]

\* Mutant: sacct is asked only when squeue has no row at all.
MissingIfAllAre(wanted, queue) ==
    IF DOMAIN ByJob(Rows(queue)) = {} THEN wanted ELSE {}

\* The jobs squeue has no row of: sacct is asked about these, if there are any.
Missing(wanted, queue) == wanted \ DOMAIN ByJob(Rows(queue))

\* The states of the jobs `wanted', or {} for an error, when squeue answers `queue'
\* and sacct, asked about the missing ones, `acct'.
QueryBatch(wanted, queue, acct) ==
    LET missing == Missing(wanted, queue)
        history == IF missing = {} THEN <<>> ELSE ByJob(Rows(acct))
    IN  IF wanted = {} THEN {<<>>}
        ELSE IF IsError(queue) \/ (missing # {} /\ IsError(acct)) THEN {}
        ELSE {Merged(wanted, ByJob(Rows(queue)), history)}

-----------------------------------------------------------------------------
(* The commands.  `listed' holds the rows a source has, one per job or task.        *)

\* A key asks for itself, and the key of a master for its tasks.
Covers(key, id) == key = id \/ (key.kind = "job" /\ key.job = id.job)

\* The rows a command prints for the keys: in some order, and for sacct with those
\* of steps among them.
Printed(listed, keys) ==
    {row \in listed : \E key \in keys : Covers(key, row.id)}
=============================================================================
