---------------------------- MODULE SbatchManager ----------------------------
(***************************************************************************)
(* Submission and attachment (sbatch/manager.rs) over a directory of       *)
(* snapshot files (store.rs), which every call shares, also with earlier   *)
(* and other processes.                                                    *)
(*                                                                         *)
(* A spawn runs sbatch, then saves one snapshot per task: a blocking       *)
(* thread fills a temporary file and renames it, while the call waits.  An *)
(* attachment by jobid reads the directory entry by entry, while others    *)
(* save and delete, and skips what it cannot read.  What a snapshot says   *)
(* of its job is SbatchHandle's; here it is its identity: the submission,  *)
(* its place among those of the submission, and the task it was made for.  *)
(***************************************************************************)
EXTENDS Integers, Sequences, FiniteSets, SequencesExt

CONSTANTS
    Client,     \* the calls that may be under way at once
    Arrays,     \* the --array specs in use, expanded (expand_array_indices)
    MaxJobs,    \* bound: jobs that sbatch submits
    MaxTroubles \* bound: failures, garbled outputs, unreadable files, dropped
                \* futures, deletions and crashes, taken together

Job == 1..MaxJobs
NoJob == 0
Index == UNION {ToSet(a) : a \in Arrays}
NoTask == -1            \* array_task_id of a single job
Task == Index \cup {NoTask}
Place == UNION {DOMAIN a : a \in Arrays \cup {<<NoTask>>}}
\* One per snapshot: of submission u[1], the u[2]-th of it, for task u[3].  Ranges that
\* overlap give a task several.
Uuid == Job \X Place \X Task

ASSUME SbatchManagerAssumption ==
    /\ Arrays \subseteq Seq(Nat) \ {<<>>}
    /\ MaxJobs \in Nat /\ MaxTroubles \in Nat

VARIABLES
    accepted,   \* the jobs SLURM knows
    files,      \* files[u]: {root}/{u}.json
    writes,     \* writes[u]: the blocking write of u, by what its temporary file
                \* holds, or how it has ended
    pc, op,     \* of each client: where it is, and in which call
    job,        \* the jobid the call works on
    todo,       \* the tasks still to save
    made,       \* the handles made, and in the end returned
    result,     \* how the last call ended
    cell,       \* the jobid that run_with()'s on_spawn callback has stored
    unread,     \* the directory entries a scan has still to read
    found,      \* the snapshots it has read
    skipped,    \* those it has warned of, as unreadable
    there,      \* those that were there, whole, when it began (history)
    deleted,    \* those that somebody has deleted (history)
    spoiled,    \* those that were on disk when the machine went down (history)
    told,       \* jobs whose jobid has reached a caller (history)
    lost,       \* jobs whose call or sbatch was dropped or died before that, or lost
                \* its working directory (history)
    troubles    \* what is left of MaxTroubles

disk == <<files, writes>>
call == <<pc, op, job, todo, made, result, cell>>
scan == <<unread, found, skipped, there>>
known == <<told, lost, deleted, spoiled>>
vars == <<accepted, disk, call, scan, known, troubles>>

Trouble ==
    /\ troubles > 0
    /\ troubles' = troubles - 1

Init ==
    /\ accepted = {}
    /\ files = [u \in Uuid |-> "absent"]
    /\ writes = [u \in Uuid |-> "none"]
    /\ pc = [c \in Client |-> "idle"]
    /\ op = [c \in Client |-> "none"]
    /\ job = [c \in Client |-> NoJob]
    /\ todo = [c \in Client |-> <<>>]
    /\ made = [c \in Client |-> <<>>]
    /\ result = [c \in Client |-> "none"]
    /\ cell = [c \in Client |-> NoJob]
    /\ unread = [c \in Client |-> {}]
    /\ found = [c \in Client |-> {}]
    /\ skipped = [c \in Client |-> {}]
    /\ there = [c \in Client |-> {}]
    /\ told = {}
    /\ lost = {}
    /\ deleted = {}
    /\ spoiled = {}
    /\ troubles = MaxTroubles

Go(c, l) == pc' = [pc EXCEPT ![c] = l]

Return(c, how, handles) ==
    /\ Go(c, "idle")
    /\ result' = [result EXCEPT ![c] = how]
    /\ made' = [made EXCEPT ![c] = handles]
    /\ todo' = [todo EXCEPT ![c] = <<>>]
    /\ unread' = [unread EXCEPT ![c] = {}]
    /\ found' = [found EXCEPT ![c] = {}]

Start(c, o, j, ts) ==
    /\ pc[c] = "idle"
    /\ op' = [op EXCEPT ![c] = o]
    /\ job' = [job EXCEPT ![c] = j]
    /\ todo' = [todo EXCEPT ![c] = ts]
    /\ made' = [made EXCEPT ![c] = <<>>]
    /\ result' = [result EXCEPT ![c] = "none"]
    /\ cell' = [cell EXCEPT ![c] = NoJob]

-----------------------------------------------------------------------------
(* spawn(), spawn_array() and run_with(). *)

Spawn(c) ==
    /\ \/ \E o \in {"spawn", "run"} : Start(c, o, NoJob, <<NoTask>>)
       \/ \E a \in Arrays : Start(c, "spawn_array", NoJob, a)
    /\ Go(c, "sbatch")
    /\ UNCHANGED <<accepted, disk, scan, known, troubles>>

\* SLURM hands out the jobids in order.
Accepts(j) == j \in Job \ accepted /\ \A i \in Job \ accepted : j <= i

\* The snapshot that a call makes next.
Snapshot(j, handles, tasks) == <<j, Len(handles) + 1, Head(tasks)>>
Current(c) == Snapshot(job[c], made[c], todo[c])

\* save() hands the write to a blocking thread, whose temporary file is empty at first.
Save(u) == writes' = [writes EXCEPT ![u] = "torn"]

SbatchOk(c) ==
    /\ pc[c] = "sbatch"
    /\ \E j \in Job :
          /\ Accepts(j)
          /\ accepted' = accepted \cup {j}
          /\ job' = [job EXCEPT ![c] = j]
          /\ Save(Snapshot(j, made[c], todo[c]))
    /\ Go(c, "save")
    /\ UNCHANGED <<files, op, todo, made, result, cell, scan, known, troubles>>

\* sbatch exits with an error status, or cannot be started at all.
SbatchFails(c) ==
    /\ pc[c] = "sbatch"
    /\ Trouble
    /\ Return(c, "submit_failed", <<>>)
    /\ UNCHANGED <<accepted, disk, op, job, cell, skipped, there, known>>

\* Accepted, but the output holds no jobid; the error quotes the output.
SbatchGarbled(c) ==
    /\ pc[c] = "sbatch"
    /\ Trouble
    /\ \E j \in Job : /\ Accepts(j)
                      /\ accepted' = accepted \cup {j}
                      /\ told' = told \cup {j}
    /\ Return(c, "unparsed", <<>>)
    /\ UNCHANGED <<disk, op, job, cell, skipped, there, lost, deleted, spoiled>>

\* sbatch is killed by a signal, which counts as exit code 0, and has printed nothing;
\* or the working directory is gone when the script's path is made absolute.  Neither
\* error names the job that SLURM may have accepted.
SbatchKilled(c) ==
    /\ pc[c] = "sbatch"
    /\ Trouble
    /\ \/ Return(c, "unparsed", <<>>) /\ UNCHANGED <<accepted, lost>>
       \/ /\ \E j \in Job : /\ Accepts(j)
                            /\ accepted' = accepted \cup {j}
                            /\ lost' = lost \cup {j}
          /\ \E how \in {"unparsed", "other"} : Return(c, how, <<>>)
    /\ UNCHANGED <<disk, op, job, cell, skipped, there, told, deleted, spoiled>>

\* write_atomic_json() writes the snapshot to the temporary file, which no scan takes for
\* an entry ...
Fill(u) ==
    /\ writes[u] = "torn"
    /\ writes' = [writes EXCEPT ![u] = "whole"]
    /\ UNCHANGED <<accepted, files, call, scan, known, troubles>>

\* Mutant: the file is renamed first and filled then.
PersistEarly(u) ==
    /\ writes[u] \in {"torn", "whole"}
    /\ files' = [files EXCEPT ![u] = writes[u]]
    /\ writes' = [writes EXCEPT ![u] = "done"]
    /\ UNCHANGED <<accepted, call, scan, known, troubles>>

\* ... and then gives it, with what it holds, the name of the entry, ...
Persist(u) ==
    /\ writes[u] = "whole"
    /\ files' = [files EXCEPT ![u] = writes[u]]
    /\ writes' = [writes EXCEPT ![u] = "done"]
    /\ UNCHANGED <<accepted, call, scan, known, troubles>>

\* ... or fails on the way, at a full disk say, and removes it.
WriteFails(u) ==
    /\ writes[u] \in {"torn", "whole"}
    /\ Trouble
    /\ writes' = [writes EXCEPT ![u] = "failed"]
    /\ UNCHANGED <<accepted, files, call, scan, known>>

\* The call goes on with the next task.  After the last the spawn returns; run_with()
\* calls on_spawn and waits.
SaveEnds(c) ==
    /\ pc[c] = "save" /\ writes[Current(c)] = "done"
    /\ LET handles == Append(made[c], Current(c))
           last == Len(todo[c]) = 1
       IN  /\ IF last /\ op[c] # "run"
              THEN Return(c, "ok", handles)
              ELSE /\ Go(c, IF last THEN "wait" ELSE "save")
                   /\ made' = [made EXCEPT ![c] = handles]
                   /\ todo' = [todo EXCEPT ![c] = Tail(@)]
                   /\ UNCHANGED <<result, unread, found>>
           /\ IF last THEN UNCHANGED writes
              ELSE Save(Snapshot(job[c], handles, Tail(todo[c])))
           /\ told' = IF last THEN told \cup {job[c]} ELSE told
           /\ cell' = IF last /\ op[c] = "run" THEN [cell EXCEPT ![c] = job[c]]
                      ELSE cell
    /\ UNCHANGED <<accepted, files, op, job, skipped, there, lost, deleted, spoiled,
                   troubles>>

\* Mutants: the error does not name the job; it names the one of on_spawn; it is only
\* logged.
SaveFailsSilently(c) ==
    /\ pc[c] = "save" /\ writes[Current(c)] = "failed"
    /\ Return(c, "unpersisted", <<>>)
    /\ UNCHANGED <<accepted, disk, op, job, cell, skipped, there, known, troubles>>
SaveFailsForCell(c) ==
    /\ pc[c] = "save" /\ writes[Current(c)] = "failed"
    /\ told' = told \cup {cell[c]}
    /\ Return(c, "unpersisted", <<>>)
    /\ UNCHANGED <<accepted, disk, op, job, cell, skipped, there, lost, deleted, spoiled,
                   troubles>>
SaveFailsAndGoesOn(c) ==
    /\ pc[c] = "save" /\ writes[Current(c)] = "failed" /\ Len(todo[c]) > 1
    /\ made' = [made EXCEPT ![c] = Append(@, Current(c))]
    /\ todo' = [todo EXCEPT ![c] = Tail(@)]
    /\ Save(Snapshot(job[c], Append(made[c], Current(c)), Tail(todo[c])))
    /\ UNCHANGED <<accepted, files, pc, op, job, result, cell, scan, known, troubles>>

\* SubmittedButUnpersisted names the job.
SaveFails(c) ==
    /\ pc[c] = "save" /\ writes[Current(c)] = "failed"
    /\ told' = told \cup {job[c]}
    /\ Return(c, "unpersisted", <<>>)
    /\ UNCHANGED <<accepted, disk, op, job, cell, skipped, there, lost, deleted, spoiled,
                   troubles>>

\* The wait and the finalizer of run_with() are SbatchHandle's.
RunEnds(c) ==
    /\ pc[c] = "wait"
    /\ Return(c, "ok", made[c])
    /\ UNCHANGED <<accepted, disk, op, job, cell, skipped, there, known, troubles>>

-----------------------------------------------------------------------------
(* attach() and attach_array_jobid(). *)

Names == {u \in Uuid : files[u] # "absent"}
Entries == {u \in Uuid : files[u] = "whole"}

\* By uuid, or by the path of the file.
AttachUuid(c) ==
    \E u \in Uuid :
        /\ pc[c] = "idle"
        /\ op' = [op EXCEPT ![c] = "attach_uuid"]
        /\ job' = [job EXCEPT ![c] = u[1]]
        /\ made' = [made EXCEPT ![c] = IF u \in Entries THEN <<u>> ELSE <<>>]
        /\ result' = [result EXCEPT ![c] = CASE u \in Entries -> "ok"
                                             [] u \in Names \ Entries -> "io_error"
                                             [] u \notin Names -> "not_found"]
        /\ UNCHANGED <<accepted, disk, pc, todo, cell, scan, known, troubles>>

\* list() opens the directory ...
Attach(c) ==
    /\ \E o \in {"attach_jobid", "attach_array"}, j \in accepted :
          Start(c, o, j, <<>>)
    /\ Go(c, "scan")
    /\ unread' = [unread EXCEPT ![c] = Names]
    /\ found' = [found EXCEPT ![c] = {}]
    /\ skipped' = [skipped EXCEPT ![c] = {}]
    /\ there' = [there EXCEPT ![c] = Entries]
    /\ UNCHANGED <<accepted, disk, known, troubles>>

\* It meets what is in it, and perhaps what has come since.
Meets(c, u) == u \in unread[c] \/ u \in Entries \ (found[c] \cup skipped[c])

\* Mutant: an entry that has vanished ends the scan.
ReadEntryOrStop(c) ==
    /\ pc[c] = "scan"
    /\ \E u \in Uuid :
          /\ Meets(c, u)
          /\ IF u \in Entries
             THEN /\ found' = [found EXCEPT ![c] = @ \cup {u}]
                  /\ unread' = [unread EXCEPT ![c] = @ \ {u}]
             ELSE /\ unread' = [unread EXCEPT ![c] = {}]
                  /\ UNCHANGED found
    /\ UNCHANGED <<accepted, disk, call, skipped, there, known, troubles>>

\* ... reads entry after entry, and passes over what is gone or does not decode ...
ReadEntry(c) ==
    /\ pc[c] = "scan"
    /\ \E u \in Uuid :
          /\ Meets(c, u)
          /\ unread' = [unread EXCEPT ![c] = @ \ {u}]
          /\ found' = [found EXCEPT ![c] = IF u \in Entries THEN @ \cup {u} ELSE @]
    /\ UNCHANGED <<accepted, disk, call, skipped, there, known, troubles>>

\* ... or cannot be read just now: too many open files, say, or no permission ...
SkipEntry(c) ==
    /\ pc[c] = "scan"
    /\ Trouble
    /\ \E u \in Entries :
          /\ Meets(c, u)
          /\ unread' = [unread EXCEPT ![c] = @ \ {u}]
          /\ skipped' = [skipped EXCEPT ![c] = @ \cup {u}]
    /\ UNCHANGED <<accepted, disk, call, found, there, known>>

Of(j) == {u \in Uuid : u[1] = j}

\* A sort by array_task_id; those of one task stay as the scan met them.
ByTask(S) == {s \in SetToSeqs(S) : \A i, k \in DOMAIN s : i < k => s[i][3] <= s[k][3]}

\* Mutant: the first match is taken.
AttachedFirst(c) ==
    LET matches == found[c] \cap Of(job[c])
    IN  IF op[c] = "attach_array" THEN ByTask({u \in matches : u[3] # NoTask})
        ELSE IF matches = {} THEN {<<>>} ELSE {<<u>> : u \in matches}

\* All the tasks of an array; of a job the snapshot, unless there are several.
Attached(c) ==
    LET matches == found[c] \cap Of(job[c])
    IN  IF op[c] = "attach_array" THEN ByTask({u \in matches : u[3] # NoTask})
        ELSE IF Cardinality(matches) = 1 THEN {<<u>> : u \in matches} ELSE {<<>>}

\* ... and the matches become handles.
ScanEnds(c) ==
    /\ pc[c] = "scan" /\ unread[c] = {}
    /\ \E handles \in Attached(c) :
          Return(c, IF op[c] = "attach_array" \/ handles # <<>> THEN "ok"
                    ELSE IF found[c] \cap Of(job[c]) = {} THEN "not_found"
                    ELSE "multiple", handles)
    /\ UNCHANGED <<accepted, disk, op, job, cell, skipped, there, known, troubles>>

ScanFails(c) ==
    /\ pc[c] = "scan"
    /\ Trouble
    /\ Return(c, "io_error", <<>>)
    /\ UNCHANGED <<accepted, disk, op, job, cell, skipped, there, known>>

-----------------------------------------------------------------------------
(* What else may happen. *)

\* JobStateStore::delete().
Delete ==
    /\ Trouble
    /\ \E u \in Names :
          /\ files' = [files EXCEPT ![u] = "absent"]
          /\ deleted' = deleted \cup {u}
    /\ UNCHANGED <<accepted, writes, call, scan, told, lost, spoiled>>

\* The future is dropped, at a timeout say.  sbatch is not killed and may still
\* submit, and a blocking write goes on.
Drop(c) ==
    /\ pc[c] # "idle"
    /\ Trouble
    /\ Return(c, "dropped", <<>>)
    /\ \/ /\ pc[c] = "sbatch"
          /\ \/ \E j \in Job : /\ Accepts(j)
                               /\ accepted' = accepted \cup {j}
                               /\ lost' = lost \cup {j}
             \/ UNCHANGED <<accepted, lost>>
       \/ /\ pc[c] = "save"
          /\ lost' = lost \cup {job[c]}
          /\ UNCHANGED accepted
       \/ pc[c] \in {"scan", "wait"} /\ UNCHANGED <<accepted, lost>>
    /\ UNCHANGED <<disk, op, job, cell, skipped, there, told, deleted, spoiled>>

\* The process dies and is started again: its calls and its writes are gone, and
\* temporary files with them.
Dies ==
    /\ Trouble
    /\ writes' = [u \in Uuid |-> "none"]
    /\ pc' = [c \in Client |-> "idle"]
    /\ op' = [c \in Client |-> "none"]
    /\ job' = [c \in Client |-> NoJob]
    /\ todo' = [c \in Client |-> <<>>]
    /\ made' = [c \in Client |-> <<>>]
    /\ result' = [c \in Client |-> "none"]
    /\ cell' = [c \in Client |-> NoJob]
    /\ unread' = [c \in Client |-> {}]
    /\ found' = [c \in Client |-> {}]
    /\ skipped' = [c \in Client |-> {}]
    /\ there' = [c \in Client |-> {}]
    /\ \E n \in 0..Cardinality({c \in Client : pc[c] = "sbatch"}) :
          accepted' = {j \in Job : j <= Cardinality(accepted) + n}
    /\ lost' = lost \cup (accepted' \ accepted)
                    \cup {job[c] : c \in {d \in Client : pc[d] = "save"}}
    /\ UNCHANGED <<told, deleted>>

\* An sbatch it has started goes on.
Crash ==
    /\ Dies
    /\ UNCHANGED <<files, spoiled>>

\* The machine goes down with it.  Nothing was synced: of an entry the name may be
\* there and what it holds not, or neither.
PowerLoss ==
    /\ Dies
    /\ \E torn, gone \in SUBSET Entries :
          files' = [u \in Uuid |-> IF u \in gone THEN "absent"
                                  ELSE IF u \in torn THEN "torn" ELSE files[u]]
    /\ spoiled' = spoiled \cup Names

Step(c) ==
    \/ SbatchOk(c) \/ SbatchFails(c) \/ SbatchGarbled(c) \/ SbatchKilled(c)
    \/ SaveEnds(c) \/ SaveFails(c) \/ RunEnds(c)
    \/ ReadEntry(c) \/ SkipEntry(c) \/ ScanEnds(c) \/ ScanFails(c)

Write(u) == Fill(u) \/ Persist(u) \/ WriteFails(u)

Next ==
    \/ \E c \in Client :
          Spawn(c) \/ AttachUuid(c) \/ Attach(c) \/ Step(c) \/ Drop(c)
    \/ \E u \in Uuid : Write(u)
    \/ Delete \/ Crash \/ PowerLoss

Spec == Init /\ [][Next]_vars

-----------------------------------------------------------------------------

Calls == {"spawn", "spawn_array", "run", "attach_uuid", "attach_jobid",
          "attach_array"}
Results == {"ok", "submit_failed", "unparsed", "unpersisted", "not_found",
            "multiple", "io_error", "dropped", "other"}

TypeOK ==
    /\ accepted \subseteq Job
    /\ files \in [Uuid -> {"absent", "torn", "whole"}]
    /\ writes \in [Uuid -> {"none", "torn", "whole", "done", "failed"}]
    /\ pc \in [Client -> {"idle", "sbatch", "save", "wait", "scan"}]
    /\ op \in [Client -> Calls \cup {"none"}]
    /\ job \in [Client -> Job \cup {NoJob}]
    /\ todo \in [Client -> Seq(Task)]
    /\ made \in [Client -> Seq(Uuid)]
    /\ result \in [Client -> Results \cup {"none"}]
    /\ cell \in [Client -> Job \cup {NoJob}]
    /\ unread \in [Client -> SUBSET Uuid]
    /\ found \in [Client -> SUBSET Uuid]
    /\ skipped \in [Client -> SUBSET Uuid]
    /\ there \in [Client -> SUBSET Uuid]
    /\ told \subseteq Job /\ lost \subseteq Job
    /\ deleted \subseteq Uuid /\ spoiled \subseteq Uuid
    /\ troubles \in 0..MaxTroubles

InFlight(j) ==
    \E c \in Client : pc[c] = "save" /\ job[c] = j

\* A job that SLURM has accepted has a call at work on it, or its jobid has reached
\* a caller, in a handle or in an error (SubmittedButUnpersisted exists for that,
\* sbatch/error.rs:22) - unless the call's future was dropped, or the call, its
\* sbatch or its working directory has gone.
NoJobIsStranded ==
    \A j \in accepted : j \in told \cup lost \/ InFlight(j)

\* A spawn that returns has left on disk, whole, what it returns: an entry for each
\* task, in the order of the spec.  Only a deletion takes one away.
SpawnedIsSaved ==
    \A c \in Client :
        result[c] = "ok" /\ op[c] \in {"spawn", "spawn_array"} =>
            /\ [i \in DOMAIN made[c] |-> made[c][i][3]] \in Arrays \cup {<<NoTask>>}
            /\ \A i \in DOMAIN made[c] : made[c][i][1] = job[c]
            /\ ToSet(made[c]) \subseteq Entries \cup deleted

Singles == Job \X Place \X {NoTask}

\* attach_array_jobid() returns every snapshot of a task that was on disk, whole, all the
\* time, but for what it has warned of as unreadable; none that is another job's, and
\* none twice, in the order of the tasks, whatever is saved and deleted while it reads
\* the directory.
ArrayIsFound ==
    \A c \in Client :
        result[c] = "ok" /\ op[c] = "attach_array" =>
            /\ (there[c] \cap Of(job[c])) \ (Singles \cup deleted \cup skipped[c])
                  \subseteq ToSet(made[c])
            /\ \A i \in DOMAIN made[c] : made[c][i] \in Job \X Place \X Index
            /\ \A i \in DOMAIN made[c] : made[c][i][1] = job[c]
            /\ \A i, k \in DOMAIN made[c] :
                  i < k => made[c][i] # made[c][k] /\ made[c][i][3] <= made[c][k][3]

\* attach() by jobid never picks one of several that it could read: if it returns a
\* handle, no other snapshot of the job was on disk, whole, all the time it looked, but
\* for what it has warned of.
AttachIsUnambiguous ==
    \A c \in Client :
        result[c] = "ok" /\ op[c] = "attach_jobid" =>
            /\ Len(made[c]) = 1
            /\ (there[c] \cap Of(job[c])) \ (deleted \cup skipped[c])
                  \subseteq ToSet(made[c])

\* No reader meets half a snapshot: not one that is being written, not one whose writer
\* has failed, was dropped or has died.  What was on disk when the machine went down is
\* another matter, for write_atomic_json() syncs nothing.
EntriesAreWhole == \A u \in Uuid : files[u] = "torn" => u \in spoiled

\* sbatch/manager.rs:379, 407: run_with() "invokes on_spawn(jobid) synchronously
\* the moment sbatch returns a parseable jobid", so that after a timeout with an
\* empty cell "spawn hadn't completed yet - nothing to cancel".
NothingToCancel ==
    \A c \in Client :
        op[c] = "run" /\ result[c] = "dropped" /\ cell[c] = NoJob => job[c] = NoJob
=============================================================================
