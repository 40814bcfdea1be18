---------------------------- MODULE SbatchHandle ----------------------------
(***************************************************************************)
(* One sbatch job, the handle that follows it (sbatch/handle.rs), the      *)
(* manager's run() on top of it (sbatch/manager.rs) and the queries they   *)
(* issue (runner.rs).                                                      *)
(*                                                                         *)
(* The handle is shared by clones that call refresh(), the finalizer       *)
(* refresh_with_sacct(), wait_terminal() and run() concurrently.  A call   *)
(* may be suspended, or its future dropped, at every await: there each of  *)
(* its steps ends.  refresh_lock is held from a step that takes it to the  *)
(* step that publishes, fails or is dropped.                               *)
(*                                                                         *)
(* The three status commands are seen through the manager's shared caches, *)
(* abstracted from QueryCache: an answer (a failure too) is replayed until *)
(* it expires, which may happen at any time.                               *)
(***************************************************************************)
EXTENDS Naturals, FiniteSets

CONSTANTS
    Caller,         \* the tasks that hold a clone of the handle
    Finalizer,      \* those that may call refresh_with_sacct()
    Waiter,         \* those that may call wait_terminal()
    Runner,         \* those that may call run()
    Cached,         \* the commands that go through a shared cache
    IsArray,        \* the handle is one task of an array
    JobEnds,        \* the states in which the job may end
    FailureCap,     \* MAX_CONSECUTIVE_REFRESH_FAILURES
    MaxRequeues,    \* bound: how often SLURM requeues the job
    MaxFaults,      \* bound: commands and saves that fail
    MaxGlitches,    \* bound: squeue killed by a signal, read as empty
    MaxDrops        \* bound: futures dropped

Source == {"qgroup", "squeue", "sacct"}
NoOne == "no one"

ASSUME SbatchHandleAssumption ==
    /\ NoOne \notin Caller
    /\ Finalizer \subseteq Caller /\ Waiter \subseteq Caller /\ Runner \subseteq Caller
    /\ Cached \subseteq Source
    /\ IsArray \in BOOLEAN
    /\ JobEnds \subseteq {"COMPLETED", "NODE_FAIL", "Unknown"}
    /\ FailureCap \in Nat \ {0}
    /\ {MaxRequeues, MaxFaults, MaxGlitches, MaxDrops} \subseteq Nat

VARIABLES
    job,        \* the state SLURM has for the job
    reached,    \* every state it ever had (history)
    listed,     \* listed[s]: listing s has a row for it
    acct,       \* its state in the accounting database
    cache,      \* cache[s]: the answer the shared cache of command s replays
    budget,     \* what is left of the Max constants
    watch,      \* snapshot_tx
    store,      \* the snapshot on disk
    orphans,    \* writes whose future was dropped but that still happen
    holder,     \* the owner of refresh_lock, or NoOne
    pc, op, snap, fails, result \* each caller's call: its locals and outcome

slurm == <<job, reached, listed, acct>>
disk == <<store, orphans>>
call == <<pc, op, snap, fails, result>>
vars == <<slurm, cache, budget, watch, disk, holder, call>>

Listing == {"qgroup", "squeue"}

\* JobState, as far as the code tells its values apart: "Unknown" is a token
\* that parse() does not know, here one SLURM gives to a job that has ended.
JobState == {"PENDING", "RUNNING", "COMPLETED", "NODE_FAIL", "Unknown"}

\* Mutant: NODE_FAIL forgotten in the list of terminal states.
IsTerminalShort(st) == st = "COMPLETED"

IsTerminal(st) == st \in {"COMPLETED", "NODE_FAIL"}

NotFinished == [state |-> "none", code |-> FALSE]

\* SbatchLifecycle.  Of an exit code only its presence is kept.
Lifecycle == [last : JobState \cup {"none"}, left : BOOLEAN,
              fin : [state : JobState \cup {"none"}, code : BOOLEAN]]

NewLifecycle == [last |-> "none", left |-> FALSE, fin |-> NotFinished]

IsFinished(s) == s.fin # NotFinished
IsRunning(s) == ~s.left /\ s.last = "RUNNING"

Init ==
    /\ job = "PENDING"
    /\ reached = {"PENDING"}
    /\ listed = [s \in Listing |-> TRUE]
    /\ acct = "none"
    /\ cache = [s \in Source |-> "none"]
    /\ budget = [requeues |-> MaxRequeues, faults |-> MaxFaults,
                 glitches |-> MaxGlitches, drops |-> MaxDrops]
    /\ watch = NewLifecycle
    /\ store = NewLifecycle
    /\ orphans = {}
    /\ holder = NoOne
    /\ pc = [c \in Caller |-> "idle"]
    /\ op = [c \in Caller |-> "none"]
    /\ snap = [c \in Caller |-> NewLifecycle]
    /\ fails = [c \in Caller |-> 0]
    /\ result = [c \in Caller |-> "none"]

Spend(what) ==
    /\ budget[what] > 0
    /\ budget' = [budget EXCEPT ![what] = @ - 1]

-----------------------------------------------------------------------------
(* SLURM. *)

Become(st) ==
    /\ job' = st
    /\ reached' = reached \cup {st}

JobStarts ==
    /\ job = "PENDING"
    /\ Become("RUNNING")
    /\ UNCHANGED <<listed, acct, cache, budget, watch, disk, holder, call>>

JobStops ==
    /\ job = "RUNNING"
    /\ \E st \in JobEnds : Become(st)
    /\ UNCHANGED <<listed, acct, cache, budget, watch, disk, holder, call>>

\* A failed node gives the job back to the scheduler, under the same id.
Requeue ==
    /\ job = "NODE_FAIL" /\ listed["squeue"]
    /\ Spend("requeues")
    /\ Become("PENDING")
    /\ UNCHANGED <<listed, acct, cache, watch, disk, holder, call>>

\* A listing drops a job that has ended, each in its own time ...
Purge(s) ==
    /\ job \notin {"PENDING", "RUNNING"} /\ listed[s]
    /\ listed' = [listed EXCEPT ![s] = FALSE]
    /\ UNCHANGED <<job, reached, acct, cache, budget, watch, disk, holder, call>>

\* ... and the accounting database follows with a lag.
Flush ==
    /\ acct # job
    /\ acct' = job
    /\ UNCHANGED <<job, reached, listed, cache, budget, watch, disk, holder,
                   call>>

Expire(s) ==
    /\ cache[s] # "none"
    /\ cache' = [cache EXCEPT ![s] = "none"]
    /\ UNCHANGED <<slurm, budget, watch, disk, holder, call>>

-----------------------------------------------------------------------------
(* The queries: the answer for this job is its state, "no row" or "failure". *)

Truth(s) ==
    IF s = "sacct" THEN IF acct = "none" THEN "no row" ELSE acct
                   ELSE IF listed[s] THEN job ELSE "no row"

\* A command that is spawned now.
Live(s, a) ==
    \/ a = Truth(s) /\ UNCHANGED budget
    \/ s = "qgroup" /\ a = "no row" /\ UNCHANGED budget \* it may list less
    \/ a = "failure" /\ Spend("faults")
    \/ s = "squeue" /\ a = "no row" /\ Spend("glitches")

\* capture() through the shared cache of the command.
Ask(s, a) ==
    \/ cache[s] # "none" /\ a = cache[s] /\ UNCHANGED <<cache, budget>>
    \/ /\ cache[s] = "none" /\ Live(s, a)
       /\ cache' = IF s \in Cached THEN [cache EXCEPT ![s] = a] ELSE cache

Answers == JobState \cup {"no row", "failure"}

-----------------------------------------------------------------------------
(* A call. *)

Go(c, label) == pc' = [pc EXCEPT ![c] = label]

\* The locals of a call do not outlive it.
Forget(c) == snap' = [snap EXCEPT ![c] = NewLifecycle]

Return(c, r) ==
    /\ Go(c, "idle")
    /\ Forget(c)
    /\ fails' = [fails EXCEPT ![c] = 0]
    /\ result' = [result EXCEPT ![c] = r]

\* Between two polls wait_terminal() keeps its failure counter only.
Sleep(c, n) ==
    /\ Go(c, "sleep")
    /\ Forget(c)
    /\ fails' = [fails EXCEPT ![c] = n]
    /\ UNCHANGED result

Allowed(c, o) ==
    \/ o = "refresh"
    \/ o = "finalize" /\ c \in Finalizer
    \/ o = "wait" /\ c \in Waiter
    \/ o = "run" /\ c \in Runner

Begin(c, o) ==
    /\ pc[c] = "idle" /\ Allowed(c, o)
    /\ Go(c, "lock")
    /\ op' = [op EXCEPT ![c] = o]
    /\ result' = [result EXCEPT ![c] = "none"]
    /\ UNCHANGED <<slurm, cache, budget, watch, disk, holder, snap, fails>>

\* Mutant: the lock is not waited for.
LockAnyway(c) ==
    /\ pc[c] = "lock"
    /\ holder' = c
    /\ snap' = [snap EXCEPT ![c] = watch]
    /\ Go(c, IF IsArray THEN "squeue" ELSE "qgroup")
    /\ UNCHANGED <<slurm, cache, budget, watch, disk, op, fails, result>>

\* refresh(): the snapshot is copied after the lock is taken.
Lock(c) ==
    /\ pc[c] = "lock" /\ holder = NoOne
    /\ holder' = c
    /\ snap' = [snap EXCEPT ![c] = watch]
    /\ Go(c, IF IsArray THEN "squeue" ELSE "qgroup")
    /\ UNCHANGED <<slurm, cache, budget, watch, disk, op, fails, result>>

Observe(c, st) == snap' = [snap EXCEPT ![c].last = st]
Vanish(c) == snap' = [snap EXCEPT ![c].left = TRUE]

\* Any qgroup error is a miss.
QueryQgroup(c) ==
    /\ pc[c] = "qgroup"
    /\ \E a \in Answers :
          /\ Ask("qgroup", a)
          /\ \/ a \in JobState /\ Observe(c, a) /\ Go(c, "save")
             \/ a \notin JobState /\ Go(c, "squeue") /\ UNCHANGED snap
    /\ UNCHANGED <<slurm, watch, disk, holder, op, fails, result>>

\* Mutant: one failure more is tolerated.
RefreshFailsOnceMore(c) ==
    /\ holder' = NoOne
    /\ \/ /\ op[c] \in {"wait", "run"} /\ fails[c] < FailureCap
          /\ Sleep(c, fails[c] + 1)
       \/ /\ op[c] \in {"wait", "run"} => fails[c] >= FailureCap
          /\ Return(c, "error")

\* refresh() returns an error: wait_terminal() counts it and sleeps, or gives
\* up at the cap; the others propagate it.
RefreshFails(c) ==
    /\ holder' = NoOne
    /\ \/ /\ op[c] \in {"wait", "run"} /\ fails[c] + 1 < FailureCap
          /\ Sleep(c, fails[c] + 1)
       \/ /\ op[c] \in {"wait", "run"} => fails[c] + 1 >= FailureCap
          /\ Return(c, "error")

\* Mutant: the exit code of squeue is not looked at.
QuerySqueueUnchecked(c) ==
    /\ pc[c] = "squeue"
    /\ \E a \in Answers :
          /\ Ask("squeue", a)
          /\ IF a \in JobState THEN Observe(c, a) ELSE Vanish(c)
    /\ Go(c, "save")
    /\ UNCHANGED <<slurm, watch, disk, holder, op, fails, result>>

QuerySqueue(c) ==
    /\ pc[c] = "squeue"
    /\ \E a \in Answers :
          /\ Ask("squeue", a)
          /\ \/ /\ a \in JobState /\ Observe(c, a) /\ Go(c, "save")
                /\ UNCHANGED <<holder, fails, result>>
             \/ /\ a = "no row" /\ Vanish(c) /\ Go(c, "save")
                /\ UNCHANGED <<holder, fails, result>>
             \/ a = "failure" /\ RefreshFails(c)
    /\ UNCHANGED <<slurm, watch, disk, op>>

\* store.save() succeeds ...
Save(c) ==
    /\ pc[c] \in {"save", "save2"}
    /\ store' = snap[c]
    /\ Go(c, IF pc[c] = "save" THEN "publish" ELSE "publish2")
    /\ UNCHANGED <<slurm, cache, budget, watch, orphans, holder, op, snap, fails,
                   result>>

\* Mutant: a failed save is only logged.
SaveFailsQuietly(c) ==
    /\ pc[c] \in {"save", "save2"}
    /\ Spend("faults")
    /\ Go(c, IF pc[c] = "save" THEN "publish" ELSE "publish2")
    /\ UNCHANGED <<slurm, cache, watch, disk, holder, op, snap, fails, result>>

\* ... or fails, and the new snapshot is not published.
SaveFails(c) ==
    /\ pc[c] \in {"save", "save2"}
    /\ Spend("faults")
    /\ \/ pc[c] = "save" /\ RefreshFails(c)
       \/ pc[c] = "save2" /\ holder' = NoOne /\ Return(c, "error")
    /\ UNCHANGED <<slurm, cache, watch, disk, op>>

\* Mutant: the vanish flag is not looked at.
OverWhenTerminal(s) == IsTerminal(s.last)

\* wait_terminal()'s condition.
Over(s) == IsTerminal(s.last) \/ s.left

\* Mutant: the short-circuit for a finished job is gone.
ToFinalizeAgain(s) == Over(s)

\* refresh_with_sacct()'s condition for asking sacct.
ToFinalize(s) == ~IsFinished(s) /\ Over(s)

\* What the caller does with the snapshot refresh() returned; refresh_lock is
\* free again.
AfterRefresh(c) ==
    LET s == snap[c] IN
    \/ op[c] = "refresh" /\ Return(c, "ok") /\ UNCHANGED op
    \/ op[c] = "finalize" /\ ~ToFinalize(s) /\ Return(c, "ok") /\ UNCHANGED op
    \/ /\ op[c] = "run2" /\ ~ToFinalize(s)
       /\ Return(c, IF IsFinished(s) THEN s.fin.state ELSE "missing")
       /\ UNCHANGED op
    \/ /\ op[c] \in {"finalize", "run2"} /\ ToFinalize(s)
       /\ Go(c, "lock2") /\ UNCHANGED <<op, snap, fails, result>>
    \/ op[c] = "wait" /\ Over(s) /\ Return(c, "ok") /\ UNCHANGED op
    \/ op[c] \in {"wait", "run"} /\ ~Over(s) /\ Sleep(c, 0) /\ UNCHANGED op
    \/ /\ op[c] = "run" /\ Over(s)            \* run(): on to the finalizer
       /\ op' = [op EXCEPT ![c] = "run2"]
       /\ Go(c, "lock") /\ Forget(c) /\ UNCHANGED <<fails, result>>

\* snapshot_tx.send_replace(), then refresh() returns.
Publish(c) ==
    /\ pc[c] = "publish"
    /\ watch' = snap[c]
    /\ holder' = NoOne
    /\ AfterRefresh(c)
    /\ UNCHANGED <<slurm, cache, budget, disk>>

Wake(c) ==
    /\ pc[c] = "sleep"
    /\ Go(c, "lock")
    /\ UNCHANGED <<slurm, cache, budget, watch, disk, holder, op, snap, fails,
                   result>>

-----------------------------------------------------------------------------
(* The second half of refresh_with_sacct().  It locks again, and goes on   *)
(* with the snapshot that refresh() returned.                              *)

Lock2(c) ==
    /\ pc[c] = "lock2" /\ holder = NoOne
    /\ holder' = c
    /\ Go(c, IF IsArray THEN "sacct" ELSE "squeue2")
    /\ UNCHANGED <<slurm, cache, budget, watch, disk, op, snap, fails, result>>

\* refresh_with_sacct() ends without (another) write.
Finalized(c, s) ==
    /\ holder' = NoOne
    /\ Return(c, CASE op[c] = "finalize" -> "ok"
                   [] IsFinished(s) -> s.fin.state
                   [] OTHER -> "missing")

ToSave(c, s) ==
    /\ snap' = [snap EXCEPT ![c] = s]
    /\ Go(c, "save2") /\ UNCHANGED <<holder, fails, result>>

Stamped(c, st, code) == [snap[c] EXCEPT !.fin = [state |-> st, code |-> code]]
RolledBack(c, st) == [snap[c] EXCEPT !.left = FALSE, !.last = st]

\* Mutant: the outcome is recorded whatever its state.
ResolveAlways(c, st, code) == ToSave(c, Stamped(c, st, code))

\* Mutant: an unknown state is never taken for an outcome.
ResolveKnown(c, st, code) ==
    \/ st = "Unknown" /\ Finalized(c, snap[c])
    \/ st # "Unknown" /\ ~IsTerminal(st) /\ ToSave(c, RolledBack(c, st))
    \/ IsTerminal(st) /\ ToSave(c, Stamped(c, st, code))

\* The outcome (state, has an exit code): no usable row, a job that is still
\* alive, or the end.
Resolve(c, st, code) ==
    \/ st = "Unknown" /\ ~code /\ Finalized(c, snap[c])
    \/ st # "Unknown" /\ ~IsTerminal(st) /\ ToSave(c, RolledBack(c, st))
    \/ /\ IsTerminal(st) \/ (st = "Unknown" /\ code)
       /\ ToSave(c, Stamped(c, st, code))

\* query_job_states_with_exit_code: squeue first; a row has no exit code.
QuerySqueue2(c) ==
    /\ pc[c] = "squeue2"
    /\ \E a \in Answers :
          /\ Ask("squeue", a)
          /\ \/ a \in JobState /\ Resolve(c, a, FALSE)
             \/ /\ a = "no row" /\ Go(c, "sacct")
                /\ UNCHANGED <<holder, snap, fails, result>>
             \/ a = "failure" /\ holder' = NoOne /\ Return(c, "error")
    /\ UNCHANGED <<slurm, watch, disk, op>>

\* sacct prints an exit code in every row.
QuerySacct(c) ==
    /\ pc[c] = "sacct"
    /\ \E a \in Answers :
          /\ Ask("sacct", a)
          /\ \/ a \in JobState /\ Resolve(c, a, TRUE)
             \/ a = "no row" /\ Resolve(c, "Unknown", FALSE)
             \/ a = "failure" /\ holder' = NoOne /\ Return(c, "error")
    /\ UNCHANGED <<slurm, watch, disk, op>>

Publish2(c) ==
    /\ pc[c] = "publish2"
    /\ watch' = snap[c]
    /\ Finalized(c, snap[c])
    /\ UNCHANGED <<slurm, cache, budget, disk, op>>

-----------------------------------------------------------------------------
(* The future of a call is dropped (timeout, select!, asyncio.wait_for).   *)
(* The lock guard goes with it; a write that spawn_blocking has accepted   *)
(* is not undone, and happens later.                                       *)

Drop(c) ==
    /\ pc[c] # "idle"
    /\ Spend("drops")
    /\ Return(c, "dropped")
    /\ holder' = IF holder = c THEN NoOne ELSE holder
    /\ orphans' = IF pc[c] \in {"save", "save2"} THEN orphans \cup {snap[c]}
                                                 ELSE orphans
    /\ UNCHANGED <<slurm, cache, watch, store, op>>

LateSave ==
    /\ \E s \in orphans : store' = s /\ orphans' = orphans \ {s}
    /\ UNCHANGED <<slurm, cache, budget, watch, holder, call>>

-----------------------------------------------------------------------------

Environment ==
    \/ JobStarts \/ JobStops \/ Requeue \/ Flush \/ LateSave
    \/ \E s \in Listing : Purge(s)
    \/ \E s \in Source : Expire(s)

\* The steps of a call, once it has begun.
Step(c) ==
    \/ Lock(c) \/ QueryQgroup(c) \/ QuerySqueue(c)
    \/ Save(c) \/ SaveFails(c) \/ Publish(c) \/ Wake(c)
    \/ Lock2(c) \/ QuerySqueue2(c) \/ QuerySacct(c) \/ Publish2(c)

Next ==
    \/ Environment
    \/ \E c \in Caller :
          \/ \E o \in {"refresh", "finalize", "wait", "run"} : Begin(c, o)
          \/ Step(c)
          \/ Drop(c)

Spec == Init /\ [][Next]_vars

\* SLURM runs a job to its end, drops it from squeue and accounts for it; a
\* cached answer expires; a blocking write is executed; a call that can go on is
\* polled by the runtime.  tokio's Mutex is FIFO, so that a caller waiting for
\* refresh_lock gets it although it is taken again and again.
Fairness ==
    /\ WF_vars(JobStarts) /\ WF_vars(JobStops) /\ WF_vars(Flush)
    /\ \A s \in Listing : WF_vars(Purge(s))
    /\ \A s \in Source : WF_vars(Expire(s))
    /\ WF_vars(LateSave)
    /\ \A c \in Caller : /\ WF_vars(Step(c))
                         /\ SF_vars(Lock(c)) /\ SF_vars(Lock2(c))

FairSpec == Spec /\ Fairness

\* A client that keeps asking for the outcome, as the docs tell it to.
PersistentSpec ==
    FairSpec /\ \A c \in Finalizer : SF_vars(Begin(c, "finalize"))

-----------------------------------------------------------------------------

Ended == {"COMPLETED", "NODE_FAIL", "Unknown"}
Outcome == [state : JobState \cup {"none"}, code : BOOLEAN]
Answer == Answers \cup {"none"}

TypeOK ==
    /\ job \in JobState
    /\ reached \subseteq JobState
    /\ listed \in [Listing -> BOOLEAN]
    /\ acct \in JobState \cup {"none"}
    /\ cache \in [Source -> Answer]
    /\ budget \in [{"requeues", "faults", "glitches", "drops"} -> Nat]
    /\ watch \in Lifecycle
    /\ store \in Lifecycle
    /\ orphans \subseteq Lifecycle
    /\ holder \in Caller \cup {NoOne}
    /\ pc \in [Caller -> {"idle", "lock", "qgroup", "squeue", "save", "publish",
                         "sleep", "lock2", "squeue2", "sacct", "save2",
                         "publish2"}]
    /\ op \in [Caller -> {"none", "refresh", "finalize", "wait", "run", "run2"}]
    /\ snap \in [Caller -> Lifecycle]
    /\ fails \in [Caller -> 0 .. FailureCap - 1]
    /\ result \in [Caller -> JobState \cup {"none", "ok", "error", "missing",
                                          "dropped"}]

\* What is recorded as the outcome is a final state the job was really in, for
\* whoever reads it: on the watch channel, on disk, or about to be written.
\* docs/error.md:343: being unlisted is no end; an accounting row of a job that
\* still runs must never be stamped into FinishedInfo.
FinishedIsReal ==
    LET Real(s) == IsFinished(s) => s.fin.state \in reached \cap Ended
    IN  /\ Real(watch) /\ Real(store)
        /\ \A s \in orphans : Real(s)
        /\ \A c \in Caller : Real(snap[c])

\* An outcome once published is never replaced or erased, whatever refreshes and
\* writes overlap it (the short-circuit at the top of refresh_with_sacct).
FinishedIsFinal == [][IsFinished(watch) => watch'.fin = watch.fin]_vars

\* As long as squeue is believed only when it could answer, no one is told that a
\* job is over while it never was: neither by the vanish flag, nor by a wait
\* or a run that returns.  (The failure classification of runner.rs:25-45.)
NoFalseEnd ==
    budget.glitches = MaxGlitches =>
        \A c \in Caller :
            \/ watch.left \/ IsFinished(watch)
            \/ op[c] = "wait" /\ result[c] = "ok"
            \/ op[c] = "run2" /\ result[c] \notin {"none", "error", "dropped"}
            => reached \cap Ended # {}

\* A save comes before the publication it belongs to: with no future dropped, what
\* the clones read is what a restarted process would read from disk.
StoreKeepsUp ==
    /\ budget.drops = MaxDrops /\ holder = NoOne => store = watch
    /\ budget.drops = MaxDrops /\ IsFinished(watch) => store.fin = watch.fin

\* The lock owner is inside refresh() or the finalizer, and no one else is
\* between its copy of the snapshot and its publication.
OneWriter ==
    \A c \in Caller :
        pc[c] \notin {"idle", "lock", "sleep", "lock2"} <=> holder = c

\* Every wait comes to its end with the job: a failing command, a dropped clone
\* or a busy refresh_lock does not hold it for ever.
WaitEnds ==
    \A c \in Caller : pc[c] # "idle" /\ op[c] = "wait" ~> pc[c] = "idle"

\* Whoever keeps calling refresh_with_sacct() gets the outcome, whether SLURM's
\* final state is one that parse() knows or not.
OutcomeIsRecorded == <>[]IsFinished(watch)

-----------------------------------------------------------------------------
(* What a comment promises and the code does not keep. *)

\* handle.rs:166: the refreshes and the finalizers of all clones "serialize
\* through refresh_lock"; with several finalizers too, then, a recorded outcome
\* would not be erased.
FinishedIsNotErased == [][IsFinished(watch) => IsFinished(watch')]_vars
=============================================================================
