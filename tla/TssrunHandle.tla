---------------------------- MODULE TssrunHandle ----------------------------
(***************************************************************************)
(* One tssrun child and the handle of the process that spawned it          *)
(* (tssrun/handle.rs), with a second process attached through the store    *)
(* (tssrun/manager.rs).                                                    *)
(*                                                                         *)
(* Three tasks share the snapshot: a tee per stream, which looks for the   *)
(* salloc banners, and the wait task, which records the exit.  Each        *)
(* modifies the watch channel, then copies it, then saves the copy: three  *)
(* steps between which the others run.                                     *)
(***************************************************************************)
EXTENDS Naturals, Sequences, FiniteSets

CONSTANTS
    JobLine,        \* lines announcing a jobid, one per jobid
    NodeLine,       \* lines announcing a node
    PipeSize,       \* bound: lines a pipe holds before the writer blocks
    MaxTroubles     \* bound: refreshes, failing saves and loads, lines that are not
                    \* UTF-8 and deaths of the owner, taken together

Banner == JobLine \cup NodeLine
None == "none"
Garbled == "garbled"    \* a line that is not UTF-8
Line == Banner \cup {Garbled}
Code == {"exit", "signal"}

ASSUME TssrunHandleAssumption ==
    /\ JobLine \cap NodeLine = {}
    /\ {None, Garbled} \cap Banner = {}
    /\ PipeSize \in Nat \ {0}
    /\ MaxTroubles \in Nat

VARIABLES
    child,      \* "alive", or how it ended
    unsent,     \* unsent[w][s]: the banners that the child, or the processes that have
                \* inherited its pipes, will print on stream s
    printed,    \* the lines that went into a pipe (history)
    pipe,       \* pipe[s]: lines between the child and the tee of stream s
    open,       \* open[s]: some process holds the write end
    watch,      \* snapshot_tx, in the owner
    store,      \* the entry in the state store: a set of at most one snapshot
    up,         \* the owner process is alive
    pc, copy,   \* of the two tees and the wait task
    waiter,     \* where the call of wait() is
    joinable,   \* wait_handle is still in the handle
    result,     \* what wait() returned
    ownRefresh, \* what the owner's refresh() has loaded, likewise
    refreshed,  \* a refresh() of the owner has replaced the snapshot (history)
    polling,    \* an attached handle is in wait_terminal()
    troubles    \* what is left of MaxTroubles

process == <<child, unsent, printed, pipe, open>>
task == <<pc, copy>>
waiting == <<waiter, joinable, result>>
refreshing == <<ownRefresh, refreshed>>
vars == <<process, watch, store, up, task, waiting, refreshing, polling, troubles>>

Stream == {"stdout", "stderr"}
Writer == {"child", "heirs"}
Task == Stream \cup {"exit"}

Snapshot == [jobid : JobLine \cup {None}, node : NodeLine \cup {None},
             fin : Code \cup {None}]
Fresh == [jobid |-> None, node |-> None, fin |-> None]

IsFinished(s) == s.fin # None

Trouble ==
    /\ troubles > 0
    /\ troubles' = troubles - 1

\* spawn_with(): the initial save is over, well or not, before the tasks run.
FirstSaves == IF MaxTroubles > 0 THEN {{Fresh}, {}} ELSE {{Fresh}}

Init ==
    /\ child = "alive"
    /\ unsent \in [Writer -> [Stream -> SUBSET Banner]]
    /\ \A w, v \in Writer, s, r \in Stream :
          w # v \/ s # r => unsent[w][s] \cap unsent[v][r] = {}
    /\ printed = {}
    /\ pipe = [s \in Stream |-> <<>>]
    /\ open = [s \in Stream |-> TRUE]
    /\ watch = Fresh
    /\ store \in FirstSaves
    /\ up = TRUE
    /\ pc = [t \in Task |-> "run"]
    /\ copy = [t \in Task |-> Fresh]
    /\ waiter = "idle"
    /\ joinable = TRUE
    /\ result = None
    /\ ownRefresh = {}
    /\ polling = FALSE
    /\ refreshed = FALSE
    /\ troubles = MaxTroubles

-----------------------------------------------------------------------------
(* The child, and whoever inherits its pipes. *)

\* Whoever writes to a full pipe is blocked.  A line printed to a stream that nobody
\* reads any more is lost.
Emit(s, l) ==
    /\ open[s]
    /\ IF pc[s] = "done" \/ ~up
       THEN UNCHANGED <<printed, pipe>>
       ELSE /\ Len(pipe[s]) < PipeSize
            /\ printed' = printed \cup {l}
            /\ pipe' = [pipe EXCEPT ![s] = Append(@, l)]
    /\ UNCHANGED <<child, open, watch, store, up, task, waiting, refreshing, polling>>

PrintBanner(w, s) ==
    /\ w = "child" => child = "alive"
    /\ \E l \in unsent[w][s] :
          Emit(s, l) /\ unsent' = [unsent EXCEPT ![w][s] = @ \ {l}]
    /\ UNCHANGED troubles

PrintGarbled(s) == Emit(s, Garbled) /\ Trouble /\ UNCHANGED unsent

\* It exits when it has nothing left to print, ...
ChildExits ==
    /\ child = "alive" /\ \A s \in Stream : unsent["child"][s] = {}
    /\ child' = "exit"
    /\ UNCHANGED <<unsent, printed, pipe, open, watch, store, up, task, waiting,
                   refreshing, polling, troubles>>

\* ... or is killed, also when a pipe blocks it.
ChildKilled ==
    /\ child = "alive"
    /\ child' = "signal"
    /\ UNCHANGED <<unsent, printed, pipe, open, watch, store, up, task, waiting,
                   refreshing, polling, troubles>>

Close(s) ==
    /\ child # "alive" /\ open[s]
    /\ open' = [open EXCEPT ![s] = FALSE]
    /\ UNCHANGED <<child, unsent, printed, pipe, watch, store, up, task, waiting,
                   refreshing, polling, troubles>>

-----------------------------------------------------------------------------
(* The tasks. *)

\* Mutant: the last banner wins.
ParsedLast(w, l) ==
    IF l \in JobLine THEN [w EXCEPT !.jobid = l]
    ELSE IF l \in NodeLine THEN [w EXCEPT !.node = l] ELSE w

\* The first banner of a kind wins.
Parsed(w, l) ==
    IF l \in JobLine /\ w.jobid = None THEN [w EXCEPT !.jobid = l]
    ELSE IF l \in NodeLine /\ w.node = None THEN [w EXCEPT !.node = l] ELSE w

\* Mutant: the streams are read to their ends one after the other.
TeeLineInTurn(s) ==
    /\ up /\ pc[s] = "run" /\ pipe[s] # <<>> /\ Head(pipe[s]) # Garbled
    /\ s = "stderr" => pc["stdout"] = "done"
    /\ watch' = Parsed(watch, Head(pipe[s]))
    /\ pipe' = [pipe EXCEPT ![s] = Tail(@)]
    /\ pc' = [pc EXCEPT ![s] = IF watch' # watch THEN "copy" ELSE "run"]
    /\ UNCHANGED <<child, unsent, printed, open, store, up, copy, waiting,
                   refreshing, polling, troubles>>

\* Whether a line changes the snapshot decides about saving it.
TeeLine(s) ==
    /\ up /\ pc[s] = "run" /\ pipe[s] # <<>> /\ Head(pipe[s]) # Garbled
    /\ watch' = Parsed(watch, Head(pipe[s]))
    /\ pipe' = [pipe EXCEPT ![s] = Tail(@)]
    /\ pc' = [pc EXCEPT ![s] = IF watch' # watch THEN "copy" ELSE "run"]
    /\ UNCHANGED <<child, unsent, printed, open, store, up, copy, waiting,
                   refreshing, polling, troubles>>

\* A line that is not UTF-8 is a read error, which ends the tee and closes the pipe.
TeeGarbled(s) ==
    /\ up /\ pc[s] = "run" /\ pipe[s] # <<>> /\ Head(pipe[s]) = Garbled
    /\ pipe' = [pipe EXCEPT ![s] = <<>>]
    /\ pc' = [pc EXCEPT ![s] = "done"]
    /\ UNCHANGED <<child, unsent, printed, open, watch, store, up, copy, waiting,
                   refreshing, polling, troubles>>

TeeEnds(s) ==
    /\ up /\ pc[s] = "run" /\ pipe[s] = <<>> /\ ~open[s]
    /\ pc' = [pc EXCEPT ![s] = "done"]
    /\ UNCHANGED <<process, watch, store, up, copy, waiting, refreshing, polling,
                   troubles>>

\* Mutant (issue H2): a signal is recorded as a normal exit.
ExitStatusOrZero == "exit"

ExitStatus == child

RecordExit ==
    /\ up /\ pc["exit"] = "run" /\ child # "alive"
    /\ watch' = [watch EXCEPT !.fin = ExitStatus]
    /\ pc' = [pc EXCEPT !["exit"] = "copy"]
    /\ UNCHANGED <<process, store, up, copy, waiting, refreshing, polling, troubles>>

Copy(t) ==
    /\ up /\ pc[t] = "copy"
    /\ copy' = [copy EXCEPT ![t] = watch]
    /\ pc' = [pc EXCEPT ![t] = "save"]
    /\ UNCHANGED <<process, watch, store, up, waiting, refreshing, polling, troubles>>

\* Mutant: a save adds an entry (a store not keyed by the uuid).
SaveAdds(t) ==
    /\ up /\ pc[t] = "save"
    /\ \/ store' = store \cup {copy[t]} /\ UNCHANGED troubles
       \/ Trouble /\ UNCHANGED store
    /\ pc' = [pc EXCEPT ![t] = IF t = "exit" THEN "done" ELSE "run"]
    /\ copy' = [copy EXCEPT ![t] = Fresh]
    /\ UNCHANGED <<process, watch, up, waiting, refreshing, polling>>

\* persist_warn(): a failed save is only logged.
Save(t) ==
    /\ up /\ pc[t] = "save"
    /\ \/ store' = {copy[t]} /\ UNCHANGED troubles
       \/ Trouble /\ UNCHANGED store
    /\ pc' = [pc EXCEPT ![t] = IF t = "exit" THEN "done" ELSE "run"]
    /\ copy' = [copy EXCEPT ![t] = Fresh]
    /\ UNCHANGED <<process, watch, up, waiting, refreshing, polling>>

-----------------------------------------------------------------------------
(* The owner's calls. *)

\* wait() takes the join handles out of the handle, so that a second call, or one
\* after a dropped call, is refused ...
CallWait ==
    /\ up /\ waiter = "idle" /\ ownRefresh = {}
    /\ joinable' = FALSE
    /\ IF joinable THEN waiter' = "tees" /\ UNCHANGED result
                   ELSE waiter' = "idle" /\ result' = "not owner"
    /\ UNCHANGED <<process, watch, store, up, task, refreshing, polling, troubles>>

\* Mutant: the tee of stderr is not joined.
TeesJoinedOne == pc["stdout"] = "done"

\* ... and drains both tees before it joins the wait task.
TeesJoined == \A s \in Stream : pc[s] = "done"

JoinTees ==
    /\ up /\ waiter = "tees" /\ TeesJoined
    /\ waiter' = "exit"
    /\ UNCHANGED <<process, watch, store, up, task, joinable, result, refreshing,
                   polling, troubles>>

JoinExit ==
    /\ up /\ waiter = "exit" /\ pc["exit"] = "done"
    /\ waiter' = "idle"
    /\ result' = child
    /\ UNCHANGED <<process, watch, store, up, task, joinable, refreshing, polling,
                   troubles>>

DropWait ==
    /\ up /\ waiter # "idle"
    /\ waiter' = "idle"
    /\ result' = "dropped"
    /\ UNCHANGED <<process, watch, store, up, task, joinable, refreshing, polling,
                   troubles>>

\* refresh() loads, then replaces whatever the watch channel holds by then.  (Not
\* during a wait(), which holds the handle: &mut self in Rust, a mutex in Python.)
OwnerLoads ==
    /\ up /\ waiter = "idle" /\ ownRefresh = {} /\ store # {}
    /\ Trouble
    /\ ownRefresh' = store
    /\ UNCHANGED <<process, watch, store, up, task, waiting, refreshed, polling>>

OwnerReplaces ==
    /\ up /\ watch' \in ownRefresh
    /\ ownRefresh' = {}
    /\ refreshed' = TRUE
    /\ UNCHANGED <<process, store, up, task, waiting, polling, troubles>>

Crash ==
    /\ up /\ Trouble
    /\ up' = FALSE
    /\ UNCHANGED <<process, watch, store, task, waiting, refreshing, polling>>

-----------------------------------------------------------------------------
(* Another process. *)

\* attach_uuid(), then wait_terminal().  Its snapshot is the entry it loaded last.
Attach ==
    /\ ~polling /\ store # {}
    /\ polling' = TRUE
    /\ UNCHANGED <<process, watch, store, up, task, waiting, refreshing, troubles>>

\* The round that finds the entry finished returns it; any other sleeps.
Poll ==
    /\ polling /\ \E s \in store : IsFinished(s)
    /\ polling' = FALSE
    /\ UNCHANGED <<process, watch, store, up, task, waiting, refreshing, troubles>>

\* A load that fails ends the call.
PollFails ==
    /\ polling /\ Trouble
    /\ polling' = FALSE
    /\ UNCHANGED <<process, watch, store, up, task, waiting, refreshing>>

-----------------------------------------------------------------------------

Tee(s) == TeeLine(s) \/ TeeGarbled(s) \/ TeeEnds(s)

Next ==
    \/ \E s \in Stream, w \in Writer : PrintBanner(w, s)
    \/ \E s \in Stream : PrintGarbled(s) \/ Close(s) \/ Tee(s)
    \/ \E t \in Task : Copy(t) \/ Save(t)
    \/ ChildExits \/ ChildKilled \/ RecordExit
    \/ CallWait \/ JoinTees \/ JoinExit \/ DropWait
    \/ OwnerLoads \/ OwnerReplaces \/ Crash
    \/ Attach \/ Poll \/ PollFails

Spec == Init /\ [][Next]_vars

\* Who has something to print prints it, as soon as the pipe takes it; the child ends
\* when it has printed it all, and so do those who have inherited its pipes.  Nobody need
\* be killed.  What a task can do, the runtime lets it do; a poller polls.
Fairness ==
    /\ \A s \in Stream, w \in Writer : WF_vars(PrintBanner(w, s))
    /\ WF_vars(ChildExits) /\ WF_vars(RecordExit)
    /\ \A s \in Stream : WF_vars(Tee(s)) /\ WF_vars(unsent["heirs"][s] = {} /\ Close(s))
    /\ \A t \in Task : WF_vars(Copy(t)) /\ WF_vars(Save(t))
    /\ WF_vars(JoinTees) /\ WF_vars(JoinExit) /\ WF_vars(Poll)

FairSpec == Spec /\ Fairness

-----------------------------------------------------------------------------

TypeOK ==
    /\ child \in {"alive"} \cup Code
    /\ unsent \in [Writer -> [Stream -> SUBSET Banner]] /\ printed \subseteq Line
    /\ pipe \in [Stream -> Seq(Line)]
    /\ open \in [Stream -> BOOLEAN]
    /\ watch \in Snapshot
    /\ store \subseteq Snapshot /\ Cardinality(store) <= 1
    /\ up \in BOOLEAN
    /\ pc \in [Task -> {"run", "copy", "save", "done"}]
    /\ copy \in [Task -> Snapshot]
    /\ waiter \in {"idle", "tees", "exit"}
    /\ joinable \in BOOLEAN
    /\ result \in Code \cup {None, "not owner", "dropped"}
    /\ ownRefresh \subseteq Snapshot /\ Cardinality(ownRefresh) <= 1
    /\ polling \in BOOLEAN
    /\ refreshed \in BOOLEAN
    /\ troubles \in 0..MaxTroubles

Copies == {watch} \cup store \cup ownRefresh \cup {copy[t] : t \in Task}

\* Whoever reads of an exit, in the owner, the store or another process, reads how
\* the child really ended: a signal stays a signal (handle.rs:180-184).
FinishedIsTrue == \A s \in Copies : IsFinished(s) => s.fin = child

\* The owner and every attached process agree on the job: a jobid or node that was
\* saved once is the one the owner published, whatever banners follow.
CopiesAgree ==
    ~refreshed =>
        \A s \in Copies : /\ s.jobid \in {None, watch.jobid}
                          /\ s.node \in {None, watch.node}

\* handle.rs:279: when wait() returns, the end is in the snapshot, and "any
\* salloc: lines emitted before the child exited are guaranteed to be parsed into
\* the snapshot" - unless a refresh() undid that, or a line that is not UTF-8 has
\* cut its stream off.
WaitDrains ==
    result \in Code /\ ~refreshed =>
        /\ watch.fin = result
        /\ Garbled \notin printed =>
              /\ printed \cap JobLine # {} => watch.jobid \in printed
              /\ printed \cap NodeLine # {} => watch.node \in printed

\* Only a refresh() takes back what a subscriber has seen of the job.
WatchGrows ==
    [][~refreshed' =>
        /\ watch.jobid # None => watch'.jobid = watch.jobid
        /\ watch.node # None => watch'.node = watch.node
        /\ watch.fin # None => watch'.fin = watch.fin]_vars

\* wait() returns: the tees keep both pipes from blocking the child and its heirs,
\* whatever they print on which stream, and whichever of the three tasks is last; or its
\* process has died.
WaitEnds == (up /\ waiter # "idle") ~> (up => waiter = "idle")

\* README.md:140: wait_terminal() polls "until is_finished() flips" and is "Safe on
\* attached handles".
AttachedWaitEnds == polling ~> ~polling
=============================================================================
