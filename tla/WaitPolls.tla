------------------------------ MODULE WaitPolls ------------------------------
(***************************************************************************)
(* wait_terminal() of several handles (sbatch/handle.rs) on the one        *)
(* QueryCache of their manager: each polls, sleeps for the interval its    *)
(* caller chose, and gives up after FailureCap failed polls in a row.  The *)
(* cache replays a failure like any other answer, for the TTL that the     *)
(* manager chose.                                                          *)
(***************************************************************************)
EXTENDS QueryCache

CONSTANTS
    JobOf,      \* JobOf[c]: the keys handle c asks about, the same in every poll
    Poll,       \* the poll_interval argument of wait_terminal()
    FailureCap  \* MAX_CONSECUTIVE_REFRESH_FAILURES

ASSUME WaitPollsAssumption ==
    JobOf \in [Caller -> Requests] /\ Poll \in Nat /\ FailureCap \in Nat \ {0}

VARIABLES
    wait,       \* wait[c]: "none", "on" or how the call ended
    fails,      \* consecutive_failures
    due,        \* when the sleep between two polls is over
    blame       \* blame[c]: when the commands ended that the failures in a row
                \* come from (history)

waits == <<wait, fails, due, blame>>
allvars == <<vars, waits>>

WInit ==
    /\ Init
    /\ wait = [c \in Caller |-> "none"]
    /\ fails = [c \in Caller |-> 0]
    /\ due = [c \in Caller |-> 0]
    /\ blame = [c \in Caller |-> {}]

Call(c) ==
    /\ wait[c] = "none"
    /\ wait' = [wait EXCEPT ![c] = "on"]
    /\ UNCHANGED <<vars, fails, due, blame>>

\* A refresh() asks once the sleep is over.
PollBegins(c) ==
    /\ wait[c] = "on" /\ clock >= due[c]
    /\ Request(c, JobOf[c])
    /\ UNCHANGED waits

\* Mutant: the counter counts polls, successful ones included.
CountedAlways(c, reply, at) ==
    /\ fails' = [fails EXCEPT ![c] = @ + 1]
    /\ blame' = [blame EXCEPT ![c] = IF reply.kind = "failure" THEN @ \cup {at} ELSE {}]
    /\ wait' = IF fails[c] + 1 >= FailureCap THEN [wait EXCEPT ![c] = "gave up"] ELSE wait
    /\ due' = [due EXCEPT ![c] = clock + Poll]

\* A success resets the counter.  It ends the wait if the job has no row, and
\* may end it if it has one: squeue still lists a job that has just ended.
Counted(c, reply, at) ==
    /\ IF reply.kind = "failure"
       THEN /\ fails' = [fails EXCEPT ![c] = @ + 1]
            /\ blame' = [blame EXCEPT ![c] = @ \cup {at}]
            /\ wait' = IF fails[c] + 1 >= FailureCap
                       THEN [wait EXCEPT ![c] = "gave up"] ELSE wait
       ELSE /\ fails' = [fails EXCEPT ![c] = 0]
            /\ blame' = [blame EXCEPT ![c] = {}]
            /\ \E end \in {wait[c], "ended"} :
                  /\ JobOf[c] \subseteq reply.rows \/ end = "ended"
                  /\ wait' = [wait EXCEPT ![c] = end]
    /\ due' = [due EXCEPT ![c] = clock + Poll]

\* The entry the answer was taken from is dated entry.at, in a hit and a fetch alike.
PollEnds(c) ==
    /\ Hit(c) \/ EndFetch(c)
    /\ Counted(c, answer'[c], entry'.at)

\* The wait is dropped, with the request it has under way.
WaitDropped(c) ==
    /\ CancelQueued(c) \/ CancelFetch(c)
    /\ wait' = [wait EXCEPT ![c] = "dropped"]
    /\ UNCHANGED <<fails, due, blame>>

WNext ==
    \/ (Tick \/ \E k \in Key : Submit(k) \/ Leave(k)) /\ UNCHANGED waits
    \/ \E c \in Caller :
          \/ Call(c) \/ PollBegins(c) \/ PollEnds(c) \/ WaitDropped(c)
          \/ (BeginFetch(c) \/ Sample(c) \/ SampleFails(c)) /\ UNCHANGED waits

\* Under the cache's fairness, a poll that is due is also made.
WFairness ==
    \A c \in Caller : /\ WF_allvars(PollBegins(c))
                      /\ WF_allvars(PollEnds(c) \/ (BeginFetch(c) /\ UNCHANGED waits))
                      /\ WF_allvars((Sample(c) \/ SampleFails(c)) /\ UNCHANGED waits)

WSpec == WInit /\ [][WNext]_allvars /\ WFairness

-----------------------------------------------------------------------------

\* handle.rs:155-163: "a single hiccup must not kill a multi-hour wait", only an
\* unbroken streak does.  A wait that gives up has seen two commands fail.
HiccupSurvived ==
    \A c \in Caller : wait[c] = "gave up" => Cardinality(blame[c]) > 1
=============================================================================
