---------------------------- MODULE StatusOracle ----------------------------
(***************************************************************************)
(* What a shared status query promises to the handles of one manager,     *)
(* whatever stands between them and the SLURM controller.                  *)
(*                                                                         *)
(* A caller asks about a set of jobs and later gets an answer, unless it   *)
(* is cancelled.  An answer is either a listing, in which an asked job has *)
(* a row or has none, or a failure.  The promise is about what may be     *)
(* concluded from it:                                                      *)
(*   - a missing row means that the job has left the controller's listing; *)
(*   - a row means that the job was listed at most Staleness ago;          *)
(*   - a failure means that a query failed at most Staleness ago.          *)
(***************************************************************************)
EXTENDS Integers

CONSTANTS
    Caller,     \* the handles that poll
    Key,        \* the jobs (or array tasks) they poll for
    Requests,   \* the key sets a caller may ask about, subsets of Key
    Staleness,  \* how old the information in an answer may be
    Horizon     \* bound: the clock stops here

VARIABLES
    clock,      \* the time
    phase,      \* phase[k]: where job k stands with the controller
    leftAt,     \* leftAt[k]: when job k left the listing
    failedAt,   \* when a query last failed, or Never
    asked,      \* asked[c]: the keys caller c waits for
    waiting,    \* waiting[c]: caller c has a request without an answer
    answer      \* answer[c]: the answer to caller c's last request

vars == <<clock, phase, leftAt, failedAt, asked, waiting, answer>>

Never == -1

Phases == {"unsubmitted", "active", "gone"}

NoAnswer == [kind |-> "none", rows |-> {}]

Init ==
    /\ clock = 0
    /\ phase = [k \in Key |-> "unsubmitted"]
    /\ leftAt = [k \in Key |-> 0]
    /\ failedAt = Never
    /\ asked = [c \in Caller |-> {}]
    /\ waiting = [c \in Caller |-> FALSE]
    /\ answer = [c \in Caller |-> NoAnswer]

-----------------------------------------------------------------------------
(* The world: jobs enter the listing once and leave it once; time passes.  *)

Submit(k) ==
    /\ phase[k] = "unsubmitted"
    /\ phase' = [phase EXCEPT ![k] = "active"]
    /\ UNCHANGED <<clock, leftAt, failedAt, asked, waiting, answer>>

Leave(k) ==
    /\ phase[k] = "active"
    /\ phase' = [phase EXCEPT ![k] = "gone"]
    /\ leftAt' = [leftAt EXCEPT ![k] = clock]
    /\ UNCHANGED <<clock, failedAt, asked, waiting, answer>>

Tick ==
    /\ clock < Horizon
    /\ clock' = clock + 1
    /\ UNCHANGED <<phase, leftAt, failedAt, asked, waiting, answer>>

QueryFails ==
    /\ failedAt' = clock
    /\ UNCHANGED <<clock, phase, leftAt, asked, waiting, answer>>

-----------------------------------------------------------------------------
(* The callers. *)

Request(c, K) ==
    /\ ~waiting[c]
    /\ \A k \in K : phase[k] # "unsubmitted"
    /\ asked' = [asked EXCEPT ![c] = K]
    /\ waiting' = [waiting EXCEPT ![c] = TRUE]
    /\ answer' = [answer EXCEPT ![c] = NoAnswer]
    /\ UNCHANGED <<clock, phase, leftAt, failedAt>>

\* Job k could still be seen in the listing at most Staleness ago.
RecentlyListed(k) ==
    \/ phase[k] = "active"
    \/ phase[k] = "gone" /\ clock - leftAt[k] <= Staleness

\* The listing R tells the truth about the keys of K.
Truthful(K, R) ==
    /\ \A k \in K \ R : phase[k] = "gone"
    /\ \A k \in K \cap R : RecentlyListed(k)

AnswerListing(c, R) ==
    /\ waiting[c]
    /\ Truthful(asked[c], R)
    /\ answer' = [answer EXCEPT ![c] = [kind |-> "listing", rows |-> R]]
    /\ waiting' = [waiting EXCEPT ![c] = FALSE]
    /\ asked' = [asked EXCEPT ![c] = {}]
    /\ UNCHANGED <<clock, phase, leftAt, failedAt>>

AnswerFailure(c) ==
    /\ waiting[c]
    /\ failedAt # Never /\ clock - failedAt <= Staleness
    /\ answer' = [answer EXCEPT ![c] = [kind |-> "failure", rows |-> {}]]
    /\ waiting' = [waiting EXCEPT ![c] = FALSE]
    /\ asked' = [asked EXCEPT ![c] = {}]
    /\ UNCHANGED <<clock, phase, leftAt, failedAt>>

Cancel(c) ==
    /\ waiting[c]
    /\ waiting' = [waiting EXCEPT ![c] = FALSE]
    /\ asked' = [asked EXCEPT ![c] = {}]
    /\ UNCHANGED <<clock, phase, leftAt, failedAt, answer>>

Next ==
    \/ Tick
    \/ QueryFails
    \/ \E k \in Key : Submit(k) \/ Leave(k)
    \/ \E c \in Caller :
          \/ \E K \in Requests : Request(c, K)
          \/ \E R \in SUBSET Key : AnswerListing(c, R)
          \/ AnswerFailure(c)
          \/ Cancel(c)

Spec == Init /\ [][Next]_vars
=============================================================================
