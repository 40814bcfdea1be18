----------------------------- MODULE QueryCache -----------------------------
(***************************************************************************)
(* The single-flight TTL batch cache of sbatch/query_cache.rs: one slot,   *)
(* guarded by an async mutex, shared by every handle of one manager.       *)
(*                                                                         *)
(* capture() locks the slot, stamps the requested keys, and either replays *)
(* the entry (fresh, and asked about every requested key) or fetches: it   *)
(* drops the stamps that are 2 * TTL old, asks the controller about the    *)
(* remaining keys and its own, and stores the result - a failure too -     *)
(* before it releases the lock.  The lock is held across the fetch, so a   *)
(* fetch is three steps here: it begins, the command samples the           *)
(* controller, it ends.  The future may be dropped between them.           *)
(*                                                                         *)
(* A listing is abstracted to the set of jobs with a row.  A command that  *)
(* cannot be spawned and one that exits with an error status are both a    *)
(* failure: both are stored and replayed, and callers treat both as one.   *)
(***************************************************************************)
EXTENDS Integers, Sequences, FiniteSets, SequencesExt

CONSTANTS
    Caller,     \* the handles of the manager (and their clones)
    Key,        \* JobKey: plain jobs and array tasks
    Requests,   \* the key sets one capture() may ask about
    TTL,        \* QueryCacheState.ttl, the manager's poll interval
    MaxFetch,   \* the longest one command runs (the code sets no timeout)
    Horizon     \* bound: the clock stops here

ASSUME QueryCacheAssumption ==
    /\ Requests \subseteq SUBSET Key
    /\ TTL \in Nat
    /\ MaxFetch \in Nat
    /\ Horizon \in Nat

VARIABLES
    clock,      \* Instant::now()
    phase,      \* phase[k]: where job k stands with the controller
    leftAt,     \* leftAt[k]: when job k left the listing (history)
    failedAt,   \* when a fetch last failed, or Never (history)
    pc,         \* pc[c]: where caller c is in capture()
    asked,      \* asked[c]: `requested`, {} outside capture()
    answer,     \* answer[c]: what capture() returned last
    queue,      \* the callers waiting for slot.lock(), first come first served
    entry,      \* slot.entry
    recent,     \* slot.recent: key -> last request, or Never if absent
    polled,     \* polled[k]: the last request for k that got the lock (history)
    flight,     \* the locals of the fetch in progress
    spawns      \* when the fetches were begun that were completed (history)

slot == <<entry, recent, polled>>
world == <<phase, leftAt>>
vars == <<clock, phase, leftAt, failedAt, pc, asked, answer, queue,
          entry, recent, polled, flight, spawns>>

Never == -1
NoAnswer == [kind |-> "none", rows |-> {}]
EmptySlot == [kind |-> "none", at |-> 0, keys |-> {}, rows |-> {}]
NoFlight == [kind |-> "none", started |-> 0, batch |-> {}, rows |-> {}]

Init ==
    /\ clock = 0
    /\ phase = [k \in Key |-> "unsubmitted"]
    /\ leftAt = [k \in Key |-> 0]
    /\ failedAt = Never
    /\ pc = [c \in Caller |-> "idle"]
    /\ asked = [c \in Caller |-> {}]
    /\ answer = [c \in Caller |-> NoAnswer]
    /\ queue = <<>>
    /\ entry = EmptySlot
    /\ recent = [k \in Key |-> Never]
    /\ polled = [k \in Key |-> Never]
    /\ flight = NoFlight
    /\ spawns = <<>>

Locked == \E c \in Caller : pc[c] \in {"fetching", "sampled"}

-----------------------------------------------------------------------------
(* The world. *)

Submit(k) ==
    /\ phase[k] = "unsubmitted"
    /\ phase' = [phase EXCEPT ![k] = "active"]
    /\ UNCHANGED <<clock, leftAt, failedAt, pc, asked, answer, queue, slot,
                   flight, spawns>>

Leave(k) ==
    /\ phase[k] = "active"
    /\ phase' = [phase EXCEPT ![k] = "gone"]
    /\ leftAt' = [leftAt EXCEPT ![k] = clock]
    /\ UNCHANGED <<clock, failedAt, pc, asked, answer, queue, slot, flight,
                   spawns>>

\* No command runs for longer than MaxFetch.
Tick ==
    /\ clock < Horizon
    /\ Locked => clock < flight.started + MaxFetch
    /\ clock' = clock + 1
    /\ UNCHANGED <<world, failedAt, pc, asked, answer, queue, slot, flight,
                   spawns>>

-----------------------------------------------------------------------------
(* capture(). *)

\* A handle polls; the jobid it asks about came from sbatch.
Request(c, K) ==
    /\ pc[c] = "idle"
    /\ \A k \in K : phase[k] # "unsubmitted"
    /\ pc' = [pc EXCEPT ![c] = "queued"]
    /\ asked' = [asked EXCEPT ![c] = K]
    /\ answer' = [answer EXCEPT ![c] = NoAnswer]
    /\ queue' = Append(queue, c)
    /\ UNCHANGED <<clock, world, failedAt, slot, flight, spawns>>

\* Mutant: the lock is not held across the inner call.
AcquiresLockAnyway(c) ==
    /\ pc[c] = "queued"
    /\ queue # <<>> /\ Head(queue) = c
    /\ queue' = Tail(queue)

\* The mutex is handed to the longest waiter.
AcquiresLock(c) ==
    /\ ~Locked
    /\ pc[c] = "queued"
    /\ queue # <<>> /\ Head(queue) = c
    /\ queue' = Tail(queue)

\* Mutant: requests are not entered into the registry.
StampedNot(K) == recent

Stamped(K) == [k \in Key |-> IF k \in K THEN clock ELSE recent[k]]

Polled(K) == polled' = [k \in Key |-> IF k \in K THEN clock ELSE polled[k]]

\* Mutant: one instant too long.
FreshAtTTL == entry.kind # "none" /\ clock - entry.at <= TTL

Fresh == entry.kind # "none" /\ clock - entry.at < TTL

\* Mutant: without the subset rule.
ReplayableToAll(K) == Fresh

Replayable(K) == Fresh /\ K \subseteq entry.keys

Hit(c) ==
    /\ AcquiresLock(c)
    /\ Replayable(asked[c])
    /\ recent' = Stamped(asked[c])
    /\ Polled(asked[c])
    /\ answer' = [answer EXCEPT ![c] = [kind |-> entry.kind,
                                        rows |-> entry.rows]]
    /\ pc' = [pc EXCEPT ![c] = "idle"]
    /\ asked' = [asked EXCEPT ![c] = {}]
    /\ UNCHANGED <<clock, world, failedAt, entry, flight, spawns>>

\* Mutant: a poller at the cache's own interval is dropped when it is a moment late.
RetainedForTTL(r) ==
    [k \in Key |-> IF r[k] # Never /\ clock - r[k] < TTL
                   THEN r[k] ELSE Never]

\* slot.recent.retain(|_, at| at.elapsed() < window)
Retained(r) ==
    [k \in Key |-> IF r[k] # Never /\ clock - r[k] < 2 * TTL
                   THEN r[k] ELSE Never]

Registered(r) == {k \in Key : r[k] # Never}

BeginFetch(c) ==
    /\ AcquiresLock(c)
    /\ ~Replayable(asked[c])
    /\ recent' = Retained(Stamped(asked[c]))
    /\ Polled(asked[c])
    /\ flight' = [kind |-> "none", started |-> clock, rows |-> {},
                  batch |-> Registered(recent') \cup asked[c]]
    /\ pc' = [pc EXCEPT ![c] = "fetching"]
    /\ UNCHANGED <<clock, world, failedAt, asked, answer, entry, spawns>>

\* The jobs of a batch that have a row: the controller is asked about the
\* batch and nothing else.
Listed(batch) == {k \in batch : phase[k] = "active"}

Sample(c) ==
    /\ pc[c] = "fetching"
    /\ pc' = [pc EXCEPT ![c] = "sampled"]
    /\ flight' = [flight EXCEPT !.kind = "listing",
                                !.rows = Listed(flight.batch)]
    /\ UNCHANGED <<clock, world, failedAt, asked, answer, queue, slot, spawns>>

SampleFails(c) ==
    /\ pc[c] = "fetching"
    /\ pc' = [pc EXCEPT ![c] = "sampled"]
    /\ flight' = [flight EXCEPT !.kind = "failure", !.rows = {}]
    /\ failedAt' = clock
    /\ UNCHANGED <<clock, world, asked, answer, queue, slot, spawns>>

\* Mutant: the entry is dated with its expiry.
CachedEntryUntil == [kind |-> flight.kind, at |-> clock + TTL,
                     keys |-> flight.batch, rows |-> flight.rows]

\* The entry is dated when the command has ended, and covers the batch.
CachedEntry == [kind |-> flight.kind, at |-> clock,
                keys |-> flight.batch, rows |-> flight.rows]

EndFetch(c) ==
    /\ pc[c] = "sampled"
    /\ entry' = CachedEntry
    /\ answer' = [answer EXCEPT ![c] = [kind |-> flight.kind,
                                        rows |-> flight.rows]]
    /\ pc' = [pc EXCEPT ![c] = "idle"]
    /\ asked' = [asked EXCEPT ![c] = {}]
    /\ flight' = NoFlight
    /\ spawns' = Append(spawns, flight.started)
    /\ UNCHANGED <<clock, world, failedAt, queue, recent, polled>>

\* Mutant: the waiter keeps its place in the queue of the lock.
CancelQueuedInPlace(c) ==
    /\ pc[c] = "queued"
    /\ pc' = [pc EXCEPT ![c] = "idle"]
    /\ asked' = [asked EXCEPT ![c] = {}]
    /\ UNCHANGED <<clock, world, failedAt, answer, queue, slot, flight, spawns>>

\* The future is dropped while it waits for the lock ...
CancelQueued(c) ==
    /\ pc[c] = "queued"
    /\ pc' = [pc EXCEPT ![c] = "idle"]
    /\ \E i \in 1..Len(queue) : queue[i] = c /\ queue' = RemoveAt(queue, i)
    /\ asked' = [asked EXCEPT ![c] = {}]
    /\ UNCHANGED <<clock, world, failedAt, answer, slot, flight, spawns>>

\* ... or while the command runs: the guard is dropped, the slot unwritten.
CancelFetch(c) ==
    /\ pc[c] \in {"fetching", "sampled"}
    /\ pc' = [pc EXCEPT ![c] = "idle"]
    /\ flight' = NoFlight
    /\ asked' = [asked EXCEPT ![c] = {}]
    /\ UNCHANGED <<clock, world, failedAt, answer, queue, slot, spawns>>

Next ==
    \/ Tick
    \/ \E k \in Key : Submit(k) \/ Leave(k)
    \/ \E c \in Caller :
          \/ \E K \in Requests : Request(c, K)
          \/ Hit(c) \/ BeginFetch(c)
          \/ Sample(c) \/ SampleFails(c) \/ EndFetch(c)
          \/ CancelQueued(c) \/ CancelFetch(c)

Spec == Init /\ [][Next]_vars

\* The executor runs a task that can run, and every command ends.
Fairness ==
    \A c \in Caller : /\ WF_vars(Hit(c) \/ BeginFetch(c))
                      /\ WF_vars(Sample(c) \/ SampleFails(c))
                      /\ WF_vars(EndFetch(c))

FairSpec == Spec /\ Fairness

-----------------------------------------------------------------------------
(* Properties. *)

Times == 0..Horizon

\* Every variable keeps to the values the slot, the registry and a caller of
\* capture() can have.
TypeOK ==
    /\ clock \in Times
    /\ phase \in [Key -> {"unsubmitted", "active", "gone"}]
    /\ leftAt \in [Key -> Times]
    /\ failedAt \in Times \cup {Never}
    /\ pc \in [Caller -> {"idle", "queued", "fetching", "sampled"}]
    /\ asked \in [Caller -> SUBSET Key]
    /\ answer \in [Caller -> [kind : {"none", "listing", "failure"},
                              rows : SUBSET Key]]
    /\ queue \in Seq(Caller)
    /\ entry \in [kind : {"none", "listing", "failure"}, at : Times,
                  keys : SUBSET Key, rows : SUBSET Key]
    /\ recent \in [Key -> Times \cup {Never}]
    /\ polled \in [Key -> Times \cup {Never}]
    /\ flight \in [kind : {"none", "listing", "failure"}, started : Times,
                   batch : SUBSET Key, rows : SUBSET Key]
    /\ spawns \in Seq(Times)

\* The module's correctness rule (query_cache.rs:25-32): a replayable entry
\* never shows a job as missing that is still listed, also when the listing
\* was made before the job was submitted.
NoFabricatedVanish ==
    entry.kind = "listing" =>
        \A k \in Key : Replayable({k}) /\ k \notin entry.rows
                          => phase[k] = "gone"

\* The load the cache exists to bound (query_cache.rs:4-11): in every window of
\* TTL, the fetches that were begun in it and completed are at most one for each
\* key, however many handles poll.
Window(t) == {u \in Times : u <= t /\ t - u < TTL}
FetchesIn(T) == Cardinality({i \in DOMAIN spawns : spawns[i] \in T})
FewFetches ==
    TTL > 0 => \A t \in Times : FetchesIn(Window(t)) <= Cardinality(Key)

\* The registry is "self-maintaining" (query_cache.rs:35-38, 244-248): whatever hits,
\* misses, failures and cancellations there were, a command that is under way asks
\* for its caller and for every job that somebody has asked about within 2 * TTL of
\* its start, so that a handle which polls once per TTL and comes late stays in every
\* batch; and for no other, so that the batches do not grow with the jobs that ended.
Wanted(k) == polled[k] # Never /\ flight.started - polled[k] < 2 * TTL
BatchIsCurrent ==
    \A c \in Caller : pc[c] \in {"fetching", "sampled"} =>
        flight.batch = asked[c] \cup {k \in Key : Wanted(k)}

\* A cancelled fetch "never [leads to] a deadlock" (query_cache.rs:224-231):
\* whoever waits for the lock is answered unless it gives up itself.
EveryRequestEnds ==
    \A c \in Caller : pc[c] = "queued" ~> pc[c] = "idle"

-----------------------------------------------------------------------------
(* What the callers are promised. *)

\* An entry is replayed for less than TTL after the command ended, and the
\* command sampled the controller at most MaxFetch before that.
Staleness == IF TTL = 0 THEN MaxFetch ELSE MaxFetch + TTL - 1

Oracle == INSTANCE StatusOracle WITH
              waiting <- [c \in Caller |-> pc[c] # "idle"]

\* Every answer of the cache, live or replayed, is one the oracle could give:
\* a missing row means gone, a row or a failure is at most Staleness old.
ImplementsOracle == Oracle!Spec
=============================================================================
