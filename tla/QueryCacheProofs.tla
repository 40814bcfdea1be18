-------------------------- MODULE QueryCacheProofs --------------------------
(***************************************************************************)
(* Proofs about QueryCache for every set of callers and keys, every TTL,   *)
(* every longest command and every horizon.                                *)
(*                                                                         *)
(* TypeOK alone is not enough for anything else.  IInv adds what the lock  *)
(* protects (OneInLock), that only submitted jobs reach a batch         *)
(* (Submitted), and what an entry and a fetch in progress know about the   *)
(* world (EntryTrue, FlightTrue); NoFabricatedVanish and the refinement of *)
(* StatusOracle follow from it.  LoadInv, at the end, counts the commands: *)
(* each one that runs brings a key into the entry that was not in it.      *)
(***************************************************************************)
EXTENDS QueryCache, FiniteSetTheorems, TLAPS

InLock(c) == pc[c] \in {"fetching", "sampled"}

OneInLock == \A c, d \in Caller : InLock(c) /\ InLock(d) => c = d

\* A listing of the keys K, rows R, made at `from' or later, told the truth.
ListingTrue(K, R, from) ==
    \A k \in K : /\ k \notin R => phase[k] = "gone"
                 /\ k \in R => \/ phase[k] = "active"
                               \/ phase[k] = "gone" /\ leftAt[k] >= from

Submitted ==
    \A k \in Key :
        \/ \E c \in Caller : k \in asked[c]
        \/ recent[k] # Never
        \/ k \in flight.batch
        \/ k \in entry.keys
        => phase[k] # "unsubmitted"

EntryTrue ==
    /\ entry.at <= clock
    /\ entry.kind = "listing" =>
          ListingTrue(entry.keys, entry.rows, entry.at - MaxFetch)
    /\ entry.kind = "failure" =>
          entry.rows = {} /\ failedAt # Never /\ failedAt >= entry.at - MaxFetch

FlightTrue ==
    \A c \in Caller : InLock(c) =>
        /\ flight.started <= clock
        /\ clock <= flight.started + MaxFetch
        /\ asked[c] \subseteq flight.batch
        /\ pc[c] = "sampled" => flight.kind \in {"listing", "failure"}
        /\ pc[c] = "sampled" /\ flight.kind = "listing" =>
              ListingTrue(flight.batch, flight.rows, flight.started)
        /\ pc[c] = "sampled" /\ flight.kind = "failure" =>
              /\ flight.rows = {}
              /\ failedAt # Never /\ failedAt >= flight.started

IInv ==
    /\ TypeOK
    /\ OneInLock
    /\ Submitted
    /\ EntryTrue
    /\ FlightTrue

-----------------------------------------------------------------------------

\* The registry left by retain() is again a registry.
LEMMA RetainedType ==
    ASSUME NEW r \in [Key -> Times \cup {Never}]
    PROVE  Retained(r) \in [Key -> Times \cup {Never}]
  BY DEF Retained

\* Stamping a request keeps the registry a registry.
LEMMA StampedType ==
    ASSUME TypeOK, NEW K
    PROVE  Stamped(K) \in [Key -> Times \cup {Never}]
  BY DEF Stamped, TypeOK

\* So does the history of the requests.
LEMMA PolledType ==
    ASSUME TypeOK, NEW K, Polled(K)
    PROVE  polled' \in [Key -> Times \cup {Never}]
  BY DEF Polled, TypeOK

\* The lock is handed to a waiter.
LEMMA AcquireType ==
    ASSUME TypeOK, NEW c \in Caller, AcquiresLock(c)
    PROVE  queue' \in Seq(Caller)
  BY DEF AcquiresLock, TypeOK

\* Giving up does not put anybody new into the queue.
LEMMA RemoveAtType ==
    ASSUME NEW s \in Seq(Caller), NEW i \in 1..Len(s)
    PROVE  RemoveAt(s, i) \in Seq(Caller)
  BY DEF RemoveAt

\* Every step of the cache, its callers and the controller keeps the types
\* of the slot, the registry and the callers.
LEMMA TypeStep == TypeOK /\ [Next]_vars => TypeOK'
  <1> SUFFICES ASSUME TypeOK, [Next]_vars PROVE TypeOK'
    OBVIOUS
  <1> USE QueryCacheAssumption
  <1>1. CASE Tick
    BY <1>1 DEF TypeOK, Tick, Times, world, slot
  <1>2a. ASSUME NEW k \in Key, Submit(k) PROVE TypeOK'
    BY <1>2a DEF TypeOK, Submit, Times, slot
  <1>2b. ASSUME NEW k \in Key, Leave(k) PROVE TypeOK'
    BY <1>2b DEF TypeOK, Leave, Times, slot
  <1>3. ASSUME NEW c \in Caller, NEW K \in Requests, Request(c, K) PROVE TypeOK'
    BY <1>3 DEF TypeOK, Request, Times, world, slot, NoAnswer
  <1>4. ASSUME NEW c \in Caller, Hit(c) PROVE TypeOK'
    BY <1>4, AcquireType, StampedType, PolledType
    DEF TypeOK, Hit, Times, world, slot
  <1>5. ASSUME NEW c \in Caller, BeginFetch(c) PROVE TypeOK'
    <2>1. recent' \in [Key -> Times \cup {Never}]
      BY <1>5, StampedType, RetainedType DEF BeginFetch
    <2>2. flight' \in [kind : {"none", "listing", "failure"}, started : Times,
                       batch : SUBSET Key, rows : SUBSET Key]
      BY <1>5 DEF BeginFetch, TypeOK, Registered
    <2>3. QED
      BY <1>5, <2>1, <2>2, AcquireType, PolledType
      DEF TypeOK, BeginFetch, Times, world
  <1>6a. ASSUME NEW c \in Caller, Sample(c) PROVE TypeOK'
    <2>1. Listed(flight.batch) \in SUBSET Key
      BY DEF TypeOK, Listed
    <2>2. QED
      BY <1>6a, <2>1 DEF TypeOK, Sample, Times, world, slot
  <1>6b. ASSUME NEW c \in Caller, SampleFails(c) PROVE TypeOK'
    BY <1>6b DEF TypeOK, SampleFails, Times, world, slot
  <1>7. ASSUME NEW c \in Caller, EndFetch(c) PROVE TypeOK'
    BY <1>7 DEF TypeOK, EndFetch, CachedEntry, Times, world, NoFlight
  <1>8. ASSUME NEW c \in Caller, CancelQueued(c) PROVE TypeOK'
    <2>1. PICK i \in 1..Len(queue) : queue' = RemoveAt(queue, i)
      BY <1>8 DEF CancelQueued
    <2>2. queue' \in Seq(Caller)
      BY <2>1, RemoveAtType DEF TypeOK
    <2>3. QED
      BY <1>8, <2>2 DEF TypeOK, CancelQueued, Times, world, slot
  <1>9. ASSUME NEW c \in Caller, CancelFetch(c) PROVE TypeOK'
    BY <1>9 DEF TypeOK, CancelFetch, Times, world, slot, NoFlight
  <1>10. CASE UNCHANGED vars
    BY <1>10 DEF TypeOK, vars
  <1> QED
    BY <1>1, <1>2a, <1>2b, <1>3, <1>4, <1>5, <1>6a, <1>6b, <1>7, <1>8, <1>9,
       <1>10 DEF Next

\* The slot, the registry and the callers have values of their types in
\* every reachable state.
THEOREM TypeCorrect == Spec => []TypeOK
  <1>1. Init => TypeOK
    BY QueryCacheAssumption
    DEF Init, TypeOK, Times, NoAnswer, EmptySlot, NoFlight, Never
  <1>2. QED
    BY <1>1, TypeStep, PTL DEF Spec

-----------------------------------------------------------------------------

\* The lock is taken only when it is free, and only the holder moves on.
LEMMA OneInLockStep ==
    TypeOK /\ OneInLock /\ [Next]_vars => OneInLock'
  <1> SUFFICES ASSUME TypeOK, OneInLock, [Next]_vars PROVE OneInLock'
    OBVIOUS
  <1>0. pc \in [Caller -> {"idle", "queued", "fetching", "sampled"}]
    BY DEF TypeOK
  <1> USE DEF OneInLock, InLock
  <1>1. CASE UNCHANGED pc
    BY <1>1
  <1>2. ASSUME NEW c \in Caller,
               \/ pc' = [pc EXCEPT ![c] = "idle"]
               \/ pc' = [pc EXCEPT ![c] = "queued"]
               \/ InLock(c) /\ pc' = [pc EXCEPT ![c] = "sampled"]
        PROVE  OneInLock'
    BY <1>0, <1>2
  <1>3. ASSUME NEW c \in Caller, BeginFetch(c) PROVE OneInLock'
    BY <1>0, <1>3 DEF BeginFetch, AcquiresLock, Locked
  <1>4. CASE Tick \/ UNCHANGED vars \/ \E k \in Key : Submit(k) \/ Leave(k)
    BY <1>1, <1>4 DEF Tick, Submit, Leave, vars
  <1>5. ASSUME NEW c \in Caller, NEW K \in Requests, Request(c, K)
        PROVE  OneInLock'
    BY <1>2, <1>5 DEF Request
  <1>6. ASSUME NEW c \in Caller, Hit(c) \/ CancelQueued(c) \/ CancelFetch(c)
        PROVE  OneInLock'
    BY <1>2, <1>6 DEF Hit, CancelQueued, CancelFetch
  <1>7. ASSUME NEW c \in Caller, Sample(c) \/ SampleFails(c) PROVE OneInLock'
    <2>1. InLock(c) /\ pc' = [pc EXCEPT ![c] = "sampled"]
      BY <1>7 DEF Sample, SampleFails
    <2>2. QED
      BY <1>2, <2>1
  <1>8. ASSUME NEW c \in Caller, EndFetch(c) PROVE OneInLock'
    BY <1>2, <1>8 DEF EndFetch
  <1> QED
    BY <1>3, <1>4, <1>5, <1>6, <1>7, <1>8 DEF Next

-----------------------------------------------------------------------------

\* Only keys that were asked about get into the registry, and only submitted
\* jobs are asked about; a submitted job stays so.
LEMMA SubmittedStep == TypeOK /\ Submitted /\ [Next]_vars => Submitted'
  <1> SUFFICES ASSUME TypeOK, Submitted, [Next]_vars PROVE Submitted'
    OBVIOUS
  <1> USE DEF TypeOK, Submitted
  <1>1. CASE Tick \/ UNCHANGED vars
    BY <1>1 DEF Tick, vars, slot, world
  <1>2. ASSUME NEW k \in Key, Submit(k) \/ Leave(k) PROVE Submitted'
    BY <1>2 DEF Submit, Leave, slot
  <1>3. ASSUME NEW c \in Caller, NEW K \in Requests, Request(c, K)
        PROVE  Submitted'
    BY <1>3 DEF Request, slot, world
  <1>4. ASSUME NEW c \in Caller, Hit(c) PROVE Submitted'
    BY <1>4 DEF Hit, Stamped, world
  <1>5. ASSUME NEW c \in Caller, BeginFetch(c) PROVE Submitted'
    BY <1>5 DEF BeginFetch, Stamped, Retained, Registered, world
  <1>6. ASSUME NEW c \in Caller, Sample(c) \/ SampleFails(c) PROVE Submitted'
    BY <1>6 DEF Sample, SampleFails, world, slot
  <1>7. ASSUME NEW c \in Caller, EndFetch(c) PROVE Submitted'
    BY <1>7 DEF EndFetch, CachedEntry, world, NoFlight
  <1>8. ASSUME NEW c \in Caller, CancelQueued(c) PROVE Submitted'
    BY <1>8 DEF CancelQueued, world, slot
  <1>9. ASSUME NEW c \in Caller, CancelFetch(c) PROVE Submitted'
    BY <1>9 DEF CancelFetch, world, slot, NoFlight
  <1> QED
    BY <1>1, <1>2, <1>3, <1>4, <1>5, <1>6, <1>7, <1>8, <1>9 DEF Next

\* A listing that told the truth goes on telling it: a job that has left does
\* not come back, and a listed one that leaves later leaves after `from'.
LEMMA ListingStaysTrue ==
    ASSUME TypeOK, [Next]_vars,
           NEW K \in SUBSET Key, NEW R \in SUBSET Key, NEW from \in Int,
           from <= clock, ListingTrue(K, R, from)
    PROVE  ListingTrue(K, R, from)'
  <1> USE DEF ListingTrue, TypeOK, Times
  <1>1. CASE UNCHANGED world
    BY <1>1 DEF world
  <1>2. ASSUME NEW k \in Key, Submit(k) PROVE ListingTrue(K, R, from)'
    BY <1>2 DEF Submit
  <1>3. ASSUME NEW k \in Key, Leave(k) PROVE ListingTrue(K, R, from)'
    BY <1>3 DEF Leave
  <1> QED
    BY <1>1, <1>2, <1>3
    DEF Next, vars, world, Tick, Request, Hit, BeginFetch, Sample, SampleFails,
        EndFetch, CancelQueued, CancelFetch

\* An entry changes only when the holder of the lock ends its fetch, and then
\* it holds what the flight held, sampled at most MaxFetch ago.
LEMMA EntryStep ==
    TypeOK /\ EntryTrue /\ FlightTrue /\ [Next]_vars => EntryTrue'
  <1> SUFFICES ASSUME TypeOK, EntryTrue, FlightTrue, [Next]_vars
               PROVE  EntryTrue'
    OBVIOUS
  <1> USE QueryCacheAssumption
  <1>1. ASSUME NEW c \in Caller, EndFetch(c) PROVE EntryTrue'
    <2>1. /\ entry'.kind = flight.kind /\ entry'.at = clock
          /\ entry'.keys = flight.batch /\ entry'.rows = flight.rows
          /\ UNCHANGED <<clock, world, failedAt>>
      BY <1>1 DEF EndFetch, CachedEntry
    <2>2. /\ clock \in Nat /\ flight.started \in Nat
          /\ clock - MaxFetch <= flight.started
          /\ flight.kind = "listing" =>
                ListingTrue(flight.batch, flight.rows, flight.started)
          /\ flight.kind = "failure" =>
                /\ flight.rows = {}
                /\ failedAt # Never /\ failedAt >= flight.started
      BY <1>1 DEF EndFetch, CachedEntry, FlightTrue, InLock, TypeOK, Times
    <2>3. flight.kind = "listing" =>
              ListingTrue(flight.batch, flight.rows, clock - MaxFetch)
      BY <2>2 DEF ListingTrue, TypeOK, Times
    <2>4. QED
      BY <2>1, <2>2, <2>3
      DEF EntryTrue, ListingTrue, world, TypeOK, Times, Never
  <1>2. CASE UNCHANGED entry
    <2>1. clock' >= clock /\ clock \in Nat /\ clock' \in Nat
      BY DEF Next, vars, Tick, Submit, Leave, Request, Hit, BeginFetch, Sample,
             SampleFails, EndFetch, CancelQueued, CancelFetch, TypeOK, Times
    <2>2. failedAt' = failedAt \/ failedAt' = clock
      BY DEF Next, vars, Tick, Submit, Leave, Request, Hit, BeginFetch, Sample,
             SampleFails, EndFetch, CancelQueued, CancelFetch
    <2>3. entry.at \in Nat /\ entry.keys \in SUBSET Key /\ entry.rows \in SUBSET Key
      BY DEF TypeOK, Times
    <2>4. entry.kind = "listing" =>
              ListingTrue(entry.keys, entry.rows, entry.at - MaxFetch)'
      <3> DEFINE from == entry.at - MaxFetch
      <3>1. from \in Int /\ from <= clock
        BY <2>1, <2>3 DEF EntryTrue
      <3> HIDE DEF from
      <3>2. CASE entry.kind = "listing"
        <4>1. ListingTrue(entry.keys, entry.rows, from)
          BY <3>2 DEF EntryTrue, from
        <4>2. \A k \in entry.keys :
                 /\ k \notin entry.rows => phase'[k] = "gone"
                 /\ k \in entry.rows =>
                       \/ phase'[k] = "active"
                       \/ phase'[k] = "gone" /\ leftAt'[k] >= from
          BY <3>1, <4>1, <2>3, ListingStaysTrue DEF ListingTrue
        <4>3. QED
          BY <1>2, <4>2 DEF ListingTrue, from
      <3>3. QED
        BY <1>2, <3>2
    <2>5. QED
      BY <1>2, <2>1, <2>2, <2>3, <2>4 DEF EntryTrue, TypeOK, Times, Never
  <1> QED
    BY <1>1, <1>2
    DEF Next, vars, slot, Tick, Submit, Leave, Request, Hit, BeginFetch, Sample,
        SampleFails, CancelQueued, CancelFetch

\* What the holder of the lock knows: its flight is its own, covers what it
\* asked, and was sampled since it began.
LEMMA FlightStep ==
    TypeOK /\ OneInLock /\ Submitted /\ FlightTrue /\ [Next]_vars
        => FlightTrue'
  <1> SUFFICES ASSUME TypeOK, OneInLock, Submitted, FlightTrue, [Next]_vars
               PROVE  FlightTrue'
    OBVIOUS
  <1> USE QueryCacheAssumption
  <1>1. ASSUME NEW c \in Caller, BeginFetch(c) PROVE FlightTrue'
    BY <1>1
    DEF BeginFetch, AcquiresLock, Locked, FlightTrue, InLock, TypeOK, Times
  <1>2. ASSUME NEW c \in Caller, Sample(c) PROVE FlightTrue'
    <2>1. ListingTrue(flight.batch, Listed(flight.batch), flight.started)
      BY DEF ListingTrue, Listed, Submitted, TypeOK
    <2>2. /\ flight'.kind = "listing" /\ flight'.rows = Listed(flight.batch)
          /\ flight'.batch = flight.batch /\ flight'.started = flight.started
          /\ pc' = [pc EXCEPT ![c] = "sampled"]
          /\ UNCHANGED <<clock, phase, leftAt, failedAt, asked>>
      BY <1>2 DEF Sample, world, TypeOK
    <2>3. ListingTrue(flight.batch, flight.rows, flight.started)'
      BY <2>1, <2>2 DEF ListingTrue
    <2>4. pc[c] = "fetching"
      BY <1>2 DEF Sample
    <2>5. QED
      BY <2>2, <2>3, <2>4 DEF FlightTrue, InLock, OneInLock, TypeOK, Times
  <1>3. ASSUME NEW c \in Caller, SampleFails(c) PROVE FlightTrue'
    BY <1>3
    DEF SampleFails, FlightTrue, InLock, OneInLock, TypeOK, Times, Never
  <1>4. ASSUME NEW c \in Caller, EndFetch(c) \/ CancelFetch(c) PROVE FlightTrue'
    BY <1>4
    DEF EndFetch, CachedEntry, CancelFetch, FlightTrue, InLock, OneInLock, TypeOK
  <1>5. ASSUME NEW c \in Caller, \/ Hit(c) \/ CancelQueued(c)
                                 \/ \E K \in Requests : Request(c, K)
        PROVE  FlightTrue'
    <2>1. UNCHANGED <<flight, clock, phase, leftAt, failedAt>>
      BY <1>5 DEF Hit, CancelQueued, Request, world
    <2>2. /\ ~InLock(c) /\ ~InLock(c)'
          /\ \A d \in Caller : d # c => pc'[d] = pc[d] /\ asked'[d] = asked[d]
      BY <1>5 DEF Hit, AcquiresLock, CancelQueued, Request, InLock, TypeOK
    <2>3. QED
      BY <2>1, <2>2 DEF FlightTrue, InLock, ListingTrue
  <1>6. CASE Tick \/ UNCHANGED vars \/ \E k \in Key : Submit(k) \/ Leave(k)
    <2>1. UNCHANGED <<flight, pc, asked, failedAt>>
      BY <1>6 DEF Tick, vars, Submit, Leave
    <2>2. ASSUME NEW c \in Caller, InLock(c)
          PROVE  flight.started <= clock' /\ clock' <= flight.started + MaxFetch
      BY <1>6, <2>2
      DEF Tick, vars, Submit, Leave, FlightTrue, InLock, Locked, TypeOK, Times
    <2>3. ASSUME NEW c \in Caller, InLock(c), pc[c] = "sampled",
                 flight.kind = "listing"
          PROVE  ListingTrue(flight.batch, flight.rows, flight.started)'
      <3>1. /\ flight.batch \in SUBSET Key /\ flight.rows \in SUBSET Key
            /\ flight.started \in Int /\ flight.started <= clock
            /\ ListingTrue(flight.batch, flight.rows, flight.started)
        BY <2>3 DEF FlightTrue, InLock, TypeOK, Times
      <3>2. \A k \in flight.batch :
               /\ k \notin flight.rows => phase'[k] = "gone"
               /\ k \in flight.rows =>
                     \/ phase'[k] = "active"
                     \/ phase'[k] = "gone" /\ leftAt'[k] >= flight.started
        BY <3>1, ListingStaysTrue DEF ListingTrue
      <3>3. QED
        BY <2>1, <3>2 DEF ListingTrue
    <2>4. QED
      BY <2>1, <2>2, <2>3 DEF FlightTrue, InLock
  <1> QED
    BY <1>1, <1>2, <1>3, <1>4, <1>5, <1>6 DEF Next

-----------------------------------------------------------------------------

LEMMA IInvInit == Init => IInv
  BY QueryCacheAssumption
  DEF Init, IInv, TypeOK, Times, NoAnswer, EmptySlot, NoFlight, Never,
      OneInLock, Submitted, EntryTrue, FlightTrue, InLock

\* The inductive invariant of the cache.
THEOREM InductiveInvariant == Spec => []IInv
  <1>1. IInv /\ [Next]_vars => IInv'
    BY TypeStep, OneInLockStep, SubmittedStep, EntryStep, FlightStep DEF IInv
  <1>2. QED
    BY IInvInit, <1>1, PTL DEF Spec

\* The module's correctness rule, for every batch and every interleaving: an
\* entry that may be replayed to a request for k shows k as missing only when
\* the job has left the listing.
THEOREM NoVanishIsFabricated == Spec => []NoFabricatedVanish
  <1>1. IInv => NoFabricatedVanish
    BY DEF IInv, EntryTrue, ListingTrue, NoFabricatedVanish, Replayable
  <1>2. QED
    BY <1>1, InductiveInvariant, PTL

-----------------------------------------------------------------------------
(* The refinement of StatusOracle. *)

ImplWaiting == [c \in Caller |-> pc[c] # "idle"]

\* A listing that is true since `from' is one the oracle may answer with when
\* `from' is at most Staleness ago.
LEMMA TruthfulListing ==
    ASSUME TypeOK, NEW K \in SUBSET Key, NEW B \in SUBSET Key,
           NEW R \in SUBSET Key, NEW from \in Int,
           K \subseteq B, ListingTrue(B, R, from), clock - from <= Staleness
    PROVE  Oracle!Truthful(K, R)
  <1>1. Staleness \in Nat
    BY QueryCacheAssumption DEF Staleness
  <1>2. \A k \in K \ R : phase[k] = "gone"
    BY DEF ListingTrue
  <1>3. ASSUME NEW k \in K \cap R PROVE Oracle!RecentlyListed(k)
    <2>1. clock \in Int /\ leftAt[k] \in Int
      BY DEF TypeOK, Times
    <2>2. \/ phase[k] = "active"
          \/ phase[k] = "gone" /\ leftAt[k] >= from
      <3>1. k \in B /\ k \in R
        BY <1>3
      <3>2. QED
        BY <3>1 DEF ListingTrue
    <2>3. leftAt[k] >= from => clock - leftAt[k] <= Staleness
      BY <1>1, <2>1
    <2>4. QED
      BY <2>2, <2>3 DEF Oracle!RecentlyListed
  <1>4. QED
    BY <1>2, <1>3 DEF Oracle!Truthful

LEMMA OracleInit == Init => Oracle!Init
  BY DEF Init, Oracle!Init, NoAnswer, Oracle!NoAnswer, Never, Oracle!Never

LEMMA OracleStep == IInv /\ [Next]_vars => [Oracle!Next]_(Oracle!vars)
  <1> SUFFICES ASSUME IInv, [Next]_vars PROVE [Oracle!Next]_(Oracle!vars)
    OBVIOUS
  <1> USE QueryCacheAssumption DEF Oracle!vars
  <1>0. TypeOK
    BY DEF IInv
  <1>1. CASE Tick
    BY <1>1 DEF Tick, world, Oracle!Next, Oracle!Tick
  <1>2. ASSUME NEW k \in Key, Submit(k) PROVE Oracle!Next
    BY <1>2 DEF Submit, Oracle!Next, Oracle!Submit
  <1>3. ASSUME NEW k \in Key, Leave(k) PROVE Oracle!Next
    BY <1>3 DEF Leave, Oracle!Next, Oracle!Leave
  <1>4. ASSUME NEW c \in Caller, NEW K \in Requests, Request(c, K)
        PROVE  Oracle!Next
    <2>1. ImplWaiting' = [ImplWaiting EXCEPT ![c] = TRUE] /\ ~ImplWaiting[c]
      BY <1>0, <1>4 DEF Request, ImplWaiting, TypeOK
    <2>2. Oracle!Request(c, K)
      BY <1>4, <2>1
      DEF Request, world, ImplWaiting, Oracle!Request, NoAnswer, Oracle!NoAnswer
    <2>3. QED
      BY <2>2 DEF Oracle!Next
  <1>5a. ASSUME NEW c \in Caller, CancelQueued(c) PROVE Oracle!Next
    <2>1. ImplWaiting' = [ImplWaiting EXCEPT ![c] = FALSE] /\ ImplWaiting[c]
      BY <1>0, <1>5a DEF CancelQueued, ImplWaiting, TypeOK
    <2>2. Oracle!Cancel(c)
      BY <1>5a, <2>1 DEF CancelQueued, world, ImplWaiting, Oracle!Cancel
    <2>3. QED
      BY <2>2 DEF Oracle!Next
  <1>5b. ASSUME NEW c \in Caller, CancelFetch(c) PROVE Oracle!Next
    <2>1. ImplWaiting' = [ImplWaiting EXCEPT ![c] = FALSE] /\ ImplWaiting[c]
      BY <1>0, <1>5b DEF CancelFetch, ImplWaiting, TypeOK
    <2>2. Oracle!Cancel(c)
      BY <1>5b, <2>1 DEF CancelFetch, world, ImplWaiting, Oracle!Cancel
    <2>3. QED
      BY <2>2 DEF Oracle!Next
  <1>6. ASSUME NEW c \in Caller, BeginFetch(c) PROVE UNCHANGED Oracle!vars
    <2>1. ImplWaiting' = ImplWaiting
      BY <1>0, <1>6 DEF BeginFetch, AcquiresLock, ImplWaiting, TypeOK
    <2>2. QED
      BY <1>6, <2>1 DEF BeginFetch, world, ImplWaiting
  <1>7. ASSUME NEW c \in Caller, Sample(c) PROVE UNCHANGED Oracle!vars
    <2>1. ImplWaiting' = ImplWaiting
      BY <1>0, <1>7 DEF Sample, ImplWaiting, TypeOK
    <2>2. QED
      BY <1>7, <2>1 DEF Sample, world, ImplWaiting
  <1>8. ASSUME NEW c \in Caller, SampleFails(c) PROVE Oracle!Next
    <2>1. ImplWaiting' = ImplWaiting
      BY <1>0, <1>8 DEF SampleFails, ImplWaiting, TypeOK
    <2>2. Oracle!QueryFails
      BY <1>8, <2>1 DEF SampleFails, world, ImplWaiting, Oracle!QueryFails
    <2>3. QED
      BY <2>2 DEF Oracle!Next
  <1>9. ASSUME NEW c \in Caller, Hit(c) PROVE Oracle!Next
    <2>1. ImplWaiting' = [ImplWaiting EXCEPT ![c] = FALSE] /\ ImplWaiting[c]
      BY <1>0, <1>9 DEF Hit, AcquiresLock, ImplWaiting, TypeOK
    <2>2. /\ entry.kind # "none" /\ clock - entry.at < TTL
          /\ asked[c] \subseteq entry.keys
          /\ UNCHANGED <<clock, phase, leftAt, failedAt>>
          /\ asked' = [asked EXCEPT ![c] = {}]
          /\ answer' = [answer EXCEPT ![c] = [kind |-> entry.kind,
                                             rows |-> entry.rows]]
      BY <1>9 DEF Hit, Replayable, Fresh, world
    <2>3. /\ entry.at \in Nat /\ clock \in Nat /\ asked[c] \in SUBSET Key
          /\ entry.keys \in SUBSET Key /\ entry.rows \in SUBSET Key
          /\ entry.kind \in {"listing", "failure"}
      BY <1>0, <2>2 DEF TypeOK, Times
    <2>4. clock - (entry.at - MaxFetch) <= Staleness
      BY <2>2, <2>3 DEF Staleness
    <2>5. CASE entry.kind = "listing"
      <3>1. ListingTrue(entry.keys, entry.rows, entry.at - MaxFetch)
        BY <2>5 DEF IInv, EntryTrue
      <3>2. entry.at - MaxFetch \in Int
        BY <2>3
      <3>3. Oracle!Truthful(asked[c], entry.rows)
        BY <1>0, <2>2, <2>3, <2>4, <3>1, <3>2, TruthfulListing
      <3>4. PICK R \in SUBSET Key : R = entry.rows
        BY <2>3
      <3>5. Oracle!AnswerListing(c, R)
        BY <2>1, <2>2, <2>5, <3>3, <3>4 DEF ImplWaiting, Oracle!AnswerListing
      <3>6. QED
        BY <3>5 DEF Oracle!Next
    <2>6. CASE entry.kind = "failure"
      <3>1. /\ failedAt # Never /\ failedAt >= entry.at - MaxFetch
            /\ failedAt \in Nat /\ entry.rows = {}
        BY <1>0, <2>6 DEF IInv, EntryTrue, TypeOK, Times
      <3>2. failedAt # Oracle!Never /\ clock - failedAt <= Staleness
        BY <2>3, <2>4, <3>1 DEF Oracle!Never, Never, Staleness
      <3>3. Oracle!AnswerFailure(c)
        BY <2>1, <2>2, <2>6, <3>1, <3>2 DEF ImplWaiting, Oracle!AnswerFailure
      <3>4. QED
        BY <3>3 DEF Oracle!Next
    <2>7. QED
      BY <2>3, <2>5, <2>6
  <1>10. ASSUME NEW c \in Caller, EndFetch(c) PROVE Oracle!Next
    <2>1. ImplWaiting' = [ImplWaiting EXCEPT ![c] = FALSE] /\ ImplWaiting[c]
      BY <1>0, <1>10 DEF EndFetch, CachedEntry, ImplWaiting, TypeOK
    <2>2. /\ UNCHANGED <<clock, phase, leftAt, failedAt>>
          /\ asked' = [asked EXCEPT ![c] = {}]
          /\ answer' = [answer EXCEPT ![c] = [kind |-> flight.kind,
                                             rows |-> flight.rows]]
      BY <1>10 DEF EndFetch, CachedEntry, world
    <2>3. /\ flight.started \in Int /\ clock \in Nat /\ asked[c] \in SUBSET Key
          /\ flight.batch \in SUBSET Key /\ flight.rows \in SUBSET Key
      BY <1>0 DEF TypeOK, Times
    <2>4. /\ clock <= flight.started + MaxFetch
          /\ asked[c] \subseteq flight.batch
          /\ flight.kind \in {"listing", "failure"}
          /\ flight.kind = "listing" =>
                ListingTrue(flight.batch, flight.rows, flight.started)
          /\ flight.kind = "failure" =>
                /\ flight.rows = {}
                /\ failedAt # Never /\ failedAt >= flight.started
      BY <1>10 DEF EndFetch, CachedEntry, IInv, FlightTrue, InLock
    <2>5. Staleness \in Nat /\ clock - flight.started <= Staleness
      BY <2>3, <2>4 DEF Staleness
    <2>6. CASE flight.kind = "listing"
      <3>1. Oracle!Truthful(asked[c], flight.rows)
        BY <1>0, <2>3, <2>4, <2>5, <2>6, TruthfulListing
      <3>2. PICK R \in SUBSET Key : R = flight.rows
        BY <2>3
      <3>3. Oracle!AnswerListing(c, R)
        BY <2>1, <2>2, <2>6, <3>1, <3>2 DEF ImplWaiting, Oracle!AnswerListing
      <3>4. QED
        BY <3>3 DEF Oracle!Next
    <2>7. CASE flight.kind = "failure"
      <3>1. failedAt \in Int
        BY <1>0 DEF TypeOK, Times, Never
      <3>2. failedAt # Oracle!Never /\ clock - failedAt <= Staleness
        BY <2>3, <2>4, <2>5, <2>7, <3>1 DEF Oracle!Never, Never
      <3>3. Oracle!AnswerFailure(c)
        BY <2>1, <2>2, <2>4, <2>7, <3>2 DEF ImplWaiting, Oracle!AnswerFailure
      <3>4. QED
        BY <3>3 DEF Oracle!Next
    <2>8. QED
      BY <2>4, <2>6, <2>7
  <1>11. CASE UNCHANGED vars
    BY <1>11 DEF vars
  <1> QED
    BY <1>1, <1>2, <1>3, <1>4, <1>5a, <1>5b, <1>6, <1>7, <1>8, <1>9, <1>10, <1>11
    DEF Next

\* Whatever the interleaving of polls, commands, cancellations and failures,
\* the answers of the cache are answers the oracle could give.
THEOREM CacheImplementsOracle == Spec => ImplementsOracle
  BY OracleInit, OracleStep, InductiveInvariant, PTL
  DEF Spec, ImplementsOracle, Oracle!Spec

-----------------------------------------------------------------------------
(* How many commands run. *)

\* The fetches that were begun in the window before t, and the keys that were asked
\* for in it and are still in the registry.
Begun(t) == {i \in DOMAIN spawns : spawns[i] \in Window(t)}
AskedIn(t) == {k \in Key : recent[k] # Never /\ t - recent[k] < TTL}

\* Nobody asks for nothing.
AskedSome == \A c \in Caller : pc[c] # "idle" => asked[c] # {}

\* What is on record has happened, and before the fetch in progress began.
Past ==
    /\ \A k \in Key : recent[k] <= clock
    /\ \A i \in DOMAIN spawns : spawns[i] <= clock
    /\ Locked => /\ flight.started <= clock
                 /\ \A i \in DOMAIN spawns : spawns[i] <= flight.started

\* While the window is open, each of its fetches has brought a key into the entry
\* that was not in it before.
EntryCovers(t) ==
    clock <= t =>
        /\ Cardinality(Begun(t)) <= Cardinality(AskedIn(t) \cap entry.keys)
        /\ Begun(t) # {} => entry.kind # "none" /\ t - entry.at < TTL

\* The fetch in progress, if it belongs to the window, brings another.
FlightCovers(t) ==
    Locked /\ flight.started \in Window(t) =>
        Cardinality(Begun(t)) < Cardinality(AskedIn(t) \cap flight.batch)

Covers(t) ==
    EntryCovers(t) /\ FlightCovers(t) /\ FetchesIn(Window(t)) <= Cardinality(Key)

LoadInv ==
    /\ AskedSome /\ Past
    /\ \A t \in Times : Covers(t)

LEMMA BegunFinite ==
    ASSUME TypeOK, NEW t
    PROVE  /\ IsFiniteSet(Begun(t)) /\ Cardinality(Begun(t)) \in Nat
           /\ FetchesIn(Window(t)) = Cardinality(Begun(t))
<1>1. DOMAIN spawns = 1..Len(spawns) /\ Len(spawns) \in Nat
  BY DEF TypeOK
<1>2. IsFiniteSet(DOMAIN spawns)
  BY <1>1, FS_Interval
<1> QED
  BY <1>2, FS_Subset, FS_CardinalityType DEF Begun, FetchesIn

\* A step that does not end a fetch leaves the count alone; the end of one adds it to
\* the windows it was begun in.
LEMMA BegunGrows ==
    ASSUME TypeOK, spawns' = Append(spawns, flight.started), NEW t
    PROVE  Cardinality(Begun(t)') =
               Cardinality(Begun(t)) + (IF flight.started \in Window(t) THEN 1 ELSE 0)
<1>1. spawns \in Seq(Times) /\ flight.started \in Times
  BY DEF TypeOK
<1> DEFINE n == Len(spawns) + 1
<1>2. DOMAIN spawns = 1..Len(spawns) /\ Len(spawns) \in Nat /\ n \notin DOMAIN spawns
      /\ n \notin Begun(t)
  BY <1>1 DEF Begun
<1>3. /\ DOMAIN spawns' = 1..n
      /\ spawns'[n] = flight.started
      /\ \A i \in DOMAIN spawns : spawns'[i] = spawns[i]
  BY <1>1, <1>2
<1>4. \A i : i \in DOMAIN spawns' <=> i \in DOMAIN spawns \/ i = n
  BY <1>2, <1>3
<1>5. Begun(t)' = {i \in DOMAIN spawns' : spawns'[i] \in Window(t)}
  BY DEF Begun, Window
<1>6. CASE flight.started \in Window(t)
  <2>1. Begun(t)' = Begun(t) \cup {n}
    BY <1>3, <1>4, <1>5, <1>6 DEF Begun
  <2> QED
    BY <1>2, <1>6, <2>1, BegunFinite, FS_AddElement
<1>7. CASE flight.started \notin Window(t)
  <2>1. Begun(t)' = Begun(t)
    BY <1>3, <1>4, <1>5, <1>7 DEF Begun
  <2> QED
    BY <1>7, <2>1, BegunFinite
<1> QED
  BY <1>6, <1>7

LEMMA KeysFinite ==
    ASSUME IsFiniteSet(Key), NEW S, NEW T, S \subseteq T, T \subseteq Key
    PROVE  /\ IsFiniteSet(S) /\ IsFiniteSet(T)
           /\ Cardinality(S) \in Nat /\ Cardinality(T) \in Nat
           /\ Cardinality(S) <= Cardinality(T)
<1>1. IsFiniteSet(T)
  BY FS_Subset
<1>2. IsFiniteSet(S)
  BY <1>1, FS_Subset
<1> QED
  BY <1>1, <1>2, FS_Subset, FS_CardinalityType

LEMMA AskedSomeStep ==
    ASSUME {} \notin Requests, TypeOK, AskedSome, [Next]_vars
    PROVE  AskedSome'
<1> USE DEF AskedSome
<1>1. ASSUME NEW c \in Caller, NEW K \in Requests, Request(c, K) PROVE AskedSome'
  <2>1. pc \in [Caller -> {"idle", "queued", "fetching", "sampled"}]
        /\ asked \in [Caller -> SUBSET Key] /\ K # {}
    BY DEF TypeOK
  <2> QED
    BY <1>1, <2>1 DEF Request
<1>2. CASE \E c \in Caller : Hit(c) \/ BeginFetch(c) \/ Sample(c) \/ SampleFails(c)
                                \/ EndFetch(c) \/ CancelQueued(c) \/ CancelFetch(c)
  BY <1>2 DEF TypeOK, Hit, BeginFetch, Sample, SampleFails, EndFetch, CancelQueued,
              CancelFetch, AcquiresLock
<1>3. CASE Tick \/ \E k \in Key : Submit(k) \/ Leave(k)
  BY <1>3 DEF Tick, Submit, Leave
<1>4. CASE UNCHANGED vars
  BY <1>4 DEF vars
<1> QED
  BY <1>1, <1>2, <1>3, <1>4 DEF Next

LEMMA RecentPast ==
    ASSUME TypeOK, NEW K, NEW k \in Key, recent[k] <= clock
    PROVE  Stamped(K)[k] <= clock /\ Retained(Stamped(K))[k] <= clock
  BY DEF TypeOK, Stamped, Retained, Never, Times

LEMMA PastStep ==
    ASSUME TypeOK, OneInLock, Past, [Next]_vars
    PROVE  Past'
<1> USE QueryCacheAssumption
<1>1. CASE Tick
  <2>1. clock \in Int /\ flight.started \in Int /\ \A k \in Key : recent[k] \in Int
    BY DEF TypeOK, Times, Never
  <2>2. \A i \in DOMAIN spawns : spawns[i] \in Int
    BY DEF TypeOK, Times
  <2> QED
    BY <1>1, <2>1, <2>2 DEF Past, Tick, Locked, slot
<1>2. CASE \E k \in Key : Submit(k) \/ Leave(k)
  BY <1>2 DEF Past, Submit, Leave, Locked, slot
<1>3. ASSUME NEW c \in Caller, NEW K \in Requests, Request(c, K) PROVE Past'
  BY <1>3 DEF TypeOK, Past, Request, Locked, slot
<1>4. ASSUME NEW c \in Caller, Hit(c) PROVE Past'
  <2>1. \A k \in Key : recent'[k] <= clock
    BY <1>4, RecentPast DEF Hit, Past
  <2> QED
    BY <1>4, <2>1 DEF TypeOK, Past, Hit, Locked, AcquiresLock
<1>5. ASSUME NEW c \in Caller, BeginFetch(c) PROVE Past'
  <2>1. \A k \in Key : recent'[k] <= clock
    BY <1>5, RecentPast DEF BeginFetch, Past
  <2>2. clock \in Nat /\ flight'.started = clock /\ UNCHANGED <<clock, spawns>>
    BY <1>5 DEF BeginFetch, TypeOK, Times
  <2>3. \A i \in DOMAIN spawns : spawns[i] <= clock
    BY DEF Past
  <2> QED
    BY <2>1, <2>2, <2>3 DEF Past
<1>6. ASSUME NEW c \in Caller, Sample(c) \/ SampleFails(c) PROVE Past'
  <2>1. Locked /\ flight'.started = flight.started /\ UNCHANGED <<clock, spawns, recent>>
    BY <1>6 DEF TypeOK, Sample, SampleFails, Locked, slot
  <2> QED
    BY <2>1 DEF Past
<1>7. ASSUME NEW c \in Caller, EndFetch(c) PROVE Past'
  <2>1. Locked /\ ~Locked'
    BY <1>7 DEF TypeOK, EndFetch, Locked, OneInLock, InLock
  <2>2. spawns \in Seq(Times) /\ flight.started \in Times
    BY DEF TypeOK
  <2>3. \A i \in DOMAIN spawns' : spawns'[i] \in {spawns[j] : j \in DOMAIN spawns} \cup {flight.started}
    BY <1>7, <2>2 DEF EndFetch
  <2> QED
    BY <1>7, <2>1, <2>3 DEF Past, EndFetch
<1>8. ASSUME NEW c \in Caller, CancelQueued(c) PROVE Past'
  BY <1>8 DEF TypeOK, Past, CancelQueued, Locked, slot
<1>9. ASSUME NEW c \in Caller, CancelFetch(c) PROVE Past'
  <2>1. ~Locked'
    BY <1>9 DEF TypeOK, CancelFetch, Locked, OneInLock, InLock
  <2> QED
    BY <1>9, <2>1 DEF Past, CancelFetch, slot
<1>10. CASE UNCHANGED vars
  BY <1>10 DEF Past, Locked, vars
<1> QED
  BY <1>1, <1>2, <1>3, <1>4, <1>5, <1>6, <1>7, <1>8, <1>9, <1>10 DEF Next

\* The steps that neither read nor write the slot.
Quiet ==
    /\ UNCHANGED <<spawns, entry, recent>>
    /\ clock' \in {clock, clock + 1}
    /\ Locked' => /\ Locked
                  /\ flight'.started = flight.started /\ flight'.batch = flight.batch

LEMMA QuietSteps ==
    ASSUME TypeOK, OneInLock, [Next]_vars
    PROVE  Quiet \/ \E c \in Caller : Hit(c) \/ BeginFetch(c) \/ EndFetch(c)
<1>1. CASE Tick \/ UNCHANGED vars \/ \E k \in Key : Submit(k) \/ Leave(k)
  BY <1>1 DEF Tick, Submit, Leave, Quiet, Locked, vars, slot
<1>2. ASSUME NEW c \in Caller, NEW K \in Requests, Request(c, K) PROVE Quiet
  BY <1>2 DEF TypeOK, Request, Quiet, Locked, slot
<1>3. ASSUME NEW c \in Caller, Sample(c) \/ SampleFails(c) PROVE Quiet
  BY <1>3 DEF TypeOK, Sample, SampleFails, Quiet, Locked, slot
<1>4. ASSUME NEW c \in Caller, CancelQueued(c) PROVE Quiet
  BY <1>4 DEF TypeOK, CancelQueued, Quiet, Locked, slot
<1>5. ASSUME NEW c \in Caller, CancelFetch(c) PROVE Quiet
  <2>1. ~Locked'
    BY <1>5 DEF TypeOK, CancelFetch, Locked, OneInLock, InLock
  <2> QED
    BY <1>5, <2>1 DEF CancelFetch, Quiet, slot
<1> QED
  BY <1>1, <1>2, <1>3, <1>4, <1>5 DEF Next

LEMMA QuietCovers ==
    ASSUME TypeOK, Quiet, NEW t \in Times, Covers(t)
    PROVE  Covers(t)'
<1>1. clock \in Int /\ t \in Int /\ (clock' <= t => clock <= t)
  BY DEF Quiet, TypeOK, Times
<1>2. Begun(t)' = Begun(t) /\ AskedIn(t)' = AskedIn(t) /\ FetchesIn(Window(t))' = FetchesIn(Window(t))
  BY DEF Quiet, Begun, AskedIn, FetchesIn, Window
<1>3. EntryCovers(t)'
  BY <1>1, <1>2 DEF Quiet, Covers, EntryCovers
<1>4. FlightCovers(t)'
  BY <1>2 DEF Quiet, Covers, FlightCovers, Window
<1> QED
  BY <1>2, <1>3, <1>4 DEF Covers

\* A request stamps its keys now, and retain() drops nothing that is younger than
\* the window.
LEMMA AskedInGrows ==
    ASSUME TypeOK, Past, NEW t \in Times, clock <= t, NEW K,
           recent' = Stamped(K) \/ recent' = Retained(Stamped(K))
    PROVE  /\ AskedIn(t) \subseteq AskedIn(t)'
           /\ t - clock < TTL => \A k \in K \cap Key : k \in AskedIn(t)'
<1> USE QueryCacheAssumption
<1>1. clock \in Nat /\ t \in Nat /\ TTL \in Nat
  BY DEF TypeOK, Times
<1>2. ASSUME NEW k \in Key
      PROVE  /\ recent[k] \in Int /\ recent[k] <= clock
             /\ recent'[k] \in {recent[k], clock, Never}
             /\ k \in K => Stamped(K)[k] = clock
             /\ k \notin K => Stamped(K)[k] = recent[k]
             /\ recent'[k] # Stamped(K)[k] => recent'[k] = Never /\ ~(clock - Stamped(K)[k] < 2 * TTL)
  BY DEF TypeOK, Past, Stamped, Retained, Never, Times
<1>3. ASSUME NEW k \in AskedIn(t) PROVE k \in AskedIn(t)'
  <2>1. k \in Key /\ recent[k] # Never /\ t - recent[k] < TTL
    BY DEF AskedIn
  <2>2. recent'[k] # Never /\ t - recent'[k] < TTL
    BY <1>1, <1>2, <2>1 DEF Never
  <2> QED
    BY <2>1, <2>2 DEF AskedIn
<1>4. ASSUME t - clock < TTL, NEW k \in K \cap Key PROVE k \in AskedIn(t)'
  BY <1>1, <1>2, <1>4 DEF AskedIn, Never
<1> QED
  BY <1>3, <1>4

LEMMA HitCovers ==
    ASSUME TypeOK, Past, IsFiniteSet(Key), NEW t \in Times, Covers(t), NEW c \in Caller, Hit(c)
    PROVE  Covers(t)'
<1>1. ~Locked' /\ UNCHANGED <<spawns, entry, clock>> /\ recent' = Stamped(asked[c])
  BY DEF TypeOK, Hit, AcquiresLock, Locked
<1>2. Begun(t)' = Begun(t) /\ FetchesIn(Window(t))' = FetchesIn(Window(t))
  BY <1>1 DEF Begun, FetchesIn, Window
<1>3. EntryCovers(t)'
  <2>1. CASE clock <= t
    <3>1. AskedIn(t) \cap entry.keys \subseteq AskedIn(t)' \cap entry.keys
      BY <1>1, <2>1, AskedInGrows
    <3>2. AskedIn(t)' \cap entry.keys \subseteq Key
      BY DEF AskedIn
    <3>3. Cardinality(AskedIn(t) \cap entry.keys) <= Cardinality(AskedIn(t)' \cap entry.keys)
          /\ Cardinality(AskedIn(t) \cap entry.keys) \in Nat
          /\ Cardinality(AskedIn(t)' \cap entry.keys) \in Nat
      BY <3>1, <3>2, KeysFinite
    <3>4. Cardinality(Begun(t)) \in Nat
      BY BegunFinite
    <3> QED
      BY <1>1, <1>2, <2>1, <3>3, <3>4 DEF Covers, EntryCovers
  <2>2. CASE ~(clock <= t)
    BY <1>1, <2>2 DEF EntryCovers
  <2> QED
    BY <2>1, <2>2
<1> QED
  BY <1>1, <1>2, <1>3 DEF Covers, FlightCovers

LEMMA BeginCovers ==
    ASSUME TypeOK, AskedSome, Past, IsFiniteSet(Key), NEW t \in Times, Covers(t),
           NEW c \in Caller, BeginFetch(c)
    PROVE  Covers(t)'
<1>1. /\ UNCHANGED <<spawns, entry, clock>>
      /\ recent' = Retained(Stamped(asked[c]))
      /\ flight'.started = clock /\ flight'.batch = Registered(recent') \cup asked[c]
      /\ ~Replayable(asked[c]) /\ asked[c] # {} /\ asked[c] \subseteq Key
  BY DEF TypeOK, BeginFetch, AcquiresLock, AskedSome
<1>2. Begun(t)' = Begun(t) /\ FetchesIn(Window(t))' = FetchesIn(Window(t))
      /\ Cardinality(Begun(t)) \in Nat
  BY <1>1, BegunFinite DEF Begun, FetchesIn, Window
<1>3. CASE clock <= t
  <2>1. AskedIn(t) \subseteq AskedIn(t)' /\ AskedIn(t)' \subseteq Key
    BY <1>1, <1>3, AskedInGrows DEF AskedIn
  <2>2. EntryCovers(t)'
    <3>1. Cardinality(AskedIn(t) \cap entry.keys) <= Cardinality(AskedIn(t)' \cap entry.keys)
          /\ Cardinality(AskedIn(t) \cap entry.keys) \in Nat
          /\ Cardinality(AskedIn(t)' \cap entry.keys) \in Nat
      BY <2>1, KeysFinite
    <3> QED
      BY <1>1, <1>2, <1>3, <3>1 DEF Covers, EntryCovers
  <2>3. ASSUME t - clock < TTL
        PROVE  Cardinality(Begun(t)) < Cardinality(AskedIn(t)')
    <3>1. \A k \in asked[c] : k \in AskedIn(t)'
      BY <1>1, <1>3, <2>3, AskedInGrows
    <3>2. PICK k \in asked[c] : Begun(t) = {} \/ k \notin entry.keys
      <4>1. CASE Begun(t) = {}
        BY <1>1, <4>1
      <4>2. CASE Begun(t) # {}
        <5>1. entry.kind # "none" /\ t - entry.at < TTL
          BY <1>3, <4>2 DEF Covers, EntryCovers
        <5>2. clock - entry.at < TTL
          BY <1>3, <5>1, QueryCacheAssumption DEF TypeOK, Times
        <5> QED
          BY <1>1, <5>1, <5>2 DEF Replayable, Fresh
      <4> QED
        BY <4>1, <4>2
    <3> DEFINE S == IF Begun(t) = {} THEN {} ELSE AskedIn(t) \cap entry.keys
    <3>3. /\ S \cup {k} \subseteq AskedIn(t)' /\ k \notin S
          /\ S \subseteq S \cup {k} /\ S \cup {k} \subseteq Key
      BY <2>1, <3>1, <3>2
    <3>4. Cardinality(Begun(t)) <= Cardinality(S)
      BY <1>2, <1>3, FS_EmptySet DEF Covers, EntryCovers
    <3>5. IsFiniteSet(S) /\ Cardinality(S) \in Nat
      BY <3>3, KeysFinite
    <3>6. Cardinality(S \cup {k}) = Cardinality(S) + 1
      BY <3>3, <3>5, FS_AddElement
    <3>7. Cardinality(S \cup {k}) <= Cardinality(AskedIn(t)') /\ Cardinality(AskedIn(t)') \in Nat
      BY <2>1, <3>3, KeysFinite
    <3> QED
      BY <1>2, <3>4, <3>5, <3>6, <3>7
  <2>4. AskedIn(t)' \cap flight'.batch = AskedIn(t)'
    BY <1>1 DEF AskedIn, Registered
  <2>5. FlightCovers(t)'
    BY <1>1, <1>2, <2>3, <2>4 DEF FlightCovers, Window
  <2> QED
    BY <1>2, <2>2, <2>5 DEF Covers
<1>4. CASE ~(clock <= t)
  BY <1>1, <1>2, <1>4 DEF Covers, EntryCovers, FlightCovers, Window
<1> QED
  BY <1>3, <1>4

LEMMA EndCovers ==
    ASSUME TypeOK, OneInLock, FlightTrue, Past, IsFiniteSet(Key), NEW t \in Times,
           Covers(t), NEW c \in Caller, EndFetch(c)
    PROVE  Covers(t)'
<1>1. /\ Locked /\ ~Locked'
      /\ spawns' = Append(spawns, flight.started)
      /\ entry'.at = clock /\ entry'.keys = flight.batch /\ entry'.kind # "none"
      /\ UNCHANGED <<clock, recent>>
  BY DEF TypeOK, EndFetch, CachedEntry, Locked, OneInLock, FlightTrue, InLock
<1>2. /\ flight.started \in Nat /\ flight.started <= clock
      /\ clock \in Nat /\ t \in Nat /\ TTL \in Nat
  BY <1>1, QueryCacheAssumption DEF Past, TypeOK, Times
<1>3. AskedIn(t)' = AskedIn(t) /\ AskedIn(t) \subseteq Key
  BY <1>1 DEF AskedIn
<1>4. Cardinality(Begun(t)) \in Nat /\ FetchesIn(Window(t)) = Cardinality(Begun(t))
  BY BegunFinite
<1>5. /\ FetchesIn(Window(t))' = Cardinality(Begun(t)')
      /\ IsFiniteSet(Begun(t)')
      /\ Cardinality(Begun(t)') = Cardinality(Begun(t)) + (IF flight.started \in Window(t) THEN 1 ELSE 0)
  <2>1. TypeOK'
    <3>1. [Next]_vars
      BY DEF Next
    <3> QED
      BY <3>1, TypeStep
  <2>2. DOMAIN spawns' = 1..Len(spawns') /\ Len(spawns') \in Nat
    BY <2>1 DEF TypeOK
  <2>3. IsFiniteSet(DOMAIN spawns')
    BY <2>2, FS_Interval
  <2>4. Begun(t)' = {i \in DOMAIN spawns' : spawns'[i] \in Window(t)}
    BY DEF Begun, Window
  <2>5. FetchesIn(Window(t))' = Cardinality({i \in DOMAIN spawns' : spawns'[i] \in Window(t)})
    BY DEF FetchesIn, Window
  <2> QED
    BY <1>1, <2>3, <2>4, <2>5, BegunGrows, FS_Subset
<1>6. CASE flight.started \in Window(t)
  <2> DEFINE S == AskedIn(t) \cap flight.batch
  <2>1. Cardinality(Begun(t)) < Cardinality(S)
    BY <1>1, <1>6 DEF Covers, FlightCovers
  <2>2. Cardinality(S) \in Nat /\ Cardinality(Key) \in Nat /\ Cardinality(S) <= Cardinality(Key)
    BY <1>3, KeysFinite
  <2>3. Cardinality(Begun(t)') <= Cardinality(S)
    BY <1>4, <1>5, <1>6, <2>1, <2>2
  <2>4. FetchesIn(Window(t))' <= Cardinality(Key)
    BY <1>4, <1>5, <1>6, <2>2, <2>3
  <2>5. t - clock < TTL
    BY <1>2, <1>6 DEF Window
  <2>6. EntryCovers(t)'
    BY <1>1, <1>3, <2>3, <2>5 DEF EntryCovers
  <2> QED
    BY <1>1, <2>4, <2>6 DEF Covers, FlightCovers
<1>7. CASE flight.started \notin Window(t)
  <2>1. Cardinality(Begun(t)') = Cardinality(Begun(t))
    BY <1>4, <1>5, <1>7
  <2>2. ASSUME clock <= t PROVE Begun(t) = {}
    <3>1. t - flight.started >= TTL
      BY <1>2, <1>7, <2>2 DEF Window, TypeOK
    <3>2. \A i \in DOMAIN spawns : spawns[i] \in Nat /\ spawns[i] <= flight.started
      <4>1. \A i \in DOMAIN spawns : spawns[i] \in Nat
        <5>1. spawns \in Seq(Times) /\ Times \subseteq Nat
          BY QueryCacheAssumption DEF TypeOK, Times
        <5>2. DOMAIN spawns = 1..Len(spawns)
          BY <5>1
        <5>3. \A i \in 1..Len(spawns) : spawns[i] \in Times
          BY <5>1
        <5> QED
          BY <5>1, <5>2, <5>3
      <4>2. \A i \in DOMAIN spawns : spawns[i] <= flight.started
        BY <1>1 DEF Past
      <4> QED
        BY <4>1, <4>2
    <3> QED
      BY <1>2, <3>1, <3>2 DEF Begun, Window
  <2>3. EntryCovers(t)'
    <3>1. ASSUME clock <= t
          PROVE  Cardinality(Begun(t)') = 0 /\ Begun(t)' = {}
      BY <1>5, <2>1, <2>2, <3>1, FS_EmptySet
    <3>2. Cardinality(AskedIn(t)' \cap entry'.keys) \in Nat
      BY <1>3, KeysFinite
    <3> QED
      BY <1>1, <3>1, <3>2 DEF EntryCovers
  <2>4. FetchesIn(Window(t))' <= Cardinality(Key)
    BY <1>4, <1>5, <2>1 DEF Covers
  <2> QED
    BY <1>1, <2>3, <2>4 DEF Covers, FlightCovers
<1> QED
  BY <1>6, <1>7

LEMMA LoadInit ==
    IsFiniteSet(Key) /\ Init => LoadInv
<1> SUFFICES ASSUME IsFiniteSet(Key), Init PROVE LoadInv
  OBVIOUS
<1>1. AskedSome /\ Past /\ ~Locked
  BY DEF Init, AskedSome, Past, Locked, Never
<1>2. ASSUME NEW t \in Times PROVE Covers(t)
  <2>1. Begun(t) = {} /\ FetchesIn(Window(t)) = 0
    BY FS_EmptySet DEF Init, Begun, FetchesIn
  <2>2. AskedIn(t) \cap entry.keys = {} /\ Cardinality(Begun(t)) = 0
    BY <2>1, FS_EmptySet DEF Init, EmptySlot
  <2>3. Cardinality(Key) \in Nat
    BY FS_CardinalityType
  <2> QED
    BY <1>1, <2>1, <2>2, <2>3, FS_EmptySet DEF Covers, EntryCovers, FlightCovers
<1> QED
  BY <1>1, <1>2 DEF LoadInv, Covers

LEMMA LoadStep ==
    IsFiniteSet(Key) /\ {} \notin Requests /\ IInv /\ LoadInv /\ [Next]_vars => LoadInv'
<1> SUFFICES ASSUME IsFiniteSet(Key), {} \notin Requests, IInv, LoadInv, [Next]_vars
             PROVE  LoadInv'
  OBVIOUS
<1>1. TypeOK /\ OneInLock /\ FlightTrue /\ AskedSome /\ Past
  BY DEF IInv, LoadInv
<1>2. ASSUME NEW t \in Times PROVE Covers(t)'
  <2>1. Covers(t)
    BY DEF LoadInv, Covers
  <2> QED
    BY <1>1, <2>1, QuietSteps, QuietCovers, HitCovers, BeginCovers, EndCovers
<1> QED
  BY <1>1, <1>2, AskedSomeStep, PastStep DEF LoadInv, Covers, Times

\* The load on the controller, for every number of handles and every interleaving of
\* their polls: in a window of TTL the commands that are begun, and run to their end,
\* are at most one for each job.  A query about no job at all does not get here:
\* QueryText!ParseCsv gives a cached query at least one key.
THEOREM FetchesAreFew ==
    ASSUME IsFiniteSet(Key), {} \notin Requests
    PROVE  Spec => []FewFetches
<1>1. LoadInv => FewFetches
  BY DEF LoadInv, Covers, FewFetches
<1> QED
  BY <1>1, LoadInit, LoadStep, InductiveInvariant, PTL DEF Spec

-----------------------------------------------------------------------------
(* The registry and the batches. *)

\* The registry knows the last request of each key, but for those that are too old.
RegistryTrue ==
    \A k \in Key :
        /\ polled[k] # Never => polled[k] <= clock
        /\ recent[k] # Never => recent[k] = polled[k]
        /\ recent[k] = Never /\ polled[k] # Never => clock - polled[k] >= 2 * TTL

LEMMA StampedIsPolled ==
    ASSUME TypeOK, RegistryTrue, NEW c \in Caller, Polled(asked[c]), NEW k \in Key
    PROVE  /\ polled'[k] # Never => polled'[k] <= clock
           /\ Stamped(asked[c])[k] # Never => Stamped(asked[c])[k] = polled'[k]
           /\ Stamped(asked[c])[k] = Never /\ polled'[k] # Never => clock - polled'[k] >= 2 * TTL
  BY QueryCacheAssumption DEF TypeOK, RegistryTrue, Polled, Stamped, Times, Never

\* What retain() drops is what nobody wants any more.
LEMMA RetainedIsPolled ==
    ASSUME TypeOK, RegistryTrue, NEW c \in Caller, BeginFetch(c), NEW k \in Key
    PROVE  /\ polled'[k] # Never => polled'[k] <= clock
           /\ recent'[k] # Never => recent'[k] = polled'[k]
           /\ recent'[k] = Never /\ polled'[k] # Never => clock - polled'[k] >= 2 * TTL
           /\ recent'[k] # Never => clock - polled'[k] < 2 * TTL
<1> DEFINE st == Stamped(asked[c])
<1>1. /\ polled'[k] # Never => polled'[k] <= clock
      /\ st[k] # Never => st[k] = polled'[k]
      /\ st[k] = Never /\ polled'[k] # Never => clock - polled'[k] >= 2 * TTL
  BY StampedIsPolled DEF BeginFetch
<1>2. recent'[k] = IF st[k] # Never /\ clock - st[k] < 2 * TTL THEN st[k] ELSE Never
  BY DEF BeginFetch, Retained
<1>3. st[k] \in Int /\ clock \in Int /\ polled'[k] \in Int /\ TTL \in Int
  BY StampedType, PolledType, QueryCacheAssumption DEF TypeOK, Times, Never, BeginFetch
<1> HIDE DEF st
<1> QED
  BY <1>1, <1>2, <1>3

\* A batch is made of what the registry has left.
LEMMA BatchIsWanted ==
    ASSUME TypeOK, RegistryTrue, NEW c \in Caller, BeginFetch(c)
    PROVE  flight'.batch = asked[c] \cup {k \in Key : Wanted(k)'}
<1>1. flight'.batch = asked[c] \cup {k \in Key : recent'[k] # Never}
  BY DEF BeginFetch, Registered
<1>2. flight'.started = clock
  BY DEF BeginFetch
<1>3. ASSUME NEW k \in Key PROVE recent'[k] # Never <=> Wanted(k)'
  <2>1. polled'[k] \in Int /\ clock \in Int /\ TTL \in Int
    BY PolledType, QueryCacheAssumption DEF TypeOK, Times, Never, BeginFetch
  <2> QED
    BY <1>2, <2>1, RetainedIsPolled DEF Wanted
<1> QED
  BY <1>1, <1>3

\* Only a request that gets the lock changes the registry, and time makes it older.
LEMMA RegistryStep == TypeOK /\ RegistryTrue /\ [Next]_vars => RegistryTrue'
<1> SUFFICES ASSUME TypeOK, RegistryTrue, [Next]_vars PROVE RegistryTrue'
  OBVIOUS
<1>1. ASSUME recent' = recent, polled' = polled, clock' \in {clock, clock + 1}
      PROVE  RegistryTrue'
  BY <1>1, QueryCacheAssumption DEF TypeOK, RegistryTrue, Times, Never
<1>2. ASSUME NEW c \in Caller, Hit(c) PROVE RegistryTrue'
  BY <1>2, StampedIsPolled DEF Hit, RegistryTrue
<1>3. ASSUME NEW c \in Caller, BeginFetch(c) PROVE RegistryTrue'
  <2>1. clock' = clock
    BY <1>3 DEF BeginFetch
  <2> QED
    BY <1>3, <2>1, RetainedIsPolled DEF RegistryTrue
<1>4. CASE Tick
  BY <1>1, <1>4 DEF Tick, slot
<1>5. CASE UNCHANGED vars
  BY <1>1, <1>5 DEF vars
<1>6. ASSUME NEW k \in Key, Submit(k) \/ Leave(k) PROVE RegistryTrue'
  BY <1>1, <1>6 DEF Submit, Leave, slot
<1>7. ASSUME NEW c \in Caller, NEW K \in Requests, Request(c, K) PROVE RegistryTrue'
  BY <1>1, <1>7 DEF Request, slot
<1>8. ASSUME NEW c \in Caller, Sample(c) \/ SampleFails(c) \/ EndFetch(c) PROVE RegistryTrue'
  BY <1>1, <1>8 DEF Sample, SampleFails, EndFetch, slot
<1>9. ASSUME NEW c \in Caller, CancelQueued(c) \/ CancelFetch(c) PROVE RegistryTrue'
  BY <1>1, <1>9 DEF CancelQueued, CancelFetch, slot
<1> QED
  BY <1>2, <1>3, <1>4, <1>5, <1>6, <1>7, <1>8, <1>9 DEF Next

\* While a command is under way, nobody else gets the lock, and so no request is
\* stamped.
LEMMA BatchStays ==
    ASSUME TypeOK, BatchIsCurrent,
           \A c \in Caller : InLock(c)' => InLock(c) /\ asked'[c] = asked[c],
           flight'.batch = flight.batch, flight'.started = flight.started, polled' = polled
    PROVE  BatchIsCurrent'
<1>1. \A k \in Key : Wanted(k)' <=> Wanted(k)
  BY DEF Wanted
<1> QED
  BY <1>1 DEF BatchIsCurrent, InLock

LEMMA BatchStep ==
    TypeOK /\ OneInLock /\ RegistryTrue /\ BatchIsCurrent /\ [Next]_vars => BatchIsCurrent'
<1> SUFFICES ASSUME TypeOK, OneInLock, RegistryTrue, BatchIsCurrent, [Next]_vars
             PROVE  BatchIsCurrent'
  OBVIOUS
<1>1. ASSUME NEW c \in Caller, BeginFetch(c) PROVE BatchIsCurrent'
  <2>1. \A d \in Caller : InLock(d)' => d = c
    BY <1>1 DEF TypeOK, BeginFetch, AcquiresLock, Locked, InLock
  <2>2. asked' = asked
    BY <1>1 DEF BeginFetch
  <2> QED
    BY <1>1, <2>1, <2>2, BatchIsWanted DEF BatchIsCurrent, InLock
<1>2. ASSUME NEW c \in Caller, Hit(c) PROVE BatchIsCurrent'
  <2>1. \A d \in Caller : ~InLock(d)'
    BY <1>2 DEF TypeOK, Hit, AcquiresLock, Locked, InLock
  <2> QED
    BY <2>1 DEF BatchIsCurrent, InLock
<1>3. ASSUME NEW c \in Caller, EndFetch(c) \/ CancelFetch(c) PROVE BatchIsCurrent'
  <2>1. \A d \in Caller : ~InLock(d)'
    BY <1>3 DEF TypeOK, EndFetch, CancelFetch, OneInLock, InLock
  <2> QED
    BY <2>1 DEF BatchIsCurrent, InLock
<1>4. CASE Tick \/ UNCHANGED vars
  BY <1>4, BatchStays DEF Tick, vars, slot, InLock
<1>5. ASSUME NEW k \in Key, Submit(k) \/ Leave(k) PROVE BatchIsCurrent'
  BY <1>5, BatchStays DEF Submit, Leave, slot, InLock
<1>6. ASSUME NEW c \in Caller, NEW K \in Requests, Request(c, K) PROVE BatchIsCurrent'
  BY <1>6, BatchStays DEF TypeOK, Request, slot, InLock
<1>7. ASSUME NEW c \in Caller, Sample(c) \/ SampleFails(c) PROVE BatchIsCurrent'
  BY <1>7, BatchStays DEF TypeOK, Sample, SampleFails, slot, InLock
<1>8. ASSUME NEW c \in Caller, CancelQueued(c) PROVE BatchIsCurrent'
  BY <1>8, BatchStays DEF TypeOK, CancelQueued, slot, InLock
<1> QED
  BY <1>1, <1>2, <1>3, <1>4, <1>5, <1>6, <1>7, <1>8 DEF Next

\* For every TTL, whatever was answered, failed or cancelled: a command asks for its
\* caller and exactly the jobs that were asked about within 2 * TTL, so that nobody who
\* goes on polling falls out of the batches and nobody who has stopped stays in.
THEOREM BatchesAreCurrent == Spec => []BatchIsCurrent
<1>1. Init => TypeOK /\ OneInLock /\ RegistryTrue /\ BatchIsCurrent
  BY QueryCacheAssumption
  DEF Init, TypeOK, Times, NoAnswer, EmptySlot, NoFlight, Never, OneInLock, RegistryTrue,
      BatchIsCurrent, InLock
<1> QED
  BY <1>1, TypeStep, OneInLockStep, RegistryStep, BatchStep, PTL DEF Spec

=============================================================================
