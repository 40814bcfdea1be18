--------------------------- MODULE WaitPollsProofs ---------------------------
(***************************************************************************)
(* Proofs about the waits that share one QueryCache, for every number of   *)
(* handles, every interval and every cap.                                  *)
(*                                                                         *)
(* A wait is one user of the cache among others: WSpec implements Spec, so *)
(* all that QueryCacheProofs shows of the cache holds with the waits on    *)
(* it.  StreakInv counts the failures: every failed poll of a streak is    *)
(* answered by a command younger than those before it, for as long as the  *)
(* waits sleep at least as long as the cache replays.                      *)
(***************************************************************************)
EXTENDS WaitPolls, QueryCacheProofs

\* Each step of a wait is one of the cache, or leaves it alone.
LEMMA WStepIsStep ==
    ASSUME [WNext]_allvars
    PROVE  [Next]_vars
<1>1. ASSUME NEW c \in Caller, PollBegins(c) PROVE Next
  <2>1. JobOf[c] \in Requests /\ Request(c, JobOf[c])
    BY <1>1, WaitPollsAssumption DEF PollBegins
  <2> QED
    BY <2>1 DEF Next
<1>2. ASSUME NEW c \in Caller, PollEnds(c) \/ WaitDropped(c) PROVE Next
  BY <1>2 DEF PollEnds, WaitDropped, Next
<1>3. ASSUME NEW c \in Caller, BeginFetch(c) \/ Sample(c) \/ SampleFails(c) PROVE Next
  BY <1>3 DEF Next
<1>4. CASE Tick \/ \E k \in Key : Submit(k) \/ Leave(k)
  BY <1>4 DEF Next
<1>5. ASSUME NEW c \in Caller, Call(c) PROVE UNCHANGED vars
  BY <1>5 DEF Call
<1>6. CASE UNCHANGED allvars
  BY <1>6 DEF allvars
<1> QED
  BY <1>1, <1>2, <1>3, <1>4, <1>5, <1>6 DEF WNext

\* The handles that wait are callers of the cache like any other.
THEOREM WaitsUseTheCache == WSpec => Spec
<1>1. WInit => Init
  BY DEF WInit
<1> QED
  BY <1>1, WStepIsStep, PTL DEF WSpec, Spec

\* With waits on it, too, the cache keeps its types, runs few commands for the jobs that
\* are polled, shows no job as missing that is still listed, and gives only answers that
\* the oracle could give.
THEOREM WaitsKeepTheCachesPromises ==
    ASSUME IsFiniteSet(Key), {} \notin Requests
    PROVE  WSpec => /\ []TypeOK /\ []FewFetches /\ []BatchIsCurrent
                    /\ []NoFabricatedVanish /\ ImplementsOracle
  BY WaitsUseTheCache, TypeCorrect, FetchesAreFew, BatchesAreCurrent, NoVanishIsFabricated,
     CacheImplementsOracle, PTL

-----------------------------------------------------------------------------
(* A streak of failures. *)

WTypeOK ==
    /\ wait \in [Caller -> {"none", "on", "ended", "gave up", "dropped"}]
    /\ fails \in [Caller -> Nat]
    /\ due \in [Caller -> Nat]
    /\ blame \in [Caller -> SUBSET Nat]

\* A handle asks only in a wait, when its sleep is over.
AsksWhenDue(c) == pc[c] # "idle" => wait[c] = "on" /\ clock >= due[c]

\* The failures counted are of as many commands, and each ended a sleep ago.
StreakCounted(c) ==
    /\ IsFiniteSet(blame[c]) /\ Cardinality(blame[c]) = fails[c]
    /\ \A t \in blame[c] : t + Poll <= due[c]

Streak(c) ==
    /\ AsksWhenDue(c)
    /\ StreakCounted(c)
    /\ wait[c] = "gave up" => fails[c] >= FailureCap

StreakInv == WTypeOK /\ \A c \in Caller : Streak(c)

\* The intervals with which a failure is never counted twice: a wait sleeps, and for
\* at least as long as the cache replays an entry.
SleepsLongEnough == Poll > 0 /\ Poll >= TTL

\* What a step does that ends no poll of c.
Bystands(c) ==
    /\ fails'[c] = fails[c] /\ blame'[c] = blame[c] /\ due'[c] = due[c]
    /\ clock' = clock \/ clock' = clock + 1
    /\ wait'[c] # "gave up" \/ wait'[c] = wait[c]
    /\ pc'[c] # "idle" => /\ pc[c] # "idle" \/ (wait[c] = "on" /\ clock >= due[c])
                          /\ wait'[c] = wait[c]

LEMMA StreakStays ==
    ASSUME TypeOK, WTypeOK, NEW c \in Caller, Streak(c), Bystands(c)
    PROVE  Streak(c)'
<1>1. clock \in Int
  BY QueryCacheAssumption DEF TypeOK, Times
<1>2. due[c] \in Nat
  BY DEF WTypeOK
<1>3. AsksWhenDue(c)'
  <2>1. ASSUME pc'[c] # "idle" PROVE wait'[c] = "on" /\ clock >= due[c]
    BY <2>1 DEF Streak, AsksWhenDue, Bystands
  <2>2. clock >= due[c] => clock' >= due'[c]
    <3>1. due'[c] = due[c] /\ (clock' = clock \/ clock' = clock + 1)
      BY DEF Bystands
    <3> QED
      BY <1>1, <1>2, <3>1
  <2> QED
    BY <2>1, <2>2 DEF AsksWhenDue
<1>4. StreakCounted(c)'
  BY DEF Streak, StreakCounted, Bystands
<1> QED
  BY <1>3, <1>4 DEF Streak, Bystands

\* An answer comes from a command that ended after every one that is blamed.
LEMMA AnswerIsNews ==
    ASSUME SleepsLongEnough, IInv, StreakInv, NEW c \in Caller, Hit(c) \/ EndFetch(c)
    PROVE  /\ entry'.at \in Nat /\ entry'.at <= clock
           /\ \A t \in blame[c] : t < entry'.at
<1> USE QueryCacheAssumption, WaitPollsAssumption
<1>1. clock \in Nat /\ entry.at \in Nat /\ Poll \in Nat /\ TTL \in Nat
  BY DEF IInv, TypeOK, Times
<1>2. due[c] \in Nat /\ \A t \in blame[c] : t \in Nat
  BY DEF StreakInv, WTypeOK
<1>3. \A t \in blame[c] : t + Poll <= due[c]
  BY DEF StreakInv, Streak, StreakCounted
<1>4. entry.at <= clock
  BY DEF IInv, EntryTrue
<1>5. clock >= due[c]
  BY DEF Hit, EndFetch, AcquiresLock, StreakInv, Streak, AsksWhenDue
<1>6. CASE Hit(c)
  <2>1. clock - entry.at < TTL /\ entry' = entry
    BY <1>6 DEF Hit, Replayable, Fresh
  <2> QED
    BY <1>1, <1>2, <1>3, <1>4, <1>5, <2>1 DEF SleepsLongEnough
<1>7. CASE EndFetch(c)
  <2>1. entry'.at = clock
    BY <1>7 DEF EndFetch, CachedEntry
  <2> QED
    BY <1>1, <1>2, <1>3, <1>5, <2>1 DEF SleepsLongEnough
<1> QED
  BY <1>6, <1>7

\* The end of a poll adds a command to the streak, or ends the streak.
LEMMA PollEndsStreak ==
    ASSUME SleepsLongEnough, IInv, StreakInv, NEW c \in Caller, PollEnds(c)
    PROVE  StreakInv'
<1> USE WaitPollsAssumption
<1> DEFINE at == entry'.at
           failed == answer'[c].kind = "failure"
<1>1. TypeOK /\ WTypeOK /\ \A d \in Caller : Streak(d)
  BY DEF IInv, StreakInv
<1>2. clock \in Nat /\ at \in Nat /\ at <= clock /\ \A t \in blame[c] : t < at
  BY <1>1, AnswerIsNews DEF PollEnds, TypeOK, Times
<1>3. /\ clock' = clock
      /\ pc'[c] = "idle" /\ pc[c] # "idle"
      /\ \A d \in Caller : d # c => pc'[d] = pc[d]
  <2>1. clock' = clock /\ pc' = [pc EXCEPT ![c] = "idle"]
    BY DEF PollEnds, Hit, EndFetch
  <2>2. pc[c] # "idle"
    BY DEF PollEnds, Hit, EndFetch, AcquiresLock
  <2> QED
    BY <1>1, <2>1, <2>2 DEF TypeOK
<1>4. wait[c] = "on"
  BY <1>1, <1>3 DEF Streak, AsksWhenDue
<1>5. due' = [due EXCEPT ![c] = clock + Poll]
  BY DEF PollEnds, Counted
<1>6. clock + Poll \in Nat /\ fails[c] \in Nat /\ fails[c] + 1 \in Nat
      /\ \A t \in blame[c] : t \in Nat
  <2>1. fails[c] \in Nat /\ \A t \in blame[c] : t \in Nat
    BY <1>1 DEF WTypeOK
  <2> QED
    BY <1>2, <2>1
<1>7. ASSUME WTypeOK', StreakCounted(c)', wait'[c] = "gave up" => fails'[c] >= FailureCap,
             \A d \in Caller : d # c => /\ blame'[d] = blame[d] /\ fails'[d] = fails[d]
                                        /\ wait'[d] = wait[d]
      PROVE  StreakInv'
  <2>1. Streak(c)'
    BY <1>3, <1>7 DEF Streak, AsksWhenDue
  <2>2. ASSUME NEW d \in Caller, d # c PROVE Streak(d)'
    <3>1. due'[d] = due[d]
      BY <1>1, <1>5, <2>2 DEF WTypeOK
    <3> QED
      BY <1>1, <1>3, <1>7, <2>2, <3>1, StreakStays DEF Bystands
  <2> QED
    BY <1>7, <2>1, <2>2 DEF StreakInv
<1> HIDE DEF at, failed
<1>8. CASE failed
  <2>1. /\ fails' = [fails EXCEPT ![c] = @ + 1]
        /\ blame' = [blame EXCEPT ![c] = @ \cup {at}]
        /\ wait' = IF fails[c] + 1 >= FailureCap
                   THEN [wait EXCEPT ![c] = "gave up"] ELSE wait
    BY <1>8 DEF PollEnds, Counted, at, failed
  <2>2. WTypeOK'
    <3>1. blame[c] \cup {at} \in SUBSET Nat
      BY <1>2, <1>6
    <3> QED
      BY <1>1, <1>5, <1>6, <2>1, <3>1 DEF WTypeOK
  <2>3. IsFiniteSet(blame[c] \cup {at}) /\ Cardinality(blame[c] \cup {at}) = fails[c] + 1
    <3>1. at \notin blame[c]
      BY <1>2, <1>6
    <3> QED
      BY <1>1, <3>1, FS_AddElement DEF Streak, StreakCounted
  <2>4. \A t \in blame[c] \cup {at} : t + Poll <= clock + Poll
    BY <1>2, <1>6
  <2>5. blame'[c] = blame[c] \cup {at} /\ fails'[c] = fails[c] + 1 /\ due'[c] = clock + Poll
    BY <1>1, <1>5, <2>1 DEF WTypeOK
  <2>6. StreakCounted(c)'
    BY <2>3, <2>4, <2>5 DEF StreakCounted
  <2>7. wait'[c] = "gave up" => fails'[c] >= FailureCap
    BY <1>4, <2>1, <2>5
  <2>8. \A d \in Caller : d # c => /\ blame'[d] = blame[d] /\ fails'[d] = fails[d]
                                   /\ wait'[d] = wait[d]
    BY <1>1, <2>1 DEF WTypeOK
  <2> QED
    BY <1>7, <2>2, <2>6, <2>7, <2>8
<1>9. CASE ~failed
  <2>1. PICK end \in {wait[c], "ended"} :
           /\ fails' = [fails EXCEPT ![c] = 0] /\ blame' = [blame EXCEPT ![c] = {}]
           /\ wait' = [wait EXCEPT ![c] = end]
    BY <1>9 DEF PollEnds, Counted, failed
  <2>2. WTypeOK'
    BY <1>1, <1>4, <1>5, <1>6, <2>1 DEF WTypeOK
  <2>3. blame'[c] = {} /\ fails'[c] = 0 /\ wait'[c] # "gave up"
    BY <1>1, <1>4, <2>1 DEF WTypeOK
  <2>4. StreakCounted(c)'
    BY <2>3, FS_EmptySet DEF StreakCounted
  <2>5. \A d \in Caller : d # c => /\ blame'[d] = blame[d] /\ fails'[d] = fails[d]
                                   /\ wait'[d] = wait[d]
    BY <1>1, <2>1 DEF WTypeOK
  <2> QED
    BY <1>7, <2>2, <2>3, <2>4, <2>5
<1> QED
  BY <1>8, <1>9

LEMMA StreakStep ==
    SleepsLongEnough /\ IInv /\ StreakInv /\ [WNext]_allvars => StreakInv'
<1> SUFFICES ASSUME SleepsLongEnough, IInv, StreakInv, [WNext]_allvars PROVE StreakInv'
  OBVIOUS
<1>1. TypeOK /\ WTypeOK /\ \A d \in Caller : Streak(d)
  BY DEF IInv, StreakInv
<1>2. ASSUME UNCHANGED waits, clock' = clock \/ clock' = clock + 1,
             \A d \in Caller : pc'[d] # "idle" =>
                 pc[d] # "idle" \/ (wait[d] = "on" /\ clock >= due[d])
      PROVE  StreakInv'
  <2>1. WTypeOK'
    BY <1>1, <1>2 DEF WTypeOK, waits
  <2>2. ASSUME NEW d \in Caller PROVE Streak(d)'
    BY <1>1, <1>2, StreakStays DEF waits, Bystands
  <2> QED
    BY <2>1, <2>2 DEF StreakInv
<1>3. CASE (Tick \/ \E k \in Key : Submit(k) \/ Leave(k)) /\ UNCHANGED waits
  <2>1. pc' = pc /\ (clock' = clock \/ clock' = clock + 1)
    BY <1>3 DEF Tick, Submit, Leave
  <2> QED
    BY <1>2, <1>3, <2>1
<1>4. CASE UNCHANGED allvars
  BY <1>2, <1>4 DEF allvars, vars
<1>5. ASSUME NEW c \in Caller, PollBegins(c) PROVE StreakInv'
  BY <1>1, <1>2, <1>5 DEF PollBegins, Request, TypeOK
<1>6. ASSUME NEW c \in Caller, BeginFetch(c) \/ Sample(c) \/ SampleFails(c), UNCHANGED waits
      PROVE  StreakInv'
  BY <1>1, <1>2, <1>6 DEF BeginFetch, AcquiresLock, Sample, SampleFails, TypeOK
<1>7. ASSUME NEW c \in Caller, NEW w \in {"on", "dropped"},
             wait' = [wait EXCEPT ![c] = w], UNCHANGED <<fails, due, blame, clock>>,
             pc'[c] = "idle" /\ \A d \in Caller : d # c => pc'[d] = pc[d]
      PROVE  StreakInv'
  <2>1. WTypeOK'
    BY <1>1, <1>7 DEF WTypeOK
  <2>2. ASSUME NEW d \in Caller PROVE Streak(d)'
    <3>1. wait'[d] = (IF d = c THEN w ELSE wait[d])
      BY <1>1, <1>7 DEF WTypeOK
    <3> QED
      BY <1>1, <1>7, <3>1, StreakStays DEF Bystands
  <2> QED
    BY <2>1, <2>2 DEF StreakInv
<1>8. ASSUME NEW c \in Caller, Call(c) PROVE StreakInv'
  <2>1. pc[c] = "idle"
    BY <1>1, <1>8 DEF Call, Streak, AsksWhenDue
  <2> QED
    BY <1>7, <1>8, <2>1 DEF Call, vars
<1>9. ASSUME NEW c \in Caller, WaitDropped(c) PROVE StreakInv'
  BY <1>1, <1>7, <1>9 DEF WaitDropped, CancelQueued, CancelFetch, TypeOK
<1> QED
  BY <1>3, <1>4, <1>5, <1>6, <1>8, <1>9, PollEndsStreak DEF WNext

\* What gives up has counted as many failed commands as polls.
THEOREM StreaksAreCounted ==
    ASSUME SleepsLongEnough
    PROVE  WSpec => []StreakInv
<1>1. WInit => StreakInv
  <2> SUFFICES ASSUME WInit PROVE StreakInv
    OBVIOUS
  <2>1. WTypeOK
    BY DEF WInit, WTypeOK
  <2>2. ASSUME NEW c \in Caller PROVE Streak(c)
    BY FS_EmptySet DEF WInit, Init, Streak, AsksWhenDue, StreakCounted
  <2> QED
    BY <2>1, <2>2 DEF StreakInv
<1>2. WSpec => []IInv
  BY WaitsUseTheCache, InductiveInvariant, PTL
<1> QED
  BY <1>1, <1>2, StreakStep, PTL DEF WSpec

\* A single hiccup does not end a wait, whatever else the handles of the manager ask:
\* the failures it counts are of different commands.  With a sleep shorter than the
\* TTL one failure is counted several times (the run wait_hiccup).
THEOREM HiccupIsSurvived ==
    ASSUME SleepsLongEnough, FailureCap > 1
    PROVE  WSpec => []HiccupSurvived
<1>1. ASSUME StreakInv, NEW c \in Caller, wait[c] = "gave up"
      PROVE  Cardinality(blame[c]) > 1
  <2>1. Cardinality(blame[c]) = fails[c] /\ fails[c] >= FailureCap
    BY <1>1 DEF StreakInv, Streak, StreakCounted
  <2>2. fails[c] \in Nat
    BY <1>1 DEF StreakInv, WTypeOK
  <2> QED
    BY <2>1, <2>2, WaitPollsAssumption
<1>2. StreakInv => HiccupSurvived
  BY <1>1 DEF HiccupSurvived
<1> QED
  BY <1>2, StreaksAreCounted, PTL
=============================================================================
