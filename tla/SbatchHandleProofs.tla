------------------------- MODULE SbatchHandleProofs -------------------------
(***************************************************************************)
(* Proofs about SbatchHandle for any number of callers in any role, every  *)
(* failure cap and every number of requeues, failures, killed commands and *)
(* dropped futures.                                                        *)
(***************************************************************************)
EXTENDS SbatchHandle, TLAPS

BudgetType == [{"requeues", "faults", "glitches", "drops"} -> Nat]

\* What the commands answer, now or from a cache, was once true.
RowsReal ==
    /\ job \in reached
    /\ acct \in reached \cup {"none"}
    /\ \A s \in Source : cache[s] \in reached \cup {"none", "no row", "failure"}

RealInv == TypeOK /\ RowsReal /\ FinishedIsReal

-----------------------------------------------------------------------------

LEMMA SpendType ==
    ASSUME budget \in BudgetType,
           NEW what \in {"requeues", "faults", "glitches", "drops"}, Spend(what)
    PROVE  budget' \in BudgetType
BY DEF Spend, BudgetType

\* The answer to a command has a type, and a row in it is real.
LEMMA AskReal ==
    ASSUME TypeOK, RowsReal, NEW s \in Source, NEW a \in Answers, Ask(s, a),
           UNCHANGED slurm
    PROVE  /\ cache' \in [Source -> Answer]
           /\ budget' \in BudgetType
           /\ a \in JobState => a \in reached
           /\ RowsReal'
<1>1. budget \in BudgetType
  BY DEF TypeOK, BudgetType
<1>2. CASE cache[s] # "none" /\ a = cache[s] /\ UNCHANGED <<cache, budget>>
  BY <1>1, <1>2 DEF TypeOK, RowsReal, slurm, JobState
<1>3. CASE /\ cache[s] = "none" /\ Live(s, a)
           /\ cache' = IF s \in Cached THEN [cache EXCEPT ![s] = a] ELSE cache
  <2>1. budget' \in BudgetType
    BY <1>1, <1>3, SpendType DEF Live
  <2>2. a \in reached \cup {"no row", "failure"}
    BY <1>3 DEF Live, Truth, RowsReal
  <2>3. a \in Answer
    BY DEF Answer
  <2>4. cache' \in [Source -> Answer]
    BY <1>3, <2>3 DEF TypeOK
  <2>5. RowsReal'
    BY <1>3, <2>2 DEF RowsReal, TypeOK, slurm
  <2> QED
    BY <2>1, <2>2, <2>4, <2>5 DEF JobState
<1> QED
  BY <1>2, <1>3 DEF Ask

-----------------------------------------------------------------------------

ResultType == JobState \cup {"none", "ok", "error", "missing", "dropped"}

\* The part of TypeOK that is about the calls ...
CallType ==
    /\ pc \in [Caller -> {"idle", "lock", "qgroup", "squeue", "save", "publish",
                         "sleep", "lock2", "squeue2", "sacct", "save2",
                         "publish2"}]
    /\ op \in [Caller -> {"none", "refresh", "finalize", "wait", "run", "run2"}]
    /\ snap \in [Caller -> Lifecycle]
    /\ fails \in [Caller -> 0 .. FailureCap - 1]
    /\ result \in [Caller -> ResultType]

\* ... and the rest.
WorldType ==
    /\ job \in JobState
    /\ reached \subseteq JobState
    /\ listed \in [Listing -> BOOLEAN]
    /\ acct \in JobState \cup {"none"}
    /\ cache \in [Source -> Answer]
    /\ budget \in BudgetType
    /\ watch \in Lifecycle
    /\ store \in Lifecycle
    /\ orphans \subseteq Lifecycle
    /\ holder \in Caller \cup {NoOne}

LEMMA TypeParts == TypeOK <=> WorldType /\ CallType
BY DEF TypeOK, WorldType, CallType, BudgetType, ResultType

LEMMA TypePartsPrimed == TypeOK' <=> WorldType' /\ CallType'
BY DEF TypeOK, WorldType, CallType, BudgetType, ResultType

LEMMA NewLifecycleType == NewLifecycle \in Lifecycle
BY DEF NewLifecycle, Lifecycle, NotFinished

LEMMA ReturnType ==
    ASSUME CallType, NEW c \in Caller, NEW r \in ResultType, Return(c, r),
           op' \in [Caller -> {"none", "refresh", "finalize", "wait", "run", "run2"}]
    PROVE  CallType'
<1>1. pc' \in [Caller -> {"idle", "lock", "qgroup", "squeue", "save", "publish",
                         "sleep", "lock2", "squeue2", "sacct", "save2",
                         "publish2"}]
  BY DEF CallType, Return, Go
<1>2. snap' \in [Caller -> Lifecycle]
  BY NewLifecycleType DEF CallType, Return, Forget
<1>3. fails' \in [Caller -> 0 .. FailureCap - 1]
  BY SbatchHandleAssumption DEF CallType, Return
<1>4. result' \in [Caller -> ResultType]
  BY DEF CallType, Return
<1> QED
  BY <1>1, <1>2, <1>3, <1>4 DEF CallType

LEMMA SleepType ==
    ASSUME CallType, NEW c \in Caller, NEW n \in 0 .. FailureCap - 1, Sleep(c, n),
           UNCHANGED op
    PROVE  CallType'
<1>1. snap' \in [Caller -> Lifecycle]
  BY NewLifecycleType DEF CallType, Sleep, Forget
<1> QED
  BY <1>1 DEF CallType, Sleep, Go

LEMMA RefreshFailsType ==
    ASSUME CallType, NEW c \in Caller, RefreshFails(c), UNCHANGED op
    PROVE  CallType' /\ holder' = NoOne
<1>1. op' \in [Caller -> {"none", "refresh", "finalize", "wait", "run", "run2"}]
  BY DEF CallType
<1>2. "error" \in ResultType
  BY DEF ResultType
<1>3. CASE Return(c, "error")
  BY <1>1, <1>2, <1>3, ReturnType DEF RefreshFails
<1>4. CASE fails[c] + 1 < FailureCap /\ Sleep(c, fails[c] + 1)
  <2>1. fails[c] + 1 \in 0 .. FailureCap - 1
    BY <1>4, SbatchHandleAssumption DEF CallType
  <2> QED
    BY <1>4, <2>1, SleepType DEF RefreshFails
<1> QED
  BY <1>3, <1>4 DEF RefreshFails

LEMMA FinalizedType ==
    ASSUME CallType, NEW c \in Caller, Finalized(c, snap[c]), UNCHANGED op
    PROVE  CallType' /\ holder' = NoOne
<1> DEFINE r == CASE op[c] = "finalize" -> "ok"
                  [] IsFinished(snap[c]) -> snap[c].fin.state
                  [] OTHER -> "missing"
<1>1. snap[c].fin.state \in ResultType
  BY DEF CallType, Lifecycle, ResultType
<1>2. r \in ResultType
  BY <1>1 DEF ResultType
<1>3. Return(c, r) /\ holder' = NoOne
  BY DEF Finalized
<1>4. op' \in [Caller -> {"none", "refresh", "finalize", "wait", "run", "run2"}]
  BY DEF CallType
<1> HIDE DEF r
<1> QED
  BY <1>2, <1>3, <1>4, ReturnType

LEMMA ToSaveType ==
    ASSUME CallType, NEW c \in Caller, NEW s \in Lifecycle, ToSave(c, s), UNCHANGED op
    PROVE  CallType' /\ UNCHANGED holder
BY DEF CallType, ToSave, Go

LEMMA ResolveType ==
    ASSUME CallType, NEW c \in Caller, NEW st \in JobState, NEW code \in BOOLEAN,
           Resolve(c, st, code), UNCHANGED op
    PROVE  CallType' /\ holder' \in {holder, NoOne}
<1>1. Stamped(c, st, code) \in Lifecycle /\ RolledBack(c, st) \in Lifecycle
  BY DEF CallType, Lifecycle, Stamped, RolledBack
<1>2. CASE Finalized(c, snap[c])
  BY <1>2, FinalizedType
<1>3. CASE ToSave(c, RolledBack(c, st))
  BY <1>1, <1>3, ToSaveType
<1>4. CASE ToSave(c, Stamped(c, st, code))
  BY <1>1, <1>4, ToSaveType
<1> QED
  BY <1>2, <1>3, <1>4 DEF Resolve

LEMMA AfterRefreshType ==
    ASSUME CallType, NEW c \in Caller, AfterRefresh(c)
    PROVE  CallType'
<1> DEFINE s == snap[c]
           Ops == {"none", "refresh", "finalize", "wait", "run", "run2"}
<1>1. op' \in [Caller -> Ops]
  BY DEF AfterRefresh, CallType
<1>2. {"ok", "missing", s.fin.state} \subseteq ResultType
  BY DEF CallType, Lifecycle, ResultType
<1>3. CASE Return(c, "ok")
  BY <1>1, <1>2, <1>3, ReturnType
<1>4. CASE Return(c, IF IsFinished(s) THEN s.fin.state ELSE "missing")
  BY <1>1, <1>2, <1>4, ReturnType
<1>5. CASE Go(c, "lock2") /\ UNCHANGED <<op, snap, fails, result>>
  BY <1>5 DEF CallType, Go
<1>6. CASE Sleep(c, 0) /\ UNCHANGED op
  BY <1>6, SleepType, SbatchHandleAssumption
<1>7. CASE Go(c, "lock") /\ Forget(c) /\ UNCHANGED <<fails, result>>
  <2>1. snap' \in [Caller -> Lifecycle]
    BY <1>7, NewLifecycleType DEF CallType, Forget
  <2> QED
    BY <1>1, <1>7, <2>1 DEF CallType, Go
<1> QED
  BY <1>3, <1>4, <1>5, <1>6, <1>7 DEF AfterRefresh

LEMMA CallerTypeStep ==
    ASSUME TypeOK, RowsReal, NEW c \in Caller, Step(c)
    PROVE  TypeOK'
<1>1. WorldType /\ CallType
  BY TypeParts
<1>2. CASE Lock(c)
  <2>1. CallType'
    BY <1>1, <1>2 DEF Lock, Go, CallType, WorldType
  <2>2. WorldType'
    BY <1>1, <1>2 DEF Lock, WorldType, slurm, disk
  <2> QED
    BY <2>1, <2>2, TypePartsPrimed
<1>3. CASE QueryQgroup(c)
  <2>1. PICK a \in Answers :
          /\ Ask("qgroup", a)
          /\ \/ a \in JobState /\ Observe(c, a) /\ Go(c, "save")
             \/ a \notin JobState /\ Go(c, "squeue") /\ UNCHANGED snap
    BY <1>3 DEF QueryQgroup
  <2>2. CallType'
    <3>1. snap' \in [Caller -> Lifecycle]
      BY <1>1, <2>1 DEF Observe, CallType, Lifecycle
    <3> QED
      BY <1>1, <1>3, <2>1, <3>1 DEF QueryQgroup, Go, CallType
  <2>3. WorldType'
    BY <1>1, <1>3, <2>1, AskReal DEF QueryQgroup, WorldType, slurm, disk, Source
  <2> QED
    BY <2>2, <2>3, TypePartsPrimed
<1>4. CASE QuerySqueue(c)
  <2>1. PICK a \in Answers :
          /\ Ask("squeue", a)
          /\ \/ /\ a \in JobState /\ Observe(c, a) /\ Go(c, "save")
                /\ UNCHANGED <<holder, fails, result>>
             \/ /\ a = "no row" /\ Vanish(c) /\ Go(c, "save")
                /\ UNCHANGED <<holder, fails, result>>
             \/ a = "failure" /\ RefreshFails(c)
    BY <1>4 DEF QuerySqueue
  <2>2. CASE RefreshFails(c)
    <3>1. CallType' /\ holder' = NoOne
      BY <1>1, <1>4, <2>2, RefreshFailsType DEF QuerySqueue
    <3>2. WorldType'
      BY <1>1, <1>4, <2>1, <3>1, AskReal DEF QuerySqueue, WorldType, slurm, disk, Source
    <3> QED
      BY <3>1, <3>2, TypePartsPrimed
  <2>3. CASE /\ \/ a \in JobState /\ Observe(c, a)
                \/ Vanish(c)
             /\ Go(c, "save")
             /\ UNCHANGED <<holder, fails, result>>
    <3>1. snap' \in [Caller -> Lifecycle]
      <4>1. a \in JobState => [snap[c] EXCEPT !.last = a] \in Lifecycle
        BY <1>1 DEF CallType, Lifecycle
      <4>2. [snap[c] EXCEPT !.left = TRUE] \in Lifecycle
        BY <1>1 DEF CallType, Lifecycle
      <4> QED
        BY <1>1, <2>3, <4>1, <4>2 DEF Observe, Vanish, CallType
    <3>2. CallType'
      BY <1>1, <1>4, <2>3, <3>1 DEF QuerySqueue, Go, CallType
    <3>3. WorldType'
      BY <1>1, <1>4, <2>1, <2>3, AskReal DEF QuerySqueue, WorldType, slurm, disk, Source
    <3> QED
      BY <3>2, <3>3, TypePartsPrimed
  <2> QED
    BY <2>1, <2>2, <2>3
<1>5. CASE Save(c)
  <2>1. CallType'
    BY <1>1, <1>5 DEF Save, Go, CallType
  <2>2. WorldType'
    BY <1>1, <1>5 DEF Save, WorldType, CallType, slurm
  <2> QED
    BY <2>1, <2>2, TypePartsPrimed
<1>6. CASE SaveFails(c)
  <2>1. budget' \in BudgetType
    BY <1>1, <1>6, SpendType DEF SaveFails, WorldType
  <2>2. RefreshFails(c) => CallType' /\ holder' = NoOne
    BY <1>1, <1>6, RefreshFailsType DEF SaveFails
  <2>3. holder' = NoOne /\ Return(c, "error") => CallType'
    <3>1. op' \in [Caller -> {"none", "refresh", "finalize", "wait", "run", "run2"}]
      BY <1>1, <1>6 DEF SaveFails, CallType
    <3>2. "error" \in ResultType
      BY DEF ResultType
    <3> QED
      BY <1>1, <3>1, <3>2, ReturnType
  <2>4. CallType' /\ holder' = NoOne
    BY <1>6, <2>2, <2>3 DEF SaveFails
  <2>5. WorldType'
    BY <1>1, <1>6, <2>1, <2>4 DEF SaveFails, WorldType, slurm, disk
  <2> QED
    BY <2>4, <2>5, TypePartsPrimed
<1>7. CASE Publish(c)
  <2>1. CallType'
    BY <1>1, <1>7, AfterRefreshType DEF Publish
  <2>2. WorldType'
    BY <1>1, <1>7 DEF Publish, WorldType, CallType, slurm, disk
  <2> QED
    BY <2>1, <2>2, TypePartsPrimed
<1>8. CASE Wake(c)
  <2>1. CallType'
    BY <1>1, <1>8 DEF Wake, Go, CallType
  <2>2. WorldType'
    BY <1>1, <1>8 DEF Wake, WorldType, slurm, disk
  <2> QED
    BY <2>1, <2>2, TypePartsPrimed
<1>9. CASE Lock2(c)
  <2>1. CallType'
    BY <1>1, <1>9 DEF Lock2, Go, CallType
  <2>2. WorldType'
    BY <1>1, <1>9 DEF Lock2, WorldType, slurm, disk
  <2> QED
    BY <2>1, <2>2, TypePartsPrimed
<1>10. CASE QuerySqueue2(c)
  <2>1. PICK a \in Answers :
          /\ Ask("squeue", a)
          /\ \/ a \in JobState /\ Resolve(c, a, FALSE)
             \/ /\ a = "no row" /\ Go(c, "sacct")
                /\ UNCHANGED <<holder, snap, fails, result>>
             \/ a = "failure" /\ holder' = NoOne /\ Return(c, "error")
    BY <1>10 DEF QuerySqueue2
  <2>2. UNCHANGED <<slurm, watch, disk, op>>
    BY <1>10 DEF QuerySqueue2
  <2>3. CallType' /\ holder' \in {holder, NoOne}
    <3>1. CASE a \in JobState /\ Resolve(c, a, FALSE)
      BY <1>1, <2>2, <3>1, ResolveType
    <3>2. CASE Go(c, "sacct") /\ UNCHANGED <<holder, snap, fails, result>>
      BY <1>1, <2>2, <3>2 DEF CallType, Go
    <3>3. CASE holder' = NoOne /\ Return(c, "error")
      <4>1. op' \in [Caller -> {"none", "refresh", "finalize", "wait", "run", "run2"}]
        BY <1>1, <2>2 DEF CallType
      <4>2. "error" \in ResultType
        BY DEF ResultType
      <4> QED
        BY <1>1, <3>3, <4>1, <4>2, ReturnType
    <3> QED
      BY <2>1, <3>1, <3>2, <3>3
  <2>4. WorldType'
    BY <1>1, <2>1, <2>2, <2>3, AskReal DEF WorldType, slurm, disk, Source
  <2> QED
    BY <2>3, <2>4, TypePartsPrimed
<1>11. CASE QuerySacct(c)
  <2>1. PICK a \in Answers :
          /\ Ask("sacct", a)
          /\ \/ a \in JobState /\ Resolve(c, a, TRUE)
             \/ a = "no row" /\ Resolve(c, "Unknown", FALSE)
             \/ a = "failure" /\ holder' = NoOne /\ Return(c, "error")
    BY <1>11 DEF QuerySacct
  <2>2. UNCHANGED <<slurm, watch, disk, op>>
    BY <1>11 DEF QuerySacct
  <2>3. CallType' /\ holder' \in {holder, NoOne}
    <3>1. CASE a \in JobState /\ Resolve(c, a, TRUE)
      BY <1>1, <2>2, <3>1, ResolveType
    <3>2. CASE Resolve(c, "Unknown", FALSE)
      BY <1>1, <2>2, <3>2, ResolveType DEF JobState
    <3>3. CASE holder' = NoOne /\ Return(c, "error")
      <4>1. op' \in [Caller -> {"none", "refresh", "finalize", "wait", "run", "run2"}]
        BY <1>1, <2>2 DEF CallType
      <4>2. "error" \in ResultType
        BY DEF ResultType
      <4> QED
        BY <1>1, <3>3, <4>1, <4>2, ReturnType
    <3> QED
      BY <2>1, <3>1, <3>2, <3>3
  <2>4. WorldType'
    BY <1>1, <2>1, <2>2, <2>3, AskReal DEF WorldType, slurm, disk, Source
  <2> QED
    BY <2>3, <2>4, TypePartsPrimed
<1>12. CASE Publish2(c)
  <2>1. CallType' /\ holder' = NoOne
    BY <1>1, <1>12, FinalizedType DEF Publish2
  <2>2. WorldType'
    BY <1>1, <1>12, <2>1 DEF Publish2, WorldType, CallType, slurm, disk
  <2> QED
    BY <2>1, <2>2, TypePartsPrimed
<1> QED
  BY <1>2, <1>3, <1>4, <1>5, <1>6, <1>7, <1>8, <1>9, <1>10, <1>11, <1>12 DEF Step

LEMMA DropType ==
    ASSUME TypeOK, NEW c \in Caller, Drop(c)
    PROVE  TypeOK'
<1>1. WorldType /\ CallType
  BY TypeParts
<1>2. Return(c, "dropped") /\ UNCHANGED op
  BY DEF Drop
<1>3. CallType'
  <2>1. op' \in [Caller -> {"none", "refresh", "finalize", "wait", "run", "run2"}]
    BY <1>1, <1>2 DEF CallType
  <2>2. "dropped" \in ResultType
    BY DEF ResultType
  <2> QED
    BY <1>1, <1>2, <2>1, <2>2, ReturnType
<1>4. budget' \in BudgetType
  BY <1>1, SpendType DEF Drop, WorldType
<1>5. orphans' \subseteq Lifecycle
  BY <1>1 DEF Drop, WorldType, CallType
<1>6. WorldType'
  BY <1>1, <1>4, <1>5 DEF Drop, WorldType, slurm
<1> QED
  BY <1>3, <1>6, TypePartsPrimed

LEMMA BeginType ==
    ASSUME TypeOK, NEW c \in Caller,
           NEW o \in {"refresh", "finalize", "wait", "run"}, Begin(c, o)
    PROVE  TypeOK'
<1>1. WorldType /\ CallType
  BY TypeParts
<1>2. CallType'
  BY <1>1 DEF Begin, Go, CallType, ResultType
<1>3. WorldType'
  BY <1>1 DEF Begin, WorldType, slurm, disk
<1> QED
  BY <1>2, <1>3, TypePartsPrimed

LEMMA EnvironmentType ==
    ASSUME TypeOK, Environment
    PROVE  TypeOK'
<1>1. WorldType /\ CallType
  BY TypeParts
<1>2. UNCHANGED call
  BY DEF Environment, JobStarts, JobStops, Requeue, Flush, LateSave, Purge, Expire
<1>3. CallType'
  BY <1>1, <1>2 DEF CallType, call
<1>4. CASE JobStarts \/ JobStops
  BY <1>1, <1>3, <1>4, TypePartsPrimed, SbatchHandleAssumption
  DEF JobStarts, JobStops, Become, WorldType, JobState, disk
<1>5. CASE Requeue
  <2>1. budget' \in BudgetType
    BY <1>1, <1>5, SpendType DEF Requeue, WorldType
  <2> QED
    BY <1>1, <1>3, <1>5, <2>1, TypePartsPrimed
    DEF Requeue, Become, WorldType, JobState, disk
<1>6. CASE Flush
  BY <1>1, <1>3, <1>6, TypePartsPrimed DEF Flush, WorldType, disk
<1>7. CASE LateSave
  BY <1>1, <1>3, <1>7, TypePartsPrimed DEF LateSave, WorldType, slurm
<1>8. CASE \E s \in Listing : Purge(s)
  BY <1>1, <1>3, <1>8, TypePartsPrimed DEF Purge, WorldType, disk
<1>9. CASE \E s \in Source : Expire(s)
  BY <1>1, <1>3, <1>9, TypePartsPrimed DEF Expire, WorldType, disk, slurm, Answer
<1> QED
  BY <1>4, <1>5, <1>6, <1>7, <1>8, <1>9 DEF Environment

LEMMA TypeStep ==
    ASSUME TypeOK, RowsReal, [Next]_vars
    PROVE  TypeOK'
<1>1. CASE Environment
  BY <1>1, EnvironmentType
<1>2. CASE \E c \in Caller, o \in {"refresh", "finalize", "wait", "run"} : Begin(c, o)
  BY <1>2, BeginType
<1>3. CASE \E c \in Caller : Step(c)
  BY <1>3, CallerTypeStep
<1>4. CASE \E c \in Caller : Drop(c)
  BY <1>4, DropType
<1>5. CASE UNCHANGED vars
  BY <1>5 DEF TypeOK, vars, slurm, disk, call
<1> QED
  BY <1>1, <1>2, <1>3, <1>4, <1>5 DEF Next

-----------------------------------------------------------------------------
(* What is answered and recorded is real. *)

RealIn(s, R) == IsFinished(s) => s.fin.state \in R \cap Ended

LEMMA FinishedIsRealParts ==
    FinishedIsReal <=> /\ RealIn(watch, reached) /\ RealIn(store, reached)
                       /\ \A s \in orphans : RealIn(s, reached)
                       /\ \A c \in Caller : RealIn(snap[c], reached)
BY DEF FinishedIsReal, RealIn

LEMMA FinishedIsRealPartsPrimed ==
    FinishedIsReal' <=> /\ RealIn(watch', reached') /\ RealIn(store', reached')
                        /\ \A s \in orphans' : RealIn(s, reached')
                        /\ \A c \in Caller : RealIn(snap'[c], reached')
BY DEF FinishedIsReal, RealIn, IsFinished

LEMMA NewIsReal == ASSUME NEW R PROVE RealIn(NewLifecycle, R)
BY DEF RealIn, NewLifecycle, IsFinished

\* The end of a finalization: nothing is recorded but a final state in R.
LEMMA ResolveReal ==
    ASSUME TypeOK, NEW R, \A d \in Caller : RealIn(snap[d], R), NEW c \in Caller,
           NEW st \in JobState, NEW code \in BOOLEAN,
           code \/ st # "Unknown" => st \in R, Resolve(c, st, code)
    PROVE  \A d \in Caller : RealIn(snap'[d], R)
<1>1. snap \in [Caller -> Lifecycle]
  BY DEF TypeOK
<1>2. CASE Finalized(c, snap[c])
  BY <1>1, <1>2, NewIsReal DEF Finalized, Return, Forget
<1>3. CASE ToSave(c, RolledBack(c, st))
  <2>1. RealIn(RolledBack(c, st), R)
    BY <1>1 DEF RealIn, RolledBack, IsFinished, Lifecycle
  <2> QED
    BY <1>1, <1>3, <2>1 DEF ToSave
<1>4. CASE /\ IsTerminal(st) \/ (st = "Unknown" /\ code)
           /\ ToSave(c, Stamped(c, st, code))
  <2>1. st \in R \cap Ended
    BY <1>4 DEF IsTerminal, Ended
  <2>2. Stamped(c, st, code).fin.state = st
    BY <1>1 DEF Stamped, Lifecycle
  <2>3. RealIn(Stamped(c, st, code), R)
    BY <2>1, <2>2 DEF RealIn
  <2> QED
    BY <1>1, <1>4, <2>3 DEF ToSave
<1> QED
  BY <1>2, <1>3, <1>4 DEF Resolve

\* A step of a call leaves SLURM alone, and publishes or writes its own snapshot
\* only.
LEMMA CallerKeepsWorld ==
    ASSUME TypeOK, RowsReal, NEW c \in Caller, Step(c)
    PROVE  /\ RowsReal'
           /\ UNCHANGED <<slurm, orphans>>
           /\ watch' \in {watch, snap[c]}
           /\ store' \in {store, snap[c]}
<1>1. CASE QueryQgroup(c)
  BY <1>1, AskReal DEF QueryQgroup, disk, Source
<1>2. CASE QuerySqueue(c)
  BY <1>2, AskReal DEF QuerySqueue, disk, Source
<1>3. CASE QuerySqueue2(c)
  BY <1>3, AskReal DEF QuerySqueue2, disk, Source
<1>4. CASE QuerySacct(c)
  BY <1>4, AskReal DEF QuerySacct, disk, Source
<1>5. CASE \/ Lock(c) \/ Save(c) \/ SaveFails(c) \/ Publish(c)
           \/ Wake(c) \/ Lock2(c) \/ Publish2(c)
  <2>1. /\ UNCHANGED <<slurm, cache, orphans>>
        /\ watch' \in {watch, snap[c]}
        /\ store' \in {store, snap[c]}
    BY <1>5 DEF Lock, Save, SaveFails, Publish, Wake, Lock2, Publish2, disk
  <2> QED
    BY <2>1 DEF RowsReal, slurm
<1> QED
  BY <1>1, <1>2, <1>3, <1>4, <1>5 DEF Step

LEMMA ForgetReal ==
    ASSUME TypeOK, NEW R, \A d \in Caller : RealIn(snap[d], R), NEW c \in Caller,
           Forget(c)
    PROVE  \A d \in Caller : RealIn(snap'[d], R)
BY NewIsReal DEF TypeOK, Forget

LEMMA CallerSnapReal ==
    ASSUME TypeOK, RowsReal, FinishedIsReal, NEW c \in Caller, Step(c)
    PROVE  \A d \in Caller : RealIn(snap'[d], reached)
<1>1. /\ RealIn(watch, reached)
      /\ \A d \in Caller : RealIn(snap[d], reached)
  BY FinishedIsRealParts
<1>2. snap \in [Caller -> Lifecycle]
  BY DEF TypeOK
<1>3. \A a \in JobState : Observe(c, a) =>
         \A d \in Caller : RealIn(snap'[d], reached)
  BY <1>1, <1>2 DEF Observe, RealIn, IsFinished, Lifecycle
<1>4. Vanish(c) => \A d \in Caller : RealIn(snap'[d], reached)
  BY <1>1, <1>2 DEF Vanish, RealIn, IsFinished, Lifecycle
<1>5. RefreshFails(c) => Forget(c)
  BY DEF RefreshFails, Sleep, Return
<1>6. UNCHANGED snap => \A d \in Caller : RealIn(snap'[d], reached)
  BY <1>1
<1>7. CASE Lock(c)
  BY <1>1, <1>2, <1>7 DEF Lock
<1>8. CASE QueryQgroup(c)
  BY <1>3, <1>6, <1>8 DEF QueryQgroup
<1>9. CASE QuerySqueue(c)
  BY <1>1, <1>3, <1>4, <1>5, <1>9, ForgetReal DEF QuerySqueue
<1>10. CASE Save(c) \/ Wake(c) \/ Lock2(c)
  BY <1>6, <1>10 DEF Save, Wake, Lock2
<1>11. CASE SaveFails(c)
  BY <1>1, <1>5, <1>11, ForgetReal DEF SaveFails, Return
<1>12. CASE Publish(c)
  <2>1. Forget(c) \/ UNCHANGED snap
    BY <1>12 DEF Publish, AfterRefresh, Return, Sleep
  <2> QED
    BY <1>1, <1>6, <2>1, ForgetReal
<1>13. CASE QuerySqueue2(c)
  <2>1. PICK a \in Answers :
          /\ Ask("squeue", a)
          /\ \/ a \in JobState /\ Resolve(c, a, FALSE)
             \/ UNCHANGED snap
             \/ Forget(c)
    BY <1>13 DEF QuerySqueue2, Return
  <2>2. UNCHANGED slurm
    BY <1>13 DEF QuerySqueue2
  <2>3. a \in JobState => a \in reached
    BY <2>1, <2>2, AskReal DEF Source
  <2>4. a \in JobState /\ Resolve(c, a, FALSE) =>
           \A d \in Caller : RealIn(snap'[d], reached)
    BY <1>1, <2>3, ResolveReal
  <2> QED
    BY <1>1, <1>6, <2>1, <2>4, ForgetReal
<1>14. CASE QuerySacct(c)
  <2>1. PICK a \in Answers :
          /\ Ask("sacct", a)
          /\ \/ a \in JobState /\ Resolve(c, a, TRUE)
             \/ Resolve(c, "Unknown", FALSE)
             \/ Forget(c)
    BY <1>14 DEF QuerySacct, Return
  <2>2. UNCHANGED slurm
    BY <1>14 DEF QuerySacct
  <2>3. a \in JobState => a \in reached
    BY <2>1, <2>2, AskReal DEF Source
  <2>4. a \in JobState /\ Resolve(c, a, TRUE) =>
           \A d \in Caller : RealIn(snap'[d], reached)
    BY <1>1, <2>3, ResolveReal
  <2>5. Resolve(c, "Unknown", FALSE) =>
           \A d \in Caller : RealIn(snap'[d], reached)
    BY <1>1, ResolveReal DEF JobState
  <2> QED
    BY <1>1, <2>1, <2>4, <2>5, ForgetReal
<1>15. CASE Publish2(c)
  BY <1>1, <1>15, ForgetReal DEF Publish2, Finalized, Return
<1> QED
  BY <1>7, <1>8, <1>9, <1>10, <1>11, <1>12, <1>13, <1>14, <1>15 DEF Step

LEMMA RealGrows ==
    ASSUME NEW s, NEW R, NEW R2, R \subseteq R2, RealIn(s, R)
    PROVE  RealIn(s, R2)
BY DEF RealIn

LEMMA RealStep ==
    ASSUME RealInv, [Next]_vars
    PROVE  RowsReal' /\ FinishedIsReal'
<1> USE DEF RealInv
<1>0. /\ RealIn(watch, reached) /\ RealIn(store, reached)
      /\ \A s \in orphans : RealIn(s, reached)
      /\ \A d \in Caller : RealIn(snap[d], reached)
  BY FinishedIsRealParts
<1>1. CASE \E c \in Caller : Step(c)
  <2>1. PICK c \in Caller : Step(c)
    BY <1>1
  <2>2. /\ RowsReal' /\ UNCHANGED <<reached, orphans>>
        /\ watch' \in {watch, snap[c]} /\ store' \in {store, snap[c]}
    BY <2>1, CallerKeepsWorld DEF slurm
  <2>3. \A d \in Caller : RealIn(snap'[d], reached)
    BY <2>1, CallerSnapReal
  <2>4. RealIn(watch', reached') /\ RealIn(store', reached')
    BY <1>0, <2>2
  <2> QED
    BY <1>0, <2>2, <2>3, <2>4, FinishedIsRealPartsPrimed
<1>2. CASE \E c \in Caller : Drop(c)
  <2>1. PICK c \in Caller : Drop(c)
    BY <1>2
  <2>2. /\ UNCHANGED <<slurm, cache, watch, store>>
        /\ orphans' \subseteq orphans \cup {snap[c]}
        /\ Forget(c)
    BY <2>1 DEF Drop, Return
  <2>3. RowsReal'
    BY <2>2 DEF RowsReal, slurm
  <2>4. \A d \in Caller : RealIn(snap'[d], reached)
    BY <1>0, <2>2, ForgetReal
  <2> QED
    BY <1>0, <2>2, <2>3, <2>4, FinishedIsRealPartsPrimed DEF slurm
<1>3. CASE \E c \in Caller, o \in {"refresh", "finalize", "wait", "run"} : Begin(c, o)
  <2>1. UNCHANGED <<slurm, cache, watch, disk, snap>>
    BY <1>3 DEF Begin
  <2> QED
    BY <1>0, <2>1, FinishedIsRealPartsPrimed DEF RowsReal, slurm, disk
<1>4. CASE Environment
  <2>1. UNCHANGED <<watch, snap>> /\ reached \subseteq reached'
    BY <1>4 DEF Environment, JobStarts, JobStops, Requeue, Flush, LateSave, Purge,
                Expire, Become, call, slurm
  <2>2. store' \in {store} \cup orphans /\ orphans' \subseteq orphans
    BY <1>4 DEF Environment, JobStarts, JobStops, Requeue, Flush, LateSave, Purge,
                Expire, disk
  <2>3. RowsReal'
    <3>1. job' \in reached'
      <4>1. CASE JobStarts \/ JobStops \/ Requeue
        BY <4>1 DEF JobStarts, JobStops, Requeue, Become
      <4>2. CASE ~(JobStarts \/ JobStops \/ Requeue)
        <5>1. UNCHANGED <<job, reached>>
          BY <1>4, <4>2 DEF Environment, Flush, LateSave, Purge, Expire, slurm
        <5> QED
          BY <5>1 DEF RowsReal
      <4> QED
        BY <4>1, <4>2
    <3>2. acct' \in reached' \cup {"none"}
      BY <1>4, <2>1 DEF Environment, JobStarts, JobStops, Requeue, Flush, LateSave,
                  Purge, Expire, slurm, RowsReal
    <3>3. \A s \in Source : cache'[s] \in {cache[s], "none"}
      <4>1. cache \in [Source -> Answer]
        BY DEF TypeOK
      <4>2. UNCHANGED cache \/ \E s \in Source : cache' = [cache EXCEPT ![s] = "none"]
        <5>1. CASE \E s \in Source : Expire(s)
          BY <5>1 DEF Expire
        <5>2. CASE ~\E s \in Source : Expire(s)
          BY <1>4, <5>2 DEF Environment, JobStarts, JobStops, Requeue, Flush,
                            LateSave, Purge
        <5> QED
          BY <5>1, <5>2
      <4> QED
        BY <4>1, <4>2
    <3> QED
      BY <2>1, <3>1, <3>2, <3>3 DEF RowsReal
  <2> QED
    BY <1>0, <2>1, <2>2, <2>3, RealGrows, FinishedIsRealPartsPrimed
<1>5. CASE UNCHANGED vars
  BY <1>0, <1>5, FinishedIsRealPartsPrimed DEF vars, slurm, disk, call, RowsReal
<1> QED
  BY <1>1, <1>2, <1>3, <1>4, <1>5 DEF Next

LEMMA RealInvInit == Init => RealInv
<1> SUFFICES ASSUME Init PROVE RealInv
  OBVIOUS
<1>1. TypeOK
  <2>1. budget \in BudgetType
    BY SbatchHandleAssumption DEF Init, BudgetType
  <2>2. CallType
    BY NewLifecycleType, SbatchHandleAssumption DEF Init, CallType, ResultType
  <2>3. WorldType
    BY <2>1, NewLifecycleType DEF Init, WorldType, JobState, Answer
  <2> QED
    BY <2>2, <2>3, TypeParts
<1>2. RowsReal
  BY DEF Init, RowsReal
<1>3. FinishedIsReal
  BY NewIsReal, FinishedIsRealParts DEF Init
<1> QED
  BY <1>1, <1>2, <1>3 DEF RealInv

THEOREM RealInvariant == Spec => []RealInv
<1>1. RealInv /\ [Next]_vars => RealInv'
  BY TypeStep, RealStep DEF RealInv
<1> QED
  BY <1>1, RealInvInit, PTL DEF Spec

\* Every variable keeps its type; in particular wait_terminal()'s counter stays
\* below MAX_CONSECUTIVE_REFRESH_FAILURES.
THEOREM TypeCorrect == Spec => []TypeOK
<1>1. RealInv => TypeOK
  BY DEF RealInv
<1> QED
  BY <1>1, RealInvariant, PTL

\* No outcome is recorded, on the watch channel, on disk or in a write still under
\* way, that is not a final state the job really reached.
THEOREM OutcomesAreReal == Spec => []FinishedIsReal
<1>1. RealInv => FinishedIsReal
  BY DEF RealInv
<1> QED
  BY <1>1, RealInvariant, PTL

-----------------------------------------------------------------------------
(* With one finalizing clone a recorded outcome stays.                     *)

SingleFinalizer == \A c, d \in Finalizer \cup Runner : c = d

Unlocked == {"idle", "lock", "sleep", "lock2"}
FirstHalf == {"qgroup", "squeue", "save", "publish"}
SecondHalf == {"lock2", "squeue2", "sacct", "save2", "publish2"}

\* Only a finalizing caller gets to the second half, and nothing is recorded while
\* it is there; in the first half a caller carries the outcome it has read.
Orderly(c) ==
    /\ pc[c] \notin Unlocked <=> holder = c
    /\ op[c] \in {"finalize", "run", "run2"} => c \in Finalizer \cup Runner
    /\ pc[c] \in SecondHalf => op[c] \in {"finalize", "run2"}
    /\ pc[c] \in FirstHalf => snap[c].fin = watch.fin
    /\ pc[c] \in SecondHalf => ~IsFinished(watch)
    /\ pc[c] \in {"lock2", "squeue2", "sacct"} => ~IsFinished(snap[c])

OrderlyInv == \A c \in Caller : Orderly(c)

\* What a step of one call leaves alone.
LEMMA StepFrame ==
    ASSUME TypeOK, OrderlyInv, NEW c \in Caller, Step(c) \/ Drop(c)
    PROVE  /\ \A d \in Caller \ {c} : /\ pc'[d] = pc[d] /\ snap'[d] = snap[d]
                                     /\ op'[d] = op[d]
           /\ \/ holder \in {c, NoOne} /\ holder' \in {c, NoOne}
              \/ UNCHANGED holder
           /\ pc[c] # "publish2" => watch'.fin = watch.fin
<1>1. /\ pc \in [Caller -> {"idle", "lock", "qgroup", "squeue", "save", "publish",
                           "sleep", "lock2", "squeue2", "sacct", "save2",
                           "publish2"}]
      /\ op \in [Caller -> {"none", "refresh", "finalize", "wait", "run", "run2"}]
      /\ snap \in [Caller -> Lifecycle]
  BY DEF TypeOK
<1>2. pc[c] \notin Unlocked <=> holder = c
  BY DEF OrderlyInv, Orderly
<1>3. \A d \in Caller \ {c} : /\ pc'[d] = pc[d] /\ snap'[d] = snap[d]
                             /\ op'[d] = op[d]
  <2>1. CASE Lock(c) \/ QueryQgroup(c) \/ QuerySqueue(c)
    BY <1>1, <2>1 DEF Lock, QueryQgroup, QuerySqueue, RefreshFails, Sleep, Return,
                      Forget, Go, Observe, Vanish
  <2>2. CASE Save(c) \/ SaveFails(c) \/ Wake(c) \/ Lock2(c) \/ Drop(c)
    BY <1>1, <2>2 DEF Save, SaveFails, Wake, Lock2, Drop, RefreshFails, Sleep, Return,
                      Forget, Go
  <2>3. CASE Publish(c)
    BY <1>1, <2>3 DEF Publish, AfterRefresh, Sleep, Return, Forget, Go
  <2>4. CASE QuerySqueue2(c) \/ QuerySacct(c) \/ Publish2(c)
    <3>1. \/ Go(c, "save2") \/ Go(c, "sacct") \/ Go(c, "idle")
      BY <2>4 DEF QuerySqueue2, QuerySacct, Publish2, Resolve, Finalized, ToSave, Return
    <3>2. \E s : snap' = [snap EXCEPT ![c] = s] \/ snap' = snap
      BY <2>4 DEF QuerySqueue2, QuerySacct, Publish2, Resolve, Finalized, ToSave,
                  Return, Forget
    <3>3. UNCHANGED op
      BY <2>4 DEF QuerySqueue2, QuerySacct, Publish2
    <3> QED
      BY <1>1, <3>1, <3>2, <3>3 DEF Go
  <2> QED
    BY <2>1, <2>2, <2>3, <2>4 DEF Step
<1>4. \/ holder \in {c, NoOne} /\ holder' \in {c, NoOne}
      \/ UNCHANGED holder
  <2>1. CASE Lock(c) \/ Lock2(c)
    BY <2>1 DEF Lock, Lock2
  <2>2. CASE Save(c) \/ Wake(c) \/ QueryQgroup(c)
    BY <2>2 DEF Save, Wake, QueryQgroup
  <2>3. CASE Drop(c)
    BY <2>3 DEF Drop
  <2>4. CASE SaveFails(c) \/ Publish(c) \/ Publish2(c)
    BY <1>2, <2>4 DEF SaveFails, Publish, Publish2, RefreshFails, Finalized, Unlocked
  <2>5. CASE QuerySqueue(c)
    BY <1>2, <2>5 DEF QuerySqueue, RefreshFails, Unlocked
  <2>6. CASE QuerySqueue2(c) \/ QuerySacct(c)
    BY <1>2, <2>6 DEF QuerySqueue2, QuerySacct, Resolve, Finalized, ToSave, Unlocked
  <2> QED
    BY <2>1, <2>2, <2>3, <2>4, <2>5, <2>6 DEF Step
<1>5. pc[c] # "publish2" => watch'.fin = watch.fin
  <2>1. CASE Publish(c)
    BY <2>1 DEF Publish, OrderlyInv, Orderly, FirstHalf
  <2>2. CASE Publish2(c)
    BY <2>2 DEF Publish2
  <2>3. CASE ~(Publish(c) \/ Publish2(c))
    BY <2>3 DEF Step, Lock, QueryQgroup, QuerySqueue, Save, SaveFails, Wake, Lock2,
                QuerySqueue2, QuerySacct, Drop
  <2> QED
    BY <2>1, <2>2, <2>3
<1> QED
  BY <1>3, <1>4, <1>5

\* The other calls stay in order ...
LEMMA OthersOrderly ==
    ASSUME SingleFinalizer, TypeOK, OrderlyInv, NEW c \in Caller, Step(c) \/ Drop(c),
           NEW d \in Caller \ {c}
    PROVE  Orderly(d)'
<1>1. /\ pc'[d] = pc[d] /\ snap'[d] = snap[d] /\ op'[d] = op[d]
      /\ holder' = d <=> holder = d
      /\ pc[c] # "publish2" => watch'.fin = watch.fin
  BY StepFrame, SbatchHandleAssumption
<1>2. Orderly(c) /\ Orderly(d)
  BY DEF OrderlyInv
<1>3. CASE pc[c] # "publish2"
  BY <1>1, <1>2, <1>3 DEF Orderly, IsFinished
<1>4. CASE pc[c] = "publish2"
  <2>1. holder = c /\ c \in Finalizer \cup Runner
    BY <1>2, <1>4 DEF Orderly, Unlocked, SecondHalf
  <2>2. pc[d] \notin FirstHalf
    BY <1>2, <2>1 DEF Orderly, Unlocked, FirstHalf
  <2>3. pc[d] \notin SecondHalf
    BY <1>2, <2>1 DEF Orderly, SingleFinalizer
  <2> QED
    BY <1>1, <1>2, <2>2, <2>3 DEF Orderly, SecondHalf
<1> QED
  BY <1>3, <1>4

\* A call that gives the lock back, to end or to sleep, is in order.
LEMMA RestIsOrderly ==
    ASSUME NEW c \in Caller, Orderly(c), holder' = NoOne, op'[c] = op[c],
           pc'[c] \in {"idle", "lock", "sleep"}
    PROVE  Orderly(c)'
BY SbatchHandleAssumption DEF Orderly, Unlocked, FirstHalf, SecondHalf

\* ... and so is the call that makes the step.
LEMMA SelfOrderly ==
    ASSUME TypeOK, OrderlyInv, NEW c \in Caller, Step(c)
    PROVE  Orderly(c)'
<1>1. /\ pc \in [Caller -> {"idle", "lock", "qgroup", "squeue", "save", "publish",
                           "sleep", "lock2", "squeue2", "sacct", "save2",
                           "publish2"}]
      /\ op \in [Caller -> {"none", "refresh", "finalize", "wait", "run", "run2"}]
      /\ snap \in [Caller -> Lifecycle]
  BY DEF TypeOK
<1>2. Orderly(c)
  BY DEF OrderlyInv
<1>3. NoOne # c
  BY SbatchHandleAssumption
<1>4. ASSUME RefreshFails(c), UNCHANGED op PROVE Orderly(c)'
  <2>1. holder' = NoOne /\ pc'[c] \in {"idle", "sleep"} /\ op'[c] = op[c]
    BY <1>1, <1>4 DEF RefreshFails, Sleep, Return, Go
  <2> QED
    BY <1>2, <2>1, RestIsOrderly
<1>5. ASSUME NEW r, holder' = NoOne, Return(c, r), UNCHANGED op PROVE Orderly(c)'
  <2>1. pc'[c] = "idle" /\ op'[c] = op[c]
    BY <1>1, <1>5 DEF Return, Go
  <2> QED
    BY <1>2, <1>5, <2>1, RestIsOrderly
<1>6. CASE Lock(c)
  BY <1>1, <1>2, <1>6 DEF Lock, Go, Orderly, Unlocked, FirstHalf, SecondHalf
<1>7. CASE QueryQgroup(c)
  <2>1. pc'[c] \in {"save", "squeue"} /\ snap'[c].fin = snap[c].fin
    BY <1>1, <1>7 DEF QueryQgroup, Go, Observe, Lifecycle
  <2>2. pc[c] = "qgroup" /\ UNCHANGED <<holder, op, watch>>
    BY <1>7 DEF QueryQgroup
  <2> QED
    BY <1>2, <2>1, <2>2 DEF Orderly, Unlocked, FirstHalf, SecondHalf
<1>8. CASE QuerySqueue(c)
  <2>1. pc[c] = "squeue" /\ UNCHANGED <<op, watch>>
    BY <1>8 DEF QuerySqueue
  <2>2. \/ RefreshFails(c)
        \/ /\ pc'[c] = "save" /\ snap'[c].fin = snap[c].fin
           /\ UNCHANGED holder
    <3>1. \A a : Observe(c, a) => snap'[c].fin = snap[c].fin
      BY <1>1 DEF Observe, Lifecycle
    <3>2. Vanish(c) => snap'[c].fin = snap[c].fin
      BY <1>1 DEF Vanish, Lifecycle
    <3> QED
      BY <1>1, <1>8, <3>1, <3>2 DEF QuerySqueue, Go
  <2>3. CASE UNCHANGED holder /\ pc'[c] = "save" /\ snap'[c].fin = snap[c].fin
    BY <1>2, <2>1, <2>3 DEF Orderly, Unlocked, FirstHalf, SecondHalf
  <2> QED
    BY <1>4, <2>1, <2>2, <2>3
<1>9. CASE Save(c)
  <2>1. /\ pc[c] = "save" => pc'[c] = "publish"
        /\ pc[c] = "save2" => pc'[c] = "publish2"
        /\ pc[c] \in {"save", "save2"}
        /\ UNCHANGED <<holder, op, snap, watch>>
    BY <1>1, <1>9 DEF Save, Go
  <2> QED
    BY <1>2, <2>1 DEF Orderly, Unlocked, FirstHalf, SecondHalf
<1>10. CASE SaveFails(c)
  BY <1>4, <1>5, <1>10 DEF SaveFails
<1>11. CASE Publish(c)
  <2>1. holder' = NoOne /\ watch' = snap[c] /\ AfterRefresh(c) /\ pc[c] = "publish"
    BY <1>11 DEF Publish
  <2>2. CASE /\ op[c] \in {"finalize", "run2"} /\ ToFinalize(snap[c])
             /\ Go(c, "lock2") /\ UNCHANGED <<op, snap, fails, result>>
    BY <1>1, <1>2, <1>3, <2>1, <2>2
    DEF Go, ToFinalize, Orderly, Unlocked, FirstHalf, SecondHalf, IsFinished
  <2>3. CASE /\ op[c] = "run"
             /\ op' = [op EXCEPT ![c] = "run2"]
             /\ Go(c, "lock")
    BY <1>1, <1>2, <1>3, <2>1, <2>3
    DEF Go, Orderly, Unlocked, FirstHalf, SecondHalf
  <2>4. CASE UNCHANGED op /\ pc'[c] \in {"idle", "sleep"}
    BY <1>2, <2>1, <2>4, RestIsOrderly
  <2> QED
    BY <1>1, <2>1, <2>2, <2>3, <2>4 DEF AfterRefresh, Return, Sleep, Go
<1>12. CASE Wake(c)
  BY <1>1, <1>2, <1>12 DEF Wake, Go, Orderly, Unlocked, FirstHalf, SecondHalf
<1>13. CASE Lock2(c)
  BY <1>1, <1>2, <1>3, <1>13 DEF Lock2, Go, Orderly, Unlocked, FirstHalf, SecondHalf
<1>14. ASSUME NEW st \in JobState, NEW code \in BOOLEAN, Resolve(c, st, code),
              UNCHANGED <<op, watch>>, pc[c] \in {"squeue2", "sacct"}
       PROVE  Orderly(c)'
  <2>1. CASE Finalized(c, snap[c])
    BY <1>5, <1>14, <2>1 DEF Finalized
  <2>2. CASE pc'[c] = "save2" /\ UNCHANGED holder
    BY <1>2, <1>14, <2>2 DEF Orderly, Unlocked, FirstHalf, SecondHalf
  <2> QED
    BY <1>1, <1>14, <2>1, <2>2 DEF Resolve, ToSave, Go
<1>15. CASE QuerySqueue2(c)
  <2>1. pc[c] = "squeue2" /\ UNCHANGED <<op, watch>>
    BY <1>15 DEF QuerySqueue2
  <2>2. CASE pc'[c] = "sacct" /\ UNCHANGED <<holder, snap>>
    BY <1>2, <2>1, <2>2 DEF Orderly, Unlocked, FirstHalf, SecondHalf
  <2> QED
    BY <1>1, <1>5, <1>14, <1>15, <2>1, <2>2 DEF QuerySqueue2, Go
<1>16. CASE QuerySacct(c)
  <2>1. pc[c] = "sacct" /\ UNCHANGED <<op, watch>>
    BY <1>16 DEF QuerySacct
  <2>2. "Unknown" \in JobState
    BY DEF JobState
  <2> QED
    BY <1>5, <1>14, <1>16, <2>1, <2>2 DEF QuerySacct
<1>17. CASE Publish2(c)
  BY <1>5, <1>17 DEF Publish2, Finalized
<1> QED
  BY <1>6, <1>7, <1>8, <1>9, <1>10, <1>11, <1>12, <1>13, <1>15, <1>16, <1>17 DEF Step

LEMMA OrderlyStep ==
    ASSUME SingleFinalizer, TypeOK, OrderlyInv, [Next]_vars
    PROVE  OrderlyInv'
<1>1. CASE \E c \in Caller : Step(c)
  BY <1>1, SelfOrderly, OthersOrderly DEF OrderlyInv
<1>2. CASE \E c \in Caller : Drop(c)
  <2>1. PICK c \in Caller : Drop(c)
    BY <1>2
  <2>2. Orderly(c)'
    <3>1. Orderly(c) /\ NoOne # c
      BY SbatchHandleAssumption DEF OrderlyInv
    <3>2. pc'[c] = "idle" /\ op'[c] = op[c] /\ holder' # c
      BY <2>1, <3>1 DEF Drop, Return, Go, TypeOK
    <3> QED
      BY <3>1, <3>2 DEF Orderly, Unlocked, FirstHalf, SecondHalf
  <2> QED
    BY <2>1, <2>2, OthersOrderly DEF OrderlyInv
<1>3. CASE \E c \in Caller, o \in {"refresh", "finalize", "wait", "run"} : Begin(c, o)
  <2>1. PICK c \in Caller, o \in {"refresh", "finalize", "wait", "run"} : Begin(c, o)
    BY <1>3
  <2>2. /\ pc[c] = "idle" /\ pc' = [pc EXCEPT ![c] = "lock"]
        /\ op' = [op EXCEPT ![c] = o] /\ Allowed(c, o)
        /\ UNCHANGED <<watch, holder, snap>>
    BY <2>1 DEF Begin, Go
  <2>3. /\ \A d \in Caller \ {c} : pc'[d] = pc[d] /\ op'[d] = op[d]
        /\ pc'[c] = "lock" /\ op'[c] = o
    BY <2>2 DEF TypeOK
  <2>4. Orderly(c)'
    BY <2>2, <2>3 DEF OrderlyInv, Orderly, Allowed, Unlocked, FirstHalf, SecondHalf
  <2>5. ASSUME NEW d \in Caller \ {c} PROVE Orderly(d)'
    BY <2>2, <2>3 DEF OrderlyInv, Orderly, IsFinished
  <2> QED
    BY <2>4, <2>5 DEF OrderlyInv
<1>4. CASE Environment \/ UNCHANGED vars
  <2>1. UNCHANGED <<watch, holder, call>>
    BY <1>4 DEF Environment, JobStarts, JobStops, Requeue, Flush, LateSave, Purge,
                Expire, vars
  <2> QED
    BY <2>1 DEF OrderlyInv, Orderly, call, IsFinished
<1> QED
  BY <1>1, <1>2, <1>3, <1>4 DEF Next

LEMMA OrderlyInit == Init => OrderlyInv
BY SbatchHandleAssumption DEF Init, OrderlyInv, Orderly, Unlocked, FirstHalf, SecondHalf

LEMMA OrderlyInvariant == ASSUME SingleFinalizer PROVE Spec => []OrderlyInv
<1>1. TypeOK /\ OrderlyInv /\ [Next]_vars => OrderlyInv'
  BY OrderlyStep
<1> QED
  BY <1>1, OrderlyInit, TypeCorrect, PTL DEF Spec

\* With a single finalizing clone a recorded outcome is never replaced or erased,
\* however refreshes, waits, failures and dropped futures overlap it.
THEOREM OutcomeIsFinal == ASSUME SingleFinalizer PROVE Spec => FinishedIsFinal
<1>1. Spec => []OrderlyInv
  BY OrderlyInvariant
<1>2. TypeOK /\ OrderlyInv /\ [Next]_vars
      => [IsFinished(watch) => watch'.fin = watch.fin]_vars
  <2> SUFFICES ASSUME TypeOK, OrderlyInv, [Next]_vars, IsFinished(watch)
               PROVE  watch'.fin = watch.fin
    OBVIOUS
  <2>1. CASE \E c \in Caller : Step(c) \/ Drop(c)
    <3>1. PICK c \in Caller : Step(c) \/ Drop(c)
      BY <2>1
    <3>2. pc[c] # "publish2"
      BY DEF OrderlyInv, Orderly, SecondHalf
    <3> QED
      BY <3>1, <3>2, StepFrame
  <2>2. CASE \/ \E c \in Caller, o \in {"refresh", "finalize", "wait", "run"} :
                   Begin(c, o)
             \/ Environment \/ UNCHANGED vars
    BY <2>2 DEF Begin, Environment, JobStarts, JobStops, Requeue, Flush, LateSave,
                Purge, Expire, vars
  <2> QED
    BY <2>1, <2>2 DEF Next
<1> QED
  BY <1>1, <1>2, TypeCorrect, PTL DEF Spec, FinishedIsFinal

-----------------------------------------------------------------------------
(* What refresh_lock and the order "save, then publish" give, and what a     *)
(* careful reading of squeue gives: who writes, what is on disk, and who may  *)
(* be told that the job is over.                                              *)

LEMMA CallParts ==
    ASSUME TypeOK
    PROVE  CallType /\ WorldType
BY TypeParts

\* A step of one call does not touch the locals of another.
LEMMA OthersUntouched ==
    ASSUME TypeOK, NEW c \in Caller, Step(c) \/ Drop(c), NEW d \in Caller \ {c}
    PROVE  /\ pc'[d] = pc[d] /\ snap'[d] = snap[d]
           /\ op'[d] = op[d] /\ result'[d] = result[d]
<1>1. CallType
  BY CallParts
<1>2. CASE Lock(c) \/ QueryQgroup(c) \/ QuerySqueue(c)
  BY <1>1, <1>2 DEF CallType, Lock, QueryQgroup, QuerySqueue, RefreshFails, Sleep,
                    Return, Forget, Go, Observe, Vanish
<1>3. CASE Save(c) \/ SaveFails(c) \/ Wake(c) \/ Lock2(c) \/ Drop(c)
  BY <1>1, <1>3 DEF CallType, Save, SaveFails, Wake, Lock2, Drop, RefreshFails, Sleep,
                    Return, Forget, Go
<1>4. CASE Publish(c)
  BY <1>1, <1>4 DEF CallType, Publish, AfterRefresh, Sleep, Return, Forget, Go
<1>5. CASE QuerySqueue2(c) \/ QuerySacct(c) \/ Publish2(c)
  <2>1. \/ Go(c, "save2") \/ Go(c, "sacct") \/ Go(c, "idle")
    BY <1>5 DEF QuerySqueue2, QuerySacct, Publish2, Resolve, Finalized, ToSave, Return
  <2>2. \E s : snap' = [snap EXCEPT ![c] = s] \/ snap' = snap
    BY <1>5 DEF QuerySqueue2, QuerySacct, Publish2, Resolve, Finalized, ToSave,
                Return, Forget
  <2>3. \E r : result' = [result EXCEPT ![c] = r] \/ result' = result
    BY <1>5 DEF QuerySqueue2, QuerySacct, Publish2, Resolve, Finalized, ToSave, Return
  <2>4. UNCHANGED op
    BY <1>5 DEF QuerySqueue2, QuerySacct, Publish2
  <2> QED
    BY <1>1, <2>1, <2>2, <2>3, <2>4 DEF CallType, Go
<1> QED
  BY <1>2, <1>3, <1>4, <1>5 DEF Step

\* Begin() touches the locals of one call, and none of what is shared.
LEMMA BeginFrame ==
    ASSUME TypeOK, NEW c \in Caller,
           NEW o \in {"refresh", "finalize", "wait", "run"}, Begin(c, o)
    PROVE  /\ UNCHANGED <<slurm, cache, budget, watch, disk, holder, snap>>
           /\ pc[c] = "idle" /\ pc'[c] = "lock" /\ op'[c] = o /\ result'[c] = "none"
           /\ \A d \in Caller \ {c} : /\ pc'[d] = pc[d] /\ op'[d] = op[d]
                                     /\ result'[d] = result[d]
BY CallParts DEF Begin, Go, CallType

\* The environment is no caller.
LEMMA EnvironmentFrame ==
    ASSUME Environment
    PROVE  UNCHANGED <<watch, holder, call>>
BY DEF Environment, JobStarts, JobStops, Requeue, Flush, LateSave, Purge, Expire

-----------------------------------------------------------------------------
(* refresh_lock. *)

Inside(c) == pc[c] \notin Unlocked <=> holder = c

LEMMA OneWriterIsInside == OneWriter <=> \A c \in Caller : Inside(c)
BY DEF OneWriter, Inside, Unlocked

LEMMA OneWriterIsInsidePrimed == OneWriter' <=> \A c \in Caller : Inside(c)'
BY DEF OneWriter, Inside, Unlocked

\* A call moves the lock between itself and nobody, and its own place with it.
LEMMA SelfInside ==
    ASSUME TypeOK, NEW c \in Caller, Inside(c), Step(c)
    PROVE  /\ Inside(c)'
           /\ \/ holder \in {c, NoOne} /\ holder' \in {c, NoOne}
              \/ UNCHANGED holder
<1>1. CallType
  BY CallParts
<1>2. NoOne # c
  BY SbatchHandleAssumption
<1>3. ASSUME holder = c, holder' = NoOne, pc'[c] \in Unlocked
      PROVE  /\ Inside(c)'
             /\ holder \in {c, NoOne} /\ holder' \in {c, NoOne}
  BY <1>2, <1>3 DEF Inside
<1>4. ASSUME holder = c, UNCHANGED holder, pc'[c] \notin Unlocked
      PROVE  Inside(c)'
  BY <1>4 DEF Inside
<1>5. RefreshFails(c) => holder' = NoOne /\ pc'[c] \in Unlocked
  BY <1>1 DEF CallType, RefreshFails, Sleep, Return, Go, Unlocked
<1>6. \A r : Return(c, r) => pc'[c] \in Unlocked
  BY <1>1 DEF CallType, Return, Go, Unlocked
<1>7. ASSUME NEW st, NEW code, Resolve(c, st, code)
      PROVE  \/ holder' = NoOne /\ pc'[c] \in Unlocked
             \/ UNCHANGED holder /\ pc'[c] \notin Unlocked
  BY <1>1, <1>6, <1>7 DEF CallType, Resolve, Finalized, ToSave, Go, Unlocked
<1>8. CASE Lock(c) \/ Lock2(c)
  BY <1>1, <1>2, <1>8 DEF CallType, Lock, Lock2, Go, Inside, Unlocked
<1>9. CASE Wake(c)
  BY <1>1, <1>9 DEF CallType, Wake, Go, Inside, Unlocked
<1>10. CASE QueryQgroup(c)
  <2>1. pc[c] \notin Unlocked /\ pc'[c] \notin Unlocked /\ UNCHANGED holder
    BY <1>1, <1>10 DEF CallType, QueryQgroup, Go, Unlocked
  <2> QED
    BY <1>4, <2>1 DEF Inside
<1>11. CASE QuerySqueue(c)
  <2>1. pc[c] \notin Unlocked
    BY <1>11 DEF QuerySqueue, Unlocked
  <2>2. RefreshFails(c) \/ (UNCHANGED holder /\ pc'[c] \notin Unlocked)
    BY <1>1, <1>11 DEF CallType, QuerySqueue, Go, Unlocked
  <2> QED
    BY <1>3, <1>4, <1>5, <2>1, <2>2 DEF Inside
<1>12. CASE Save(c)
  <2>1. pc[c] \notin Unlocked /\ pc'[c] \notin Unlocked /\ UNCHANGED holder
    BY <1>1, <1>12 DEF CallType, Save, Go, Unlocked
  <2> QED
    BY <1>4, <2>1 DEF Inside
<1>13. CASE SaveFails(c)
  <2>1. pc[c] \notin Unlocked
    BY <1>13 DEF SaveFails, Unlocked
  <2>2. RefreshFails(c) \/ (holder' = NoOne /\ Return(c, "error"))
    BY <1>13 DEF SaveFails
  <2> QED
    BY <1>3, <1>5, <1>6, <2>1, <2>2 DEF Inside
<1>14. CASE Publish(c)
  <2>1. pc[c] \notin Unlocked /\ holder' = NoOne /\ AfterRefresh(c)
    BY <1>14 DEF Publish, Unlocked
  <2>2. pc'[c] \in Unlocked
    BY <1>1, <1>6, <2>1 DEF CallType, AfterRefresh, Sleep, Go, Unlocked
  <2> QED
    BY <1>3, <2>1, <2>2 DEF Inside
<1>15. CASE QuerySqueue2(c)
  <2>1. pc[c] \notin Unlocked
    BY <1>15 DEF QuerySqueue2, Unlocked
  <2>2. \/ holder' = NoOne /\ pc'[c] \in Unlocked
        \/ UNCHANGED holder /\ pc'[c] \notin Unlocked
    BY <1>1, <1>6, <1>7, <1>15 DEF CallType, QuerySqueue2, Go, Unlocked
  <2> QED
    BY <1>3, <1>4, <2>1, <2>2 DEF Inside
<1>16. CASE QuerySacct(c)
  <2>1. pc[c] \notin Unlocked
    BY <1>16 DEF QuerySacct, Unlocked
  <2>2. \/ holder' = NoOne /\ pc'[c] \in Unlocked
        \/ UNCHANGED holder /\ pc'[c] \notin Unlocked
    BY <1>6, <1>7, <1>16 DEF QuerySacct
  <2> QED
    BY <1>3, <1>4, <2>1, <2>2 DEF Inside
<1>17. CASE Publish2(c)
  <2>1. pc[c] \notin Unlocked /\ holder' = NoOne
    BY <1>17 DEF Publish2, Finalized, Unlocked
  <2>2. pc'[c] \in Unlocked
    BY <1>6, <1>17 DEF Publish2, Finalized
  <2> QED
    BY <1>3, <2>1, <2>2 DEF Inside
<1> QED
  BY <1>8, <1>9, <1>10, <1>11, <1>12, <1>13, <1>14, <1>15, <1>16, <1>17 DEF Step

LEMMA OneWriterStep ==
    ASSUME TypeOK, OneWriter, [Next]_vars
    PROVE  OneWriter'
<1>0. \A c \in Caller : Inside(c) /\ NoOne # c
  BY OneWriterIsInside, SbatchHandleAssumption
<1>1. CASE \E c \in Caller : Step(c)
  <2>1. PICK c \in Caller : Step(c)
    BY <1>1
  <2>2. Inside(c)' /\ (\/ holder \in {c, NoOne} /\ holder' \in {c, NoOne}
                       \/ UNCHANGED holder)
    BY <1>0, <2>1, SelfInside
  <2>3. ASSUME NEW d \in Caller \ {c} PROVE Inside(d)'
    <3>1. pc'[d] = pc[d]
      BY <2>1, OthersUntouched
    <3>2. holder' = d <=> holder = d
      BY <1>0, <2>2
    <3> QED
      BY <1>0, <3>1, <3>2 DEF Inside
  <2> QED
    BY <2>2, <2>3, OneWriterIsInsidePrimed
<1>2. CASE \E c \in Caller : Drop(c)
  <2>1. PICK c \in Caller : Drop(c)
    BY <1>2
  <2>2. pc'[c] = "idle" /\ holder' = IF holder = c THEN NoOne ELSE holder
    BY <2>1, CallParts DEF Drop, Return, Go, CallType
  <2>3. Inside(c)'
    BY <1>0, <2>2 DEF Inside, Unlocked
  <2>4. ASSUME NEW d \in Caller \ {c} PROVE Inside(d)'
    <3>1. pc'[d] = pc[d]
      BY <2>1, OthersUntouched
    <3> QED
      BY <1>0, <2>2, <3>1 DEF Inside
  <2> QED
    BY <2>3, <2>4, OneWriterIsInsidePrimed
<1>3. CASE \E c \in Caller, o \in {"refresh", "finalize", "wait", "run"} : Begin(c, o)
  <2>1. PICK c \in Caller, o \in {"refresh", "finalize", "wait", "run"} : Begin(c, o)
    BY <1>3
  <2>2. /\ UNCHANGED holder /\ pc[c] = "idle" /\ pc'[c] = "lock"
        /\ \A d \in Caller \ {c} : pc'[d] = pc[d]
    BY <2>1, BeginFrame
  <2>3. \A d \in Caller : Inside(d)'
    BY <1>0, <2>2 DEF Inside, Unlocked
  <2> QED
    BY <2>3, OneWriterIsInsidePrimed
<1>4. CASE Environment \/ UNCHANGED vars
  <2>1. UNCHANGED <<holder, pc>>
    BY <1>4, EnvironmentFrame DEF vars, call
  <2>2. \A d \in Caller : Inside(d)'
    BY <1>0, <2>1 DEF Inside
  <2> QED
    BY <2>2, OneWriterIsInsidePrimed
<1> QED
  BY <1>1, <1>2, <1>3, <1>4 DEF Next

\* At any time at most the owner of refresh_lock is between its copy of the snapshot
\* and the publication of it, in whatever role and whichever calls are dropped.
THEOREM WritersAreOne == Spec => []OneWriter
<1>1. Init => OneWriter
  BY SbatchHandleAssumption DEF Init, OneWriter
<1>2. TypeOK /\ OneWriter /\ [Next]_vars => OneWriter'
  BY OneWriterStep
<1> QED
  BY <1>1, <1>2, TypeCorrect, PTL DEF Spec
-----------------------------------------------------------------------------
(* What is on disk. *)

Publishing == {"publish", "publish2"}

\* While no future has been dropped, the disk differs from the watch channel only
\* under a call that has saved and is about to publish, and it has that call's copy.
Kept ==
    /\ orphans = {}
    /\ \A c \in Caller : pc[c] \in Publishing => store = snap[c]
    /\ (\A c \in Caller : pc[c] \notin Publishing) => store = watch

KeptInv ==
    /\ budget.drops <= MaxDrops
    /\ budget.drops = MaxDrops => Kept

\* A step that spends no drop has had the disk kept up before it.
LEMMA DropsFall ==
    ASSUME TypeOK, [Next]_vars
    PROVE  /\ budget'.drops <= budget.drops
           /\ \A c \in Caller : Drop(c) => budget'.drops < budget.drops
<1> DEFINE NotMore == budget'.drops <= budget.drops
<1>1. budget \in BudgetType /\ MaxDrops \in Nat
  BY SbatchHandleAssumption DEF TypeOK, BudgetType
<1>2. \A what \in {"requeues", "faults", "glitches", "drops"} :
          Spend(what) => /\ NotMore
                         /\ what = "drops" => budget'.drops < budget.drops
  BY <1>1 DEF Spend, BudgetType
<1>3. UNCHANGED budget => NotMore
  BY <1>1 DEF BudgetType
<1>4. \A c \in Caller : Drop(c) => Spend("drops")
  BY DEF Drop
<1> HIDE DEF NotMore
<1>5. ASSUME NEW s, NEW a, Ask(s, a) PROVE NotMore
  <2>1. UNCHANGED budget \/ Spend("faults") \/ Spend("glitches")
    BY <1>5 DEF Ask, Live
  <2> QED
    BY <1>2, <1>3, <2>1
<1>6. NotMore
  <2>1. CASE Environment \/ UNCHANGED vars
    <3>1. UNCHANGED budget \/ Spend("requeues")
      BY <2>1 DEF Environment, JobStarts, JobStops, Requeue, Flush, LateSave, Purge,
                  Expire, vars
    <3> QED
      BY <1>2, <1>3, <3>1
  <2>2. CASE \E c \in Caller, o \in {"refresh", "finalize", "wait", "run"} : Begin(c, o)
    BY <1>3, <2>2 DEF Begin
  <2>3. CASE \E c \in Caller : Step(c) \/ Drop(c)
    <3>1. PICK c \in Caller : Step(c) \/ Drop(c)
      BY <2>3
    <3>2. CASE QueryQgroup(c) \/ QuerySqueue(c) \/ QuerySqueue2(c) \/ QuerySacct(c)
      <4>1. \E s, a : Ask(s, a)
        BY <3>2 DEF QueryQgroup, QuerySqueue, QuerySqueue2, QuerySacct
      <4> QED
        BY <1>5, <4>1
    <3>3. CASE Lock(c) \/ Save(c) \/ Publish(c) \/ Wake(c) \/ Lock2(c) \/ Publish2(c)
      BY <1>3, <3>3 DEF Lock, Save, Publish, Wake, Lock2, Publish2
    <3>4. CASE SaveFails(c) \/ Drop(c)
      BY <1>2, <1>4, <3>4 DEF SaveFails
    <3> QED
      BY <3>1, <3>2, <3>3, <3>4 DEF Step
  <2> QED
    BY <2>1, <2>2, <2>3 DEF Next
<1> QED
  BY <1>2, <1>4, <1>6 DEF NotMore

\* Only save() brings a call to its publication; only the publication changes what
\* the clones read.
LEMMA StepKeeps ==
    ASSUME TypeOK, OneWriter, Kept, NEW c \in Caller, Step(c)
    PROVE  Kept'
<1>1. CallType /\ \A d \in Caller : Inside(d)
  BY CallParts, OneWriterIsInside
<1>2. \A d \in Caller \ {c} : pc'[d] = pc[d] /\ snap'[d] = snap[d]
  BY OthersUntouched
<1>3. ASSUME holder = c PROVE \A d \in Caller \ {c} : pc[d] \notin Publishing
  BY <1>1, <1>3 DEF Inside, Unlocked, Publishing
<1>4. ASSUME UNCHANGED <<disk, watch>>, pc[c] \notin Publishing,
             pc'[c] \notin Publishing
      PROVE  Kept'
  BY <1>2, <1>4 DEF Kept, disk
<1>5. CASE Save(c)
  <2>1. /\ holder = c /\ store' = snap[c] /\ snap' = snap
        /\ pc'[c] \in Publishing /\ UNCHANGED orphans
    BY <1>1, <1>5 DEF Save, Go, CallType, Publishing, Inside, Unlocked
  <2> QED
    BY <1>2, <1>3, <2>1 DEF Kept
<1>6. CASE Publish(c) \/ Publish2(c)
  <2>1. /\ pc[c] \in Publishing /\ holder = c /\ watch' = snap[c]
        /\ UNCHANGED disk
    BY <1>1, <1>6 DEF Publish, Publish2, Publishing, Inside, Unlocked
  <2>2. pc'[c] \notin Publishing
    BY <1>1, <1>6 DEF Publish, Publish2, AfterRefresh, Finalized, Return, Sleep, Go,
                      CallType, Publishing
  <2> QED
    BY <1>2, <1>3, <2>1, <2>2 DEF Kept, disk
<1>7. CASE Lock(c) \/ Wake(c) \/ Lock2(c)
  BY <1>1, <1>4, <1>7 DEF Lock, Wake, Lock2, Go, CallType, Publishing
<1>8. CASE SaveFails(c)
  BY <1>1, <1>4, <1>8 DEF SaveFails, RefreshFails, Return, Sleep, Go, CallType,
                          Publishing
<1>9. CASE QueryQgroup(c) \/ QuerySqueue(c)
  BY <1>1, <1>4, <1>9 DEF QueryQgroup, QuerySqueue, RefreshFails, Return, Sleep, Go,
                          CallType, Publishing
<1>10. CASE QuerySqueue2(c) \/ QuerySacct(c)
  <2>1. UNCHANGED <<disk, watch>> /\ pc[c] \notin Publishing
    BY <1>10 DEF QuerySqueue2, QuerySacct, Publishing
  <2>2. Go(c, "save2") \/ Go(c, "sacct") \/ Go(c, "idle")
    BY <1>10 DEF QuerySqueue2, QuerySacct, Resolve, Finalized, ToSave, Return
  <2>3. pc'[c] \notin Publishing
    BY <1>1, <2>2 DEF Go, CallType, Publishing
  <2> QED
    BY <1>4, <2>1, <2>3
<1> QED
  BY <1>5, <1>6, <1>7, <1>8, <1>9, <1>10 DEF Step

LEMMA KeptStep ==
    ASSUME TypeOK, TypeOK', OneWriter, KeptInv, [Next]_vars
    PROVE  KeptInv'
<1>1. /\ {budget.drops, budget'.drops, MaxDrops} \subseteq Nat
      /\ budget.drops <= MaxDrops /\ budget'.drops <= budget.drops
      /\ \A c \in Caller : Drop(c) => budget'.drops < budget.drops
  <2>1. {budget.drops, budget'.drops, MaxDrops} \subseteq Nat
    BY SbatchHandleAssumption DEF TypeOK
  <2> QED
    BY <2>1, DropsFall DEF KeptInv
<1>2. budget'.drops <= MaxDrops
  BY <1>1
<1>3. ASSUME budget'.drops = MaxDrops PROVE Kept'
  <2>1. Kept /\ \A c \in Caller : ~Drop(c)
    BY <1>1, <1>3 DEF KeptInv
  <2>2. CASE \E c \in Caller : Step(c)
    BY <2>1, <2>2, StepKeeps
  <2>3. CASE \E c \in Caller, o \in {"refresh", "finalize", "wait", "run"} : Begin(c, o)
    <3>1. PICK c \in Caller, o \in {"refresh", "finalize", "wait", "run"} : Begin(c, o)
      BY <2>3
    <3>2. /\ UNCHANGED <<watch, store, orphans, snap>>
          /\ pc[c] = "idle" /\ pc'[c] = "lock"
          /\ \A d \in Caller \ {c} : pc'[d] = pc[d]
      BY <3>1, BeginFrame DEF disk
    <3> QED
      BY <2>1, <3>2 DEF Kept, Publishing
  <2>4. CASE Environment
    <3>1. UNCHANGED <<watch, pc, snap>>
      BY <2>4, EnvironmentFrame DEF call
    <3>2. ~LateSave
      BY <2>1 DEF LateSave, Kept
    <3>3. UNCHANGED disk
      BY <2>4, <3>2 DEF Environment, JobStarts, JobStops, Requeue, Flush, Purge, Expire
    <3> QED
      BY <2>1, <3>1, <3>3 DEF Kept, disk
  <2>5. CASE UNCHANGED vars
    BY <2>1, <2>5 DEF Kept, vars, disk, call
  <2> QED
    BY <2>1, <2>2, <2>3, <2>4, <2>5 DEF Next
<1> QED
  BY <1>2, <1>3 DEF KeptInv

LEMMA KeptInvariant == Spec => []KeptInv
<1>1. Init => KeptInv
  BY SbatchHandleAssumption DEF Init, KeptInv, Kept, Publishing
<1>2. TypeOK /\ TypeOK' /\ OneWriter /\ KeptInv /\ [Next]_vars => KeptInv'
  BY KeptStep
<1> QED
  BY <1>1, <1>2, TypeCorrect, WritersAreOne, PTL DEF Spec

\* With a single finalizing clone and no dropped future, a restarted process reads
\* from disk what the clones read from the watch channel: all of it when no one
\* holds refresh_lock, and the outcome at any time.
THEOREM DiskKeepsUp == ASSUME SingleFinalizer PROVE Spec => []StoreKeepsUp
<1>1. OneWriter /\ OrderlyInv /\ KeptInv => StoreKeepsUp
  <2> SUFFICES ASSUME OneWriter, OrderlyInv, KeptInv, budget.drops = MaxDrops
               PROVE  /\ holder = NoOne => store = watch
                      /\ IsFinished(watch) => store.fin = watch.fin
    BY DEF StoreKeepsUp
  <2>1. Kept /\ \A c \in Caller : Inside(c) /\ Orderly(c) /\ NoOne # c
    BY OneWriterIsInside, SbatchHandleAssumption DEF KeptInv, OrderlyInv
  <2>2. CASE \A c \in Caller : pc[c] \notin Publishing
    BY <2>1, <2>2 DEF Kept
  <2>3. CASE \E c \in Caller : pc[c] \in Publishing
    <3>1. PICK c \in Caller : pc[c] \in Publishing
      BY <2>3
    <3>2. holder = c /\ store = snap[c]
      BY <2>1, <3>1 DEF Inside, Unlocked, Publishing, Kept
    <3>3. pc[c] = "publish" => snap[c].fin = watch.fin
      BY <2>1 DEF Orderly, FirstHalf
    <3>4. pc[c] = "publish2" => ~IsFinished(watch)
      BY <2>1 DEF Orderly, SecondHalf
    <3> QED
      BY <2>1, <3>1, <3>2, <3>3, <3>4 DEF Publishing
  <2> QED
    BY <2>2, <2>3
<1>2. Spec => []OrderlyInv
  BY OrderlyInvariant
<1> QED
  BY <1>1, <1>2, WritersAreOne, KeptInvariant, PTL

-----------------------------------------------------------------------------
(* Who may be told that the job is over. *)

\* squeue has always been able to answer, and the job has reached no end yet.
Living == budget.glitches = MaxGlitches /\ reached \cap Ended = {}

Quiet(s) == ~s.left /\ ~IsTerminal(s.last) /\ ~IsFinished(s)

\* A living job is listed, no answer of squeue says otherwise, no snapshot shows an
\* end, and no call has gone on to record one or returned because of one.
Untold ==
    /\ listed["squeue"] /\ cache["squeue"] # "no row"
    /\ Quiet(watch)
    /\ \A c \in Caller :
          /\ Quiet(snap[c])
          /\ pc[c] \notin SecondHalf
          /\ op[c] # "run2"
          /\ op[c] = "wait" => result[c] # "ok"

UntoldInv ==
    /\ budget.glitches <= MaxGlitches
    /\ Living => Untold

LEMMA NewIsQuiet == Quiet(NewLifecycle)
BY DEF Quiet, NewLifecycle, IsTerminal, IsFinished

\* Lives have been longer and squeue healthier before the step.
LEMMA LivingFalls ==
    ASSUME TypeOK, budget.glitches <= MaxGlitches, TypeOK', [Next]_vars
    PROVE  /\ budget'.glitches <= MaxGlitches
           /\ Living' => Living
           /\ Spend("glitches") => ~Living'
<1>1. {budget.glitches, budget'.glitches, MaxGlitches} \subseteq Nat
  BY SbatchHandleAssumption DEF TypeOK
<1>2. Spend("glitches") => budget'.glitches < budget.glitches
  BY <1>1 DEF Spend, TypeOK
<1>3. \A what \in {"requeues", "faults", "drops"} :
          Spend(what) => budget'.glitches = budget.glitches
  BY DEF Spend, TypeOK
<1>4. UNCHANGED budget => budget'.glitches = budget.glitches
  OBVIOUS
<1>5. \A s, a : Ask(s, a) => \/ Spend("glitches")
                             \/ budget'.glitches = budget.glitches
  BY <1>3, <1>4 DEF Ask, Live
<1>6. /\ Spend("glitches") \/ budget'.glitches = budget.glitches
      /\ reached \subseteq reached'
  <2>1. CASE Environment \/ UNCHANGED vars
    BY <1>3, <1>4, <2>1 DEF Environment, JobStarts, JobStops, Requeue, Become, Flush,
                            LateSave, Purge, Expire, vars, slurm
  <2>2. CASE \E c \in Caller : Step(c) \/ Drop(c)
    <3>1. PICK c \in Caller : Step(c) \/ Drop(c)
      BY <2>2
    <3>2. CASE QueryQgroup(c) \/ QuerySqueue(c) \/ QuerySqueue2(c) \/ QuerySacct(c)
      BY <1>5, <3>2 DEF QueryQgroup, QuerySqueue, QuerySqueue2, QuerySacct, slurm
    <3>3. CASE Lock(c) \/ Save(c) \/ Publish(c) \/ Wake(c) \/ Lock2(c) \/ Publish2(c)
      BY <1>4, <3>3 DEF Lock, Save, Publish, Wake, Lock2, Publish2, slurm
    <3>4. CASE SaveFails(c) \/ Drop(c)
      BY <1>3, <3>4 DEF SaveFails, Drop, slurm
    <3> QED
      BY <3>1, <3>2, <3>3, <3>4 DEF Step
  <2>3. CASE \E c \in Caller, o \in {"refresh", "finalize", "wait", "run"} : Begin(c, o)
    BY <1>4, <2>3 DEF Begin, slurm
  <2> QED
    BY <2>1, <2>2, <2>3 DEF Next
<1> QED
  BY <1>1, <1>2, <1>6 DEF Living

\* What squeue says of a living job.
LEMMA LivingAnswer ==
    ASSUME TypeOK, RowsReal, Living, listed["squeue"], cache["squeue"] # "no row",
           NEW s \in Source, NEW a \in Answers, Ask(s, a), ~Spend("glitches")
    PROVE  /\ a \in JobState => ~IsTerminal(a)
           /\ s = "squeue" => a # "no row"
           /\ cache'["squeue"] # "no row"
<1>1. a \in JobState => a \in reached
  BY DEF Ask, Live, Truth, RowsReal, JobState
<1>2. a \in JobState => ~IsTerminal(a)
  BY <1>1 DEF Living, Ended, IsTerminal
<1>3. s = "squeue" => a # "no row"
  BY DEF Ask, Live, Truth, RowsReal, TypeOK, JobState
<1>4. cache'["squeue"] # "no row"
  <2>1. cache \in [Source -> Answer]
    BY DEF TypeOK
  <2>2. CASE UNCHANGED cache
    BY <2>2
  <2>3. CASE cache' = [cache EXCEPT ![s] = a]
    BY <1>3, <2>1, <2>3 DEF Source
  <2> QED
    BY <2>2, <2>3 DEF Ask
<1> QED
  BY <1>2, <1>3, <1>4

LEMMA StepTellsNothing ==
    ASSUME TypeOK, RowsReal, Living, Untold, ~Spend("glitches"),
           NEW c \in Caller, Step(c)
    PROVE  Untold'
<1>1. /\ CallType /\ snap[c] \in Lifecycle
      /\ Quiet(snap[c]) /\ Quiet(watch) /\ pc[c] \notin SecondHalf
      /\ op[c] # "run2" /\ (op[c] = "wait" => result[c] # "ok")
  BY CallParts DEF Untold, CallType
<1>2. \A d \in Caller \ {c} : /\ pc'[d] = pc[d] /\ snap'[d] = snap[d]
                             /\ op'[d] = op[d] /\ result'[d] = result[d]
  BY OthersUntouched
<1>3. ASSUME UNCHANGED slurm, Quiet(watch'), cache'["squeue"] # "no row",
             Quiet(snap'[c]), pc'[c] \notin SecondHalf, UNCHANGED op,
             op[c] = "wait" => result'[c] # "ok"
      PROVE  Untold'
  <2>1. listed'["squeue"]
    BY <1>3 DEF Untold, slurm
  <2>2. Quiet(watch)'
    BY <1>3 DEF Quiet, IsFinished, IsTerminal
  <2>3. ASSUME NEW d \in Caller
        PROVE  /\ Quiet(snap[d])' /\ pc'[d] \notin SecondHalf /\ op'[d] # "run2"
               /\ op'[d] = "wait" => result'[d] # "ok"
    <3>1. CASE d = c
      BY <1>1, <1>3, <3>1 DEF Quiet, IsFinished, IsTerminal
    <3>2. CASE d # c
      BY <1>2, <3>2 DEF Untold, Quiet, IsFinished, IsTerminal
    <3> QED
      BY <3>1, <3>2
  <2> QED
    BY <1>3, <2>1, <2>2, <2>3 DEF Untold
<1>4. RefreshFails(c) => /\ Quiet(snap'[c]) /\ pc'[c] \notin SecondHalf
                         /\ op[c] = "wait" => result'[c] # "ok"
  <2>1. RefreshFails(c) => snap'[c] = NewLifecycle
    BY <1>1 DEF RefreshFails, Sleep, Return, Forget, CallType
  <2>2. RefreshFails(c) => /\ pc'[c] \notin SecondHalf
                           /\ op[c] = "wait" => result'[c] # "ok"
    BY <1>1 DEF RefreshFails, Sleep, Return, Go, CallType, SecondHalf
  <2> QED
    BY <2>1, <2>2, NewIsQuiet
<1>5. \A s \in Source, a \in Answers : Ask(s, a) =>
          /\ a \in JobState => ~IsTerminal(a)
          /\ s = "squeue" => a # "no row"
          /\ cache'["squeue"] # "no row"
  BY LivingAnswer DEF Untold
<1>6. \A a : Observe(c, a) /\ ~IsTerminal(a) => Quiet(snap'[c])
  BY <1>1 DEF Observe, Quiet, IsFinished, CallType, Lifecycle
<1>7. UNCHANGED cache => cache'["squeue"] # "no row"
  BY DEF Untold
<1>8. CASE Lock(c)
  <2>1. /\ UNCHANGED <<slurm, watch, op>> /\ snap'[c] = watch
        /\ pc'[c] \notin SecondHalf /\ UNCHANGED <<cache, result>>
    BY <1>1, <1>8 DEF Lock, Go, CallType, SecondHalf
  <2> QED
    BY <1>1, <1>3, <1>7, <2>1
<1>9. CASE QueryQgroup(c)
  <2>1. PICK a \in Answers :
          /\ Ask("qgroup", a)
          /\ \/ a \in JobState /\ Observe(c, a) /\ Go(c, "save")
             \/ a \notin JobState /\ Go(c, "squeue") /\ UNCHANGED snap
    BY <1>9 DEF QueryQgroup
  <2>2. cache'["squeue"] # "no row" /\ Quiet(snap'[c])
    BY <1>1, <1>5, <1>6, <2>1 DEF Source
  <2>3. pc'[c] \notin SecondHalf
    BY <1>1, <2>1 DEF Go, CallType, SecondHalf
  <2> QED
    BY <1>1, <1>3, <1>9, <2>2, <2>3 DEF QueryQgroup
<1>10. CASE QuerySqueue(c)
  <2>1. PICK a \in Answers :
          /\ Ask("squeue", a)
          /\ \/ /\ a \in JobState /\ Observe(c, a) /\ Go(c, "save")
                /\ UNCHANGED <<holder, fails, result>>
             \/ /\ a = "no row" /\ Vanish(c) /\ Go(c, "save")
                /\ UNCHANGED <<holder, fails, result>>
             \/ a = "failure" /\ RefreshFails(c)
    BY <1>10 DEF QuerySqueue
  <2>2. cache'["squeue"] # "no row" /\ a # "no row"
    BY <1>5, <2>1 DEF Source
  <2>3. CASE a \in JobState /\ Observe(c, a) /\ Go(c, "save") /\ UNCHANGED result
    <3>1. Quiet(snap'[c])
      BY <1>5, <1>6, <2>1, <2>3 DEF Source
    <3>2. pc'[c] \notin SecondHalf
      BY <1>1, <2>3 DEF Go, CallType, SecondHalf
    <3> QED
      BY <1>1, <1>3, <1>10, <2>2, <2>3, <3>1, <3>2 DEF QuerySqueue
  <2>4. CASE RefreshFails(c)
    BY <1>1, <1>3, <1>4, <1>10, <2>2, <2>4 DEF QuerySqueue
  <2> QED
    BY <2>1, <2>2, <2>3, <2>4
<1>11. CASE Save(c)
  <2>1. pc'[c] \notin SecondHalf
    BY <1>1, <1>11 DEF Save, Go, CallType, SecondHalf
  <2> QED
    BY <1>1, <1>3, <1>7, <1>11, <2>1 DEF Save
<1>12. CASE SaveFails(c)
  <2>1. RefreshFails(c)
    BY <1>1, <1>12 DEF SaveFails, SecondHalf
  <2> QED
    BY <1>1, <1>3, <1>4, <1>7, <1>12, <2>1 DEF SaveFails
<1>13. CASE Publish(c)
  <2>1. ~Over(snap[c]) /\ ~ToFinalize(snap[c])
    BY <1>1 DEF Over, ToFinalize, Quiet
  <2>2. \/ op[c] \in {"refresh", "finalize"} /\ Return(c, "ok") /\ UNCHANGED op
        \/ Sleep(c, 0) /\ UNCHANGED op
    BY <1>1, <1>13, <2>1 DEF Publish, AfterRefresh
  <2>3. Quiet(snap'[c])
    <3>1. snap'[c] = NewLifecycle
      BY <1>1, <2>2 DEF Return, Sleep, Forget, CallType
    <3> QED
      BY <3>1, NewIsQuiet
  <2>4. pc'[c] \notin SecondHalf /\ (op[c] = "wait" => result'[c] # "ok")
    BY <1>1, <2>2 DEF Return, Sleep, Go, CallType, SecondHalf
  <2> QED
    BY <1>1, <1>3, <1>7, <1>13, <2>2, <2>3, <2>4 DEF Publish
<1>14. CASE Wake(c)
  <2>1. pc'[c] \notin SecondHalf
    BY <1>1, <1>14 DEF Wake, Go, CallType, SecondHalf
  <2> QED
    BY <1>1, <1>3, <1>7, <1>14, <2>1 DEF Wake
<1>15. ~(Lock2(c) \/ QuerySqueue2(c) \/ QuerySacct(c) \/ Publish2(c))
  BY <1>1 DEF Lock2, QuerySqueue2, QuerySacct, Publish2, SecondHalf
<1> QED
  BY <1>8, <1>9, <1>10, <1>11, <1>12, <1>13, <1>14, <1>15 DEF Step

LEMMA UntoldStep ==
    ASSUME TypeOK, TypeOK', RowsReal, UntoldInv, [Next]_vars
    PROVE  UntoldInv'
<1>1. /\ budget'.glitches <= MaxGlitches
      /\ Living' => Living
      /\ Spend("glitches") => ~Living'
  BY LivingFalls DEF UntoldInv
<1>2. ASSUME Living' PROVE Untold'
  <2>1. Living /\ Untold /\ ~Spend("glitches")
    BY <1>1, <1>2 DEF UntoldInv
  <2>2. CASE \E c \in Caller : Step(c)
    BY <2>1, <2>2, StepTellsNothing
  <2>3. CASE \E c \in Caller, o \in {"refresh", "finalize", "wait", "run"} : Begin(c, o)
    <3>1. PICK c \in Caller, o \in {"refresh", "finalize", "wait", "run"} : Begin(c, o)
      BY <2>3
    <3>2. /\ UNCHANGED <<listed, cache, watch, snap>>
          /\ pc'[c] = "lock" /\ op'[c] = o /\ result'[c] = "none"
          /\ \A d \in Caller \ {c} : /\ pc'[d] = pc[d] /\ op'[d] = op[d]
                                    /\ result'[d] = result[d]
      BY <3>1, BeginFrame DEF slurm
    <3> QED
      BY <2>1, <3>2 DEF Untold, Quiet, IsFinished, IsTerminal, SecondHalf
  <2>4. CASE \E c \in Caller : Drop(c)
    <3>1. PICK c \in Caller : Drop(c)
      BY <2>4
    <3>2. /\ UNCHANGED <<listed, cache, watch, op>>
          /\ pc'[c] = "idle" /\ snap'[c] = NewLifecycle /\ result'[c] = "dropped"
      BY <3>1, CallParts DEF Drop, Return, Go, Forget, CallType, slurm
    <3>3. \A d \in Caller \ {c} : /\ pc'[d] = pc[d] /\ snap'[d] = snap[d]
                                 /\ result'[d] = result[d]
      BY <3>1, OthersUntouched
    <3> QED
      BY <2>1, <3>2, <3>3, NewIsQuiet
      DEF Untold, Quiet, IsFinished, IsTerminal, SecondHalf
  <2>5. CASE Environment
    <3>1. UNCHANGED <<watch, call>>
      BY <2>5, EnvironmentFrame
    <3>2. job \in {"PENDING", "RUNNING"}
      BY <2>1 DEF RowsReal, Living, Ended, TypeOK, JobState
    <3>3. listed'["squeue"]
      BY <2>1, <2>5, <3>2 DEF Environment, JobStarts, JobStops, Requeue, Flush,
                              LateSave, Purge, Expire, slurm, Untold
    <3>4. cache'["squeue"] # "no row"
      <4>1. CASE \E s \in Source : Expire(s)
        <5>1. PICK s \in Source : cache' = [cache EXCEPT ![s] = "none"]
          BY <4>1 DEF Expire
        <5>2. cache \in [Source -> Answer] /\ cache["squeue"] # "no row"
          BY <2>1 DEF Untold, TypeOK
        <5> QED
          BY <5>1, <5>2 DEF Source
      <4>2. CASE ~\E s \in Source : Expire(s)
        BY <2>1, <2>5, <4>2 DEF Environment, JobStarts, JobStops, Requeue, Flush,
                                LateSave, Purge, Untold
      <4> QED
        BY <4>1, <4>2
    <3> QED
      BY <2>1, <3>1, <3>3, <3>4 DEF Untold, Quiet, IsFinished, IsTerminal, call
  <2>6. CASE UNCHANGED vars
    BY <2>1, <2>6 DEF Untold, Quiet, IsFinished, IsTerminal, vars, slurm, call
  <2> QED
    BY <2>2, <2>3, <2>4, <2>5, <2>6 DEF Next
<1> QED
  BY <1>1, <1>2 DEF UntoldInv

\* As long as squeue could answer whenever it was believed, no snapshot shows a job as
\* over, and no wait or run returns with it, before it has reached an end.
THEOREM EndsAreNotInvented == Spec => []NoFalseEnd
<1>1. Init => UntoldInv
  BY NewIsQuiet, SbatchHandleAssumption
  DEF Init, UntoldInv, Untold, SecondHalf, Listing, Source
<1>2. TypeOK /\ TypeOK' /\ RealInv /\ UntoldInv /\ [Next]_vars => UntoldInv'
  BY UntoldStep DEF RealInv
<1>3. UntoldInv => NoFalseEnd
  BY DEF UntoldInv, Living, Untold, Quiet, NoFalseEnd
<1> QED
  BY <1>1, <1>2, <1>3, TypeCorrect, RealInvariant, PTL DEF Spec
=============================================================================
