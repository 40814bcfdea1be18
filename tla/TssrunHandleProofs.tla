-------------------------- MODULE TssrunHandleProofs --------------------------
(***************************************************************************)
(* Proofs about TssrunHandle for any number of banners, any size of the    *)
(* pipes and any number of troubles.  That the copies of the snapshot are  *)
(* true and agree is inductive by itself.  That wait() drains the pipes is *)
(* not: it needs what each of the three tasks has done by the time its     *)
(* program counter says so (ExitSeen), and where a banner is from being    *)
(* printed to being in the snapshot (PipesKeep).                           *)
(***************************************************************************)
EXTENDS TssrunHandle, TLAPS, FiniteSetTheorems, SequenceTheorems

Holds(q, l) == \E i \in 1..Len(q) : q[i] = l
InPipe(l) == \E s \in Stream : Holds(pipe[s], l)

\* What the program counters say.
ExitSeen ==
    /\ pc["exit"] # "run" => child # "alive" /\ (refreshed \/ watch.fin = child)
    /\ waiter = "exit" => \A s \in Stream : pc[s] = "done"
    /\ result \in Code => result = child /\ \A t \in Task : pc[t] = "done"

\* Where the banners are.
PipesKeep ==
    /\ \A s \in Stream : pc[s] = "done" => pipe[s] = <<>>
    /\ \A s \in Stream : \A l \in Line : Holds(pipe[s], l) => l \in printed
    /\ ~refreshed => watch.jobid \in {None} \cup printed /\ watch.node \in {None} \cup printed
    /\ ~refreshed /\ Garbled \notin printed =>
          \A l \in printed : /\ l \in JobLine => watch.jobid # None \/ InPipe(l)
                             /\ l \in NodeLine => watch.node # None \/ InPipe(l)

Inv == TypeOK /\ FinishedIsTrue /\ CopiesAgree /\ ExitSeen /\ PipesKeep

USE TssrunHandleAssumption DEF Stream, Task, Code, None, Garbled

-----------------------------------------------------------------------------
(* Sequences and sets. *)

\* Reading the head of a pipe loses no other line.
LEMMA TailHolds ==
  ASSUME NEW q \in Seq(Line), q # <<>>
  PROVE  /\ Tail(q) \in Seq(Line) /\ Head(q) \in Line /\ Holds(q, Head(q))
         /\ \A l : Holds(q, l) => l = Head(q) \/ Holds(Tail(q), l)
         /\ \A l : Holds(Tail(q), l) => Holds(q, l)
<1>1. /\ Tail(q) \in Seq(Line) /\ Len(q) \in Nat \ {0} /\ Len(Tail(q)) = Len(q) - 1
      /\ Head(q) = q[1] /\ \A i \in 1..Len(q) : q[i] \in Line
      /\ \A i \in 1..Len(Tail(q)) : Tail(q)[i] = q[i + 1]
  BY HeadTailProperties, ElementOfSeq, EmptySeq
<1>2. ASSUME NEW l, Holds(q, l) PROVE l = Head(q) \/ Holds(Tail(q), l)
  <2>1. PICK i \in 1..Len(q) : q[i] = l
    BY <1>2 DEF Holds
  <2>2. CASE i = 1
    BY <1>1, <2>1, <2>2
  <2>3. CASE i # 1
    <3>1. i - 1 \in 1..Len(Tail(q)) /\ Tail(q)[i - 1] = q[(i - 1) + 1] /\ (i - 1) + 1 = i
      BY <1>1, <2>1, <2>3
    <3> QED
      BY <2>1, <3>1 DEF Holds
  <2> QED
    BY <2>2, <2>3
<1>3. ASSUME NEW l, Holds(Tail(q), l) PROVE Holds(q, l)
  <2>1. PICK i \in 1..Len(Tail(q)) : Tail(q)[i] = l
    BY <1>3 DEF Holds
  <2>2. i + 1 \in 1..Len(q) /\ q[i + 1] = l
    BY <1>1, <2>1
  <2> QED
    BY <2>2 DEF Holds
<1>4. Head(q) \in Line /\ Holds(q, Head(q))
  BY <1>1 DEF Holds
<1> QED
  BY <1>1, <1>2, <1>3, <1>4

\* A pipe holds what is put in, besides what it held.
LEMMA AppendHolds ==
  ASSUME NEW q \in Seq(Line), NEW m \in Line
  PROVE  /\ Append(q, m) \in Seq(Line) /\ Append(q, m) # <<>>
         /\ \A l : Holds(Append(q, m), l) <=> Holds(q, l) \/ l = m
<1>1. /\ Append(q, m) \in Seq(Line) /\ Len(q) \in Nat /\ Len(Append(q, m)) = Len(q) + 1
      /\ \A i \in 1..Len(q) : Append(q, m)[i] = q[i]
      /\ Append(q, m)[Len(q) + 1] = m
  BY AppendProperties, LenProperties
<1>2. ASSUME NEW l PROVE Holds(Append(q, m), l) <=> Holds(q, l) \/ l = m
  <2>1. ASSUME Holds(Append(q, m), l) PROVE Holds(q, l) \/ l = m
    BY <1>1, <2>1 DEF Holds
  <2>2. ASSUME Holds(q, l) \/ l = m PROVE Holds(Append(q, m), l)
    BY <1>1, <2>2 DEF Holds
  <2> QED
    BY <2>1, <2>2
<1>3. Append(q, m) # <<>>
  BY <1>1, EmptySeq
<1> QED
  BY <1>1, <1>2, <1>3

\* An empty pipe holds nothing.
LEMMA EmptyHolds == \A l : ~Holds(<<>>, l)
  BY EmptySeq DEF Holds

\* The sets of at most one snapshot that the store and a refresh can be.
LEMMA OneEntry == Cardinality({}) = 0 /\ \A x : Cardinality({x}) = 1
  BY FS_EmptySet, FS_Singleton

-----------------------------------------------------------------------------

\* The first state: nothing is printed, recorded or saved.
LEMMA InitInv == Init => Inv
<1> SUFFICES ASSUME Init PROVE Inv
  OBVIOUS
<1>1. TypeOK
  <2>1. store = {} \/ store = {Fresh}
    BY DEF Init, FirstSaves
  <2>2. <<>> \in Seq(Line)
    BY EmptySeq
  <2>3. Fresh \in Snapshot
    BY DEF Fresh, Snapshot
  <2>4. store \subseteq Snapshot /\ Cardinality(store) <= 1
    <3>1. CASE store = {}
      BY <3>1, OneEntry
    <3>2. CASE store = {Fresh}
      <4>1. Cardinality(store) = 1
        BY <3>2, OneEntry, Zenon
      <4> QED
        BY <2>3, <3>2, <4>1
    <3> QED
      BY <2>1, <3>1, <3>2
  <2>5. ownRefresh \subseteq Snapshot /\ Cardinality(ownRefresh) <= 1
    BY OneEntry DEF Init
  <2>6. pipe \in [Stream -> Seq(Line)] /\ copy \in [Task -> Snapshot] /\ watch \in Snapshot
    BY <2>2, <2>3 DEF Init
  <2>7. open \in [Stream -> BOOLEAN] /\ pc \in [Task -> {"run", "copy", "save", "done"}]
    BY DEF Init
  <2>8. /\ child \in {"alive"} \cup Code /\ unsent \in [Writer -> [Stream -> SUBSET Banner]] /\ printed \subseteq Line
        /\ waiter \in {"idle", "tees", "exit"} /\ result \in Code \cup {None, "not owner", "dropped"}
    BY DEF Init
  <2>9. up \in BOOLEAN /\ joinable \in BOOLEAN /\ polling \in BOOLEAN /\ refreshed \in BOOLEAN
    BY DEF Init
  <2>10. troubles \in 0..MaxTroubles
    BY DEF Init
  <2> QED
    BY <2>4, <2>5, <2>6, <2>7, <2>8, <2>9, <2>10 DEF TypeOK
<1>2. FinishedIsTrue /\ CopiesAgree
  BY DEF Init, FirstSaves, Fresh, FinishedIsTrue, CopiesAgree, Copies, IsFinished
<1>3. ExitSeen
  BY DEF Init, ExitSeen
<1>4. PipesKeep
  BY EmptyHolds DEF Init, PipesKeep, Fresh
<1> QED
  BY <1>1, <1>2, <1>3, <1>4 DEF Inv
\* What a line changes.
LEMMA ParsedFacts ==
  ASSUME NEW w \in Snapshot, NEW l \in Line
  PROVE  /\ Parsed(w, l) \in Snapshot /\ Parsed(w, l).fin = w.fin
         /\ Parsed(w, l).jobid \in {w.jobid, l} /\ Parsed(w, l).node \in {w.node, l}
         /\ w.jobid # None => Parsed(w, l).jobid = w.jobid
         /\ w.node # None => Parsed(w, l).node = w.node
         /\ l \in JobLine => Parsed(w, l).jobid # None
         /\ l \in NodeLine => Parsed(w, l).node # None
<1>1. CASE l \in JobLine /\ w.jobid = None
  BY <1>1 DEF Parsed, Snapshot, Line, Banner
<1>2. CASE ~(l \in JobLine /\ w.jobid = None) /\ l \in NodeLine /\ w.node = None
  BY <1>2 DEF Parsed, Snapshot, Line, Banner
<1>3. CASE ~(l \in JobLine /\ w.jobid = None) /\ ~(l \in NodeLine /\ w.node = None)
  BY <1>3 DEF Parsed, Snapshot, Line, Banner
<1> QED
  BY <1>1, <1>2, <1>3

-----------------------------------------------------------------------------
(* The types, in three parts. *)

AtMostOne(S) == S \subseteq Snapshot /\ Cardinality(S) <= 1

ProcessType ==
    /\ child \in {"alive"} \cup Code
    /\ unsent \in [Writer -> [Stream -> SUBSET Banner]] /\ printed \subseteq Line
    /\ pipe \in [Stream -> Seq(Line)]
    /\ open \in [Stream -> BOOLEAN]

SnapshotType ==
    /\ watch \in Snapshot /\ copy \in [Task -> Snapshot]
    /\ AtMostOne(store) /\ AtMostOne(ownRefresh)

ControlType ==
    /\ pc \in [Task -> {"run", "copy", "save", "done"}]
    /\ waiter \in {"idle", "tees", "exit"}
    /\ result \in Code \cup {None, "not owner", "dropped"}
    /\ up \in BOOLEAN /\ joinable \in BOOLEAN /\ polling \in BOOLEAN /\ refreshed \in BOOLEAN
    /\ troubles \in 0..MaxTroubles

\* The parts make the whole.
LEMMA TypeParts == TypeOK <=> ProcessType /\ SnapshotType /\ ControlType
  BY DEF TypeOK, ProcessType, SnapshotType, ControlType, AtMostOne

\* What a store holds.
LEMMA Entries ==
  /\ Fresh \in Snapshot
  /\ AtMostOne({}) /\ \A s \in Snapshot : AtMostOne({s})
  /\ \A S, x : AtMostOne(S) /\ x \in S => x \in Snapshot
<1>1. ASSUME NEW s \in Snapshot PROVE AtMostOne({s})
  <2>1. Cardinality({s}) = 1
    BY OneEntry
  <2> QED
    BY <2>1 DEF AtMostOne
<1>2. Fresh \in Snapshot
  BY DEF Snapshot, Fresh
<1>3. \A S, x : AtMostOne(S) /\ x \in S => x \in Snapshot
  BY DEF AtMostOne
<1>4. AtMostOne({})
  BY OneEntry DEF AtMostOne
<1> QED
  BY <1>1, <1>2, <1>3, <1>4

\* Troubles run out.
LEMMA TroubleType == troubles \in 0..MaxTroubles /\ Trouble => troubles' \in 0..MaxTroubles
  BY DEF Trouble

\* Each step keeps the process's part.
LEMMA ProcessTypeStep == ProcessType /\ [Next]_vars => ProcessType'
<1> SUFFICES ASSUME ProcessType, [Next]_vars PROVE ProcessType'
  OBVIOUS
<1> USE DEF ProcessType, process
<1>1. ASSUME NEW s \in Stream, NEW w \in Writer, PrintBanner(w, s) PROVE ProcessType'
  <2>1. PICK l \in unsent[w][s] :
           Emit(s, l) /\ unsent' = [unsent EXCEPT ![w][s] = @ \ {l}]
    BY <1>1 DEF PrintBanner
  <2>2. unsent[w][s] \subseteq Banner /\ l \in Line
    BY <2>1 DEF Line
  <2>3. Append(pipe[s], l) \in Seq(Line)
    BY <2>2, AppendHolds
  <2>4. unsent' \in [Writer -> [Stream -> SUBSET Banner]]
    BY <2>1, <2>2
  <2> QED
    BY <2>1, <2>2, <2>3, <2>4 DEF Emit
<1>2. ASSUME NEW s \in Stream, PrintGarbled(s) PROVE ProcessType'
  <2>1. Emit(s, Garbled) /\ unsent' = unsent /\ Garbled \in Line
    BY <1>2 DEF PrintGarbled, Line
  <2>2. Append(pipe[s], Garbled) \in Seq(Line)
    BY <2>1, AppendHolds
  <2> QED
    BY <2>1, <2>2 DEF Emit
<1>3. ASSUME NEW s \in Stream, Close(s) PROVE ProcessType'
  BY <1>3 DEF Close
<1>4. ASSUME NEW s \in Stream, TeeLine(s) PROVE ProcessType'
  <2>1. Tail(pipe[s]) \in Seq(Line)
    BY <1>4, TailHolds DEF TeeLine
  <2> QED
    BY <1>4, <2>1 DEF TeeLine
<1>5. ASSUME NEW s \in Stream, TeeGarbled(s) PROVE ProcessType'
  <2>1. <<>> \in Seq(Line)
    BY EmptySeq
  <2> QED
    BY <1>5, <2>1 DEF TeeGarbled
<1>6. ASSUME NEW s \in Stream, TeeEnds(s) PROVE ProcessType'
  BY <1>6 DEF TeeEnds
<1>7. ASSUME NEW t \in Task, Copy(t) PROVE ProcessType'
  BY <1>7 DEF Copy
<1>8. ASSUME NEW t \in Task, Save(t) PROVE ProcessType'
  BY <1>8 DEF Save
<1>9. ASSUME ChildExits PROVE ProcessType'
  BY <1>9 DEF ChildExits
<1>9a. ASSUME ChildKilled PROVE ProcessType'
  BY <1>9a DEF ChildKilled
<1>10. ASSUME RecordExit PROVE ProcessType'
  BY <1>10 DEF RecordExit
<1>11. ASSUME CallWait PROVE ProcessType'
  BY <1>11 DEF CallWait
<1>12. ASSUME JoinTees PROVE ProcessType'
  BY <1>12 DEF JoinTees
<1>13. ASSUME JoinExit PROVE ProcessType'
  BY <1>13 DEF JoinExit
<1>14. ASSUME DropWait PROVE ProcessType'
  BY <1>14 DEF DropWait
<1>15. ASSUME OwnerLoads PROVE ProcessType'
  BY <1>15 DEF OwnerLoads
<1>16. ASSUME OwnerReplaces PROVE ProcessType'
  BY <1>16 DEF OwnerReplaces
<1>17. ASSUME Crash PROVE ProcessType'
  BY <1>17 DEF Crash
<1>18. ASSUME Attach PROVE ProcessType'
  BY <1>18 DEF Attach
<1>19. ASSUME Poll PROVE ProcessType'
  BY <1>19 DEF Poll
<1>20. ASSUME PollFails PROVE ProcessType'
  BY <1>20 DEF PollFails
<1>21. CASE UNCHANGED vars
  BY <1>21 DEF vars
<1> QED
  BY <1>1, <1>2, <1>3, <1>4, <1>5, <1>6, <1>7, <1>8, <1>9, <1>10, <1>11,
     <1>12, <1>13, <1>14, <1>15, <1>16, <1>17, <1>18, <1>19, <1>20,
     <1>21, <1>9a DEF Next, Tee

\* Each step keeps the snapshots' part.
LEMMA SnapshotTypeStep == ProcessType /\ SnapshotType /\ [Next]_vars => SnapshotType'
<1> SUFFICES ASSUME ProcessType, SnapshotType, [Next]_vars PROVE SnapshotType'
  OBVIOUS
<1> USE DEF SnapshotType, waiting, task, refreshing
<1>1. ASSUME NEW s \in Stream, NEW w \in Writer, PrintBanner(w, s) PROVE SnapshotType'
  BY <1>1 DEF PrintBanner, PrintGarbled, Emit
<1>2. ASSUME NEW s \in Stream, PrintGarbled(s) PROVE SnapshotType'
  BY <1>2 DEF PrintBanner, PrintGarbled, Emit
<1>3. ASSUME NEW s \in Stream, Close(s) PROVE SnapshotType'
  BY <1>3 DEF Close
<1>4. ASSUME NEW s \in Stream, TeeLine(s) PROVE SnapshotType'
  <2>1. Head(pipe[s]) \in Line
    BY <1>4, TailHolds DEF TeeLine, ProcessType
  <2>2. watch' \in Snapshot
    BY <1>4, <2>1, ParsedFacts DEF TeeLine
  <2> QED
    BY <1>4, <2>2 DEF TeeLine
<1>5. ASSUME NEW s \in Stream, TeeGarbled(s) PROVE SnapshotType'
  BY <1>5 DEF TeeGarbled
<1>6. ASSUME NEW s \in Stream, TeeEnds(s) PROVE SnapshotType'
  BY <1>6 DEF TeeEnds
<1>7. ASSUME NEW t \in Task, Copy(t) PROVE SnapshotType'
  BY <1>7 DEF Copy
<1>8. ASSUME NEW t \in Task, Save(t) PROVE SnapshotType'
  BY <1>8, Entries DEF Save
<1>9. ASSUME ChildExits PROVE SnapshotType'
  BY <1>9 DEF ChildExits
<1>9a. ASSUME ChildKilled PROVE SnapshotType'
  BY <1>9a DEF ChildKilled
<1>10. ASSUME RecordExit PROVE SnapshotType'
  <2>1. child \in Code
    BY <1>10 DEF RecordExit, ProcessType
  <2>2. watch' \in Snapshot
    BY <1>10, <2>1 DEF RecordExit, ExitStatus, Snapshot
  <2> QED
    BY <1>10, <2>2 DEF RecordExit
<1>11. ASSUME CallWait PROVE SnapshotType'
  BY <1>11 DEF CallWait
<1>12. ASSUME JoinTees PROVE SnapshotType'
  BY <1>12 DEF JoinTees
<1>13. ASSUME JoinExit PROVE SnapshotType'
  BY <1>13 DEF JoinExit
<1>14. ASSUME DropWait PROVE SnapshotType'
  BY <1>14 DEF DropWait
<1>15. ASSUME OwnerLoads PROVE SnapshotType'
  BY <1>15 DEF OwnerLoads
<1>16. ASSUME OwnerReplaces PROVE SnapshotType'
  BY <1>16, Entries DEF OwnerReplaces
<1>17. ASSUME Crash PROVE SnapshotType'
  BY <1>17 DEF Crash
<1>18. ASSUME Attach PROVE SnapshotType'
  BY <1>18 DEF Attach
<1>19. ASSUME Poll PROVE SnapshotType'
  BY <1>19 DEF Poll
<1>20. ASSUME PollFails PROVE SnapshotType'
  BY <1>20 DEF PollFails
<1>21. CASE UNCHANGED vars
  BY <1>21 DEF vars
<1> QED
  BY <1>1, <1>2, <1>3, <1>4, <1>5, <1>6, <1>7, <1>8, <1>9, <1>10, <1>11,
     <1>12, <1>13, <1>14, <1>15, <1>16, <1>17, <1>18, <1>19, <1>20,
     <1>21, <1>9a DEF Next, Tee

\* Each step keeps the rest.
LEMMA ControlTypeStep ==
  ProcessType /\ ControlType /\ ExitSeen /\ [Next]_vars => ControlType'
<1> SUFFICES ASSUME ProcessType, ControlType, ExitSeen, [Next]_vars PROVE ControlType'
  OBVIOUS
<1> USE DEF ControlType, task, waiting, refreshing
<1>1. ASSUME NEW s \in Stream, NEW w \in Writer, PrintBanner(w, s) PROVE ControlType'
  BY <1>1, TroubleType DEF PrintBanner, PrintGarbled, Emit
<1>2. ASSUME NEW s \in Stream, PrintGarbled(s) PROVE ControlType'
  BY <1>2, TroubleType DEF PrintBanner, PrintGarbled, Emit
<1>3. ASSUME NEW s \in Stream, Close(s) PROVE ControlType'
  BY <1>3 DEF Close
<1>4. ASSUME NEW s \in Stream, TeeLine(s) PROVE ControlType'
  BY <1>4 DEF TeeLine
<1>5. ASSUME NEW s \in Stream, TeeGarbled(s) PROVE ControlType'
  BY <1>5 DEF TeeGarbled
<1>6. ASSUME NEW s \in Stream, TeeEnds(s) PROVE ControlType'
  BY <1>6 DEF TeeEnds
<1>7. ASSUME NEW t \in Task, Copy(t) PROVE ControlType'
  BY <1>7 DEF Copy
<1>8. ASSUME NEW t \in Task, Save(t) PROVE ControlType'
  BY <1>8, TroubleType DEF Save
<1>9. ASSUME ChildExits PROVE ControlType'
  BY <1>9 DEF ChildExits
<1>9a. ASSUME ChildKilled PROVE ControlType'
  BY <1>9a DEF ChildKilled
<1>10. ASSUME RecordExit PROVE ControlType'
  BY <1>10 DEF RecordExit
<1>11. ASSUME CallWait PROVE ControlType'
  BY <1>11 DEF CallWait
<1>12. ASSUME JoinTees PROVE ControlType'
  BY <1>12 DEF JoinTees
<1>13. ASSUME JoinExit PROVE ControlType'
  <2>1. child \in Code
    BY <1>13 DEF JoinExit, ProcessType, ExitSeen
  <2> QED
    BY <1>13, <2>1 DEF JoinExit
<1>14. ASSUME DropWait PROVE ControlType'
  BY <1>14 DEF DropWait
<1>15. ASSUME OwnerLoads PROVE ControlType'
  BY <1>15, TroubleType DEF OwnerLoads
<1>16. ASSUME OwnerReplaces PROVE ControlType'
  BY <1>16 DEF OwnerReplaces
<1>17. ASSUME Crash PROVE ControlType'
  BY <1>17, TroubleType DEF Crash
<1>18. ASSUME Attach PROVE ControlType'
  BY <1>18 DEF Attach
<1>19. ASSUME Poll PROVE ControlType'
  BY <1>19 DEF Poll
<1>20. ASSUME PollFails PROVE ControlType'
  BY <1>20, TroubleType DEF PollFails
<1>21. CASE UNCHANGED vars
  BY <1>21 DEF vars
<1> QED
  BY <1>1, <1>2, <1>3, <1>4, <1>5, <1>6, <1>7, <1>8, <1>9, <1>10, <1>11,
     <1>12, <1>13, <1>14, <1>15, <1>16, <1>17, <1>18, <1>19, <1>20,
     <1>21, <1>9a DEF Next, Tee

-----------------------------------------------------------------------------
(* The invariants, one after the other. *)

\* No step makes or spreads a false end.
LEMMA FinishedStep ==
  ProcessType /\ SnapshotType /\ FinishedIsTrue /\ [Next]_vars => FinishedIsTrue'
<1> SUFFICES ASSUME ProcessType, SnapshotType, FinishedIsTrue, [Next]_vars
             PROVE  FinishedIsTrue'
  OBVIOUS
<1> USE DEF FinishedIsTrue, IsFinished, Copies, process, task, waiting, refreshing
<1>1. ASSUME NEW s \in Stream, NEW w \in Writer, PrintBanner(w, s) PROVE FinishedIsTrue'
  BY <1>1 DEF PrintBanner, PrintGarbled, Emit
<1>2. ASSUME NEW s \in Stream, PrintGarbled(s) PROVE FinishedIsTrue'
  BY <1>2 DEF PrintBanner, PrintGarbled, Emit
<1>3. ASSUME NEW s \in Stream, Close(s) PROVE FinishedIsTrue'
  BY <1>3 DEF Close
<1>4. ASSUME NEW s \in Stream, TeeLine(s) PROVE FinishedIsTrue'
  <2>1. Head(pipe[s]) \in Line
    BY <1>4, TailHolds DEF TeeLine, ProcessType
  <2>2. watch'.fin = watch.fin
    BY <1>4, <2>1, ParsedFacts DEF TeeLine, SnapshotType
  <2> QED
    BY <1>4, <2>2 DEF TeeLine
<1>5. ASSUME NEW s \in Stream, TeeGarbled(s) PROVE FinishedIsTrue'
  BY <1>5 DEF TeeGarbled
<1>6. ASSUME NEW s \in Stream, TeeEnds(s) PROVE FinishedIsTrue'
  BY <1>6 DEF TeeEnds
<1>7. ASSUME NEW t \in Task, Copy(t) PROVE FinishedIsTrue'
  <2>1. copy' = [copy EXCEPT ![t] = watch] /\ UNCHANGED <<child, watch, store, ownRefresh>>
    BY <1>7 DEF Copy
  <2> QED
    BY <2>1 DEF SnapshotType
<1>8. ASSUME NEW t \in Task, Save(t) PROVE FinishedIsTrue'
  <2>1. /\ copy' = [copy EXCEPT ![t] = Fresh] /\ UNCHANGED <<child, watch, ownRefresh>>
        /\ store' = store \/ store' = {copy[t]}
    BY <1>8 DEF Save
  <2>2. Fresh.fin = None
    BY DEF Fresh
  <2> QED
    BY <2>1, <2>2 DEF SnapshotType
<1>9. ASSUME ChildExits \/ ChildKilled PROVE FinishedIsTrue'
  <2>1. \A c \in Copies : ~IsFinished(c)
    <3>1. \A c \in Copies : c \in Snapshot
      BY Entries DEF SnapshotType, Copies
    <3>2. \A c \in Snapshot : c.fin \in Code \cup {None}
      BY DEF Snapshot
    <3> QED
      BY <1>9, <3>1, <3>2 DEF ChildExits, ChildKilled, FinishedIsTrue, IsFinished, Copies
  <2> QED
    BY <1>9, <2>1 DEF ChildExits, ChildKilled
<1>10. ASSUME RecordExit PROVE FinishedIsTrue'
  <2>1. watch'.fin = child
    BY <1>10 DEF RecordExit, ExitStatus, SnapshotType, Snapshot
  <2> QED
    BY <1>10, <2>1 DEF RecordExit
<1>11. ASSUME CallWait PROVE FinishedIsTrue'
  BY <1>11 DEF CallWait
<1>12. ASSUME JoinTees PROVE FinishedIsTrue'
  BY <1>12 DEF JoinTees
<1>13. ASSUME JoinExit PROVE FinishedIsTrue'
  BY <1>13 DEF JoinExit
<1>14. ASSUME DropWait PROVE FinishedIsTrue'
  BY <1>14 DEF DropWait
<1>15. ASSUME OwnerLoads PROVE FinishedIsTrue'
  BY <1>15 DEF OwnerLoads
<1>16. ASSUME OwnerReplaces PROVE FinishedIsTrue'
  BY <1>16 DEF OwnerReplaces
<1>17. ASSUME Crash PROVE FinishedIsTrue'
  BY <1>17 DEF Crash
<1>18. ASSUME Attach PROVE FinishedIsTrue'
  BY <1>18 DEF Attach
<1>19. ASSUME Poll PROVE FinishedIsTrue'
  BY <1>19 DEF Poll
<1>20. ASSUME PollFails PROVE FinishedIsTrue'
  BY <1>20 DEF PollFails
<1>21. CASE UNCHANGED vars
  BY <1>21 DEF vars
<1> QED
  BY <1>1, <1>2, <1>3, <1>4, <1>5, <1>6, <1>7, <1>8, <1>9, <1>10, <1>11,
     <1>12, <1>13, <1>14, <1>15, <1>16, <1>17, <1>18, <1>19, <1>20,
     <1>21 DEF Next, Tee

\* No step makes two copies differ, but a refresh.
LEMMA AgreeStep == ProcessType /\ SnapshotType /\ CopiesAgree /\ [Next]_vars => CopiesAgree'
<1> SUFFICES ASSUME ProcessType, SnapshotType, CopiesAgree, [Next]_vars PROVE CopiesAgree'
  OBVIOUS
<1> USE DEF CopiesAgree, Copies, process, task, waiting, refreshing
<1>1. ASSUME NEW s \in Stream, NEW w \in Writer, PrintBanner(w, s) PROVE CopiesAgree'
  BY <1>1 DEF PrintBanner, PrintGarbled, Emit
<1>2. ASSUME NEW s \in Stream, PrintGarbled(s) PROVE CopiesAgree'
  BY <1>2 DEF PrintBanner, PrintGarbled, Emit
<1>3. ASSUME NEW s \in Stream, Close(s) PROVE CopiesAgree'
  BY <1>3 DEF Close
<1>4. ASSUME NEW s \in Stream, TeeLine(s) PROVE CopiesAgree'
  <2>1. Head(pipe[s]) \in Line
    BY <1>4, TailHolds DEF TeeLine, ProcessType
  <2>2. /\ watch.jobid # None => watch'.jobid = watch.jobid
        /\ watch.node # None => watch'.node = watch.node
    BY <1>4, <2>1, ParsedFacts DEF TeeLine, SnapshotType
  <2> QED
    BY <1>4, <2>2 DEF TeeLine
<1>5. ASSUME NEW s \in Stream, TeeGarbled(s) PROVE CopiesAgree'
  BY <1>5 DEF TeeGarbled
<1>6. ASSUME NEW s \in Stream, TeeEnds(s) PROVE CopiesAgree'
  BY <1>6 DEF TeeEnds
<1>7. ASSUME NEW t \in Task, Copy(t) PROVE CopiesAgree'
  <2>1. copy' = [copy EXCEPT ![t] = watch] /\ UNCHANGED <<watch, store, ownRefresh, refreshed>>
    BY <1>7 DEF Copy
  <2> QED
    BY <2>1 DEF SnapshotType
<1>8. ASSUME NEW t \in Task, Save(t) PROVE CopiesAgree'
  <2>1. /\ copy' = [copy EXCEPT ![t] = Fresh] /\ UNCHANGED <<watch, ownRefresh, refreshed>>
        /\ store' = store \/ store' = {copy[t]}
    BY <1>8 DEF Save
  <2>2. Fresh.jobid = None /\ Fresh.node = None
    BY DEF Fresh
  <2> QED
    BY <2>1, <2>2 DEF SnapshotType
<1>9. ASSUME ChildExits PROVE CopiesAgree'
  BY <1>9 DEF ChildExits
<1>9a. ASSUME ChildKilled PROVE CopiesAgree'
  BY <1>9a DEF ChildKilled
<1>10. ASSUME RecordExit PROVE CopiesAgree'
  <2>1. watch'.jobid = watch.jobid /\ watch'.node = watch.node
    BY <1>10 DEF RecordExit, SnapshotType, Snapshot
  <2> QED
    BY <1>10, <2>1 DEF RecordExit
<1>11. ASSUME CallWait PROVE CopiesAgree'
  BY <1>11 DEF CallWait
<1>12. ASSUME JoinTees PROVE CopiesAgree'
  BY <1>12 DEF JoinTees
<1>13. ASSUME JoinExit PROVE CopiesAgree'
  BY <1>13 DEF JoinExit
<1>14. ASSUME DropWait PROVE CopiesAgree'
  BY <1>14 DEF DropWait
<1>15. ASSUME OwnerLoads PROVE CopiesAgree'
  BY <1>15 DEF OwnerLoads
<1>16. ASSUME OwnerReplaces PROVE CopiesAgree'
  BY <1>16 DEF OwnerReplaces
<1>17. ASSUME Crash PROVE CopiesAgree'
  BY <1>17 DEF Crash
<1>18. ASSUME Attach PROVE CopiesAgree'
  BY <1>18 DEF Attach
<1>19. ASSUME Poll PROVE CopiesAgree'
  BY <1>19 DEF Poll
<1>20. ASSUME PollFails PROVE CopiesAgree'
  BY <1>20 DEF PollFails
<1>21. CASE UNCHANGED vars
  BY <1>21 DEF vars
<1> QED
  BY <1>1, <1>2, <1>3, <1>4, <1>5, <1>6, <1>7, <1>8, <1>9, <1>10, <1>11,
     <1>12, <1>13, <1>14, <1>15, <1>16, <1>17, <1>18, <1>19, <1>20,
     <1>21, <1>9a DEF Next, Tee

\* No step makes a program counter say what is not so.
LEMMA ExitSeenStep ==
  ProcessType /\ SnapshotType /\ ControlType /\ ExitSeen /\ [Next]_vars => ExitSeen'
<1> SUFFICES ASSUME ProcessType, SnapshotType, ControlType, ExitSeen, [Next]_vars
             PROVE  ExitSeen'
  OBVIOUS
<1> USE DEF ExitSeen, ControlType, process, task, waiting, refreshing
<1>1. ASSUME NEW s \in Stream, NEW w \in Writer, PrintBanner(w, s) PROVE ExitSeen'
  <2>1. UNCHANGED <<child, watch, pc, waiter, result, refreshed>>
    BY <1>1 DEF PrintBanner, PrintGarbled, Emit
  <2> QED
    BY <2>1
<1>2. ASSUME NEW s \in Stream, PrintGarbled(s) PROVE ExitSeen'
  <2>1. UNCHANGED <<child, watch, pc, waiter, result, refreshed>>
    BY <1>2 DEF PrintBanner, PrintGarbled, Emit
  <2> QED
    BY <2>1
<1>3. ASSUME NEW s \in Stream, Close(s) PROVE ExitSeen'
  BY <1>3 DEF Close
<1>4. ASSUME NEW s \in Stream, TeeLine(s) PROVE ExitSeen'
  <2>1. Head(pipe[s]) \in Line
    BY <1>4, TailHolds DEF TeeLine, ProcessType
  <2>2. watch'.fin = watch.fin
    BY <1>4, <2>1, ParsedFacts DEF TeeLine, SnapshotType
  <2> QED
    BY <1>4, <2>2 DEF TeeLine
<1>5. ASSUME NEW s \in Stream, TeeGarbled(s) PROVE ExitSeen'
  BY <1>5 DEF TeeGarbled
<1>6. ASSUME NEW s \in Stream, TeeEnds(s) PROVE ExitSeen'
  BY <1>6 DEF TeeEnds
<1>7. ASSUME NEW t \in Task, Copy(t) PROVE ExitSeen'
  BY <1>7 DEF Copy
<1>8. ASSUME NEW t \in Task, Save(t) PROVE ExitSeen'
  BY <1>8 DEF Save
<1>9. ASSUME ChildExits PROVE ExitSeen'
  BY <1>9 DEF ChildExits
<1>9a. ASSUME ChildKilled PROVE ExitSeen'
  BY <1>9a DEF ChildKilled
<1>10. ASSUME RecordExit PROVE ExitSeen'
  <2>1. watch'.fin = child
    BY <1>10 DEF RecordExit, ExitStatus, SnapshotType, Snapshot
  <2> QED
    BY <1>10, <2>1 DEF RecordExit
<1>11. ASSUME CallWait PROVE ExitSeen'
  BY <1>11 DEF CallWait
<1>12. ASSUME JoinTees PROVE ExitSeen'
  BY <1>12 DEF JoinTees, TeesJoined
<1>13. ASSUME JoinExit PROVE ExitSeen'
  BY <1>13 DEF JoinExit
<1>14. ASSUME DropWait PROVE ExitSeen'
  BY <1>14 DEF DropWait
<1>15. ASSUME OwnerLoads PROVE ExitSeen'
  BY <1>15 DEF OwnerLoads
<1>16. ASSUME OwnerReplaces PROVE ExitSeen'
  BY <1>16 DEF OwnerReplaces
<1>17. ASSUME Crash PROVE ExitSeen'
  BY <1>17 DEF Crash
<1>18. ASSUME Attach PROVE ExitSeen'
  BY <1>18 DEF Attach
<1>19. ASSUME Poll PROVE ExitSeen'
  BY <1>19 DEF Poll
<1>20. ASSUME PollFails PROVE ExitSeen'
  BY <1>20 DEF PollFails
<1>21. CASE UNCHANGED vars
  BY <1>21 DEF vars
<1> QED
  BY <1>1, <1>2, <1>3, <1>4, <1>5, <1>6, <1>7, <1>8, <1>9, <1>10, <1>11,
     <1>12, <1>13, <1>14, <1>15, <1>16, <1>17, <1>18, <1>19, <1>20,
     <1>21, <1>9a DEF Next, Tee

\* Each step moves a banner on, or leaves it where it is.
LEMMA PipesStep ==
  ProcessType /\ SnapshotType /\ ControlType /\ PipesKeep /\ [Next]_vars => PipesKeep'
<1> SUFFICES ASSUME ProcessType, SnapshotType, ControlType, PipesKeep, [Next]_vars
             PROVE  PipesKeep'
  OBVIOUS
<1> USE DEF PipesKeep, ProcessType, ControlType, process, task, waiting, refreshing
<1>1. ASSUME NEW s \in Stream, NEW w \in Writer, PrintBanner(w, s) PROVE PipesKeep'
  <2>0. unsent[w][s] \subseteq Line
    <3>1. unsent \in [Writer -> [Stream -> SUBSET Banner]]
      OBVIOUS
    <3>2. unsent[w][s] \subseteq Banner
      BY ONLY <3>1, w \in Writer, s \in Stream
    <3> QED
      BY ONLY <3>2 DEF Line
  <2>1. PICK l \in Line : Emit(s, l)
    BY <1>1, <2>0 DEF PrintBanner
  <2>2. UNCHANGED <<watch, pc, refreshed>>
    BY <2>1 DEF Emit
  <2>3. CASE UNCHANGED <<printed, pipe>>
    BY <2>2, <2>3 DEF InPipe
  <2>4. CASE /\ pc[s] # "done" /\ printed' = printed \cup {l}
             /\ pipe' = [pipe EXCEPT ![s] = Append(pipe[s], l)]
    <3>1. \A r \in Stream : pc'[r] = "done" => pipe'[r] = <<>>
      BY <2>2, <2>4
    <3>2. \A r \in Stream : \A m : Holds(pipe'[r], m) <=> Holds(pipe[r], m) \/ (r = s /\ m = l)
      BY <2>4, AppendHolds
    <3>3. \A r \in Stream : \A m \in Line : Holds(pipe'[r], m) => m \in printed'
      BY <2>4, <3>2
    <3>4. InPipe(l)' /\ \A m : InPipe(m) => InPipe(m)'
      BY <3>2 DEF InPipe
    <3> QED
      BY <2>2, <2>4, <3>1, <3>3, <3>4
  <2> QED
    BY <2>1, <2>3, <2>4 DEF Emit
<1>2. ASSUME NEW s \in Stream, PrintGarbled(s) PROVE PipesKeep'
  <2>1. PICK l \in Line : Emit(s, l)
    BY <1>2 DEF PrintBanner, PrintGarbled, Line
  <2>2. UNCHANGED <<watch, pc, refreshed>>
    BY <2>1 DEF Emit
  <2>3. CASE UNCHANGED <<printed, pipe>>
    BY <2>2, <2>3 DEF InPipe
  <2>4. CASE /\ pc[s] # "done" /\ printed' = printed \cup {l}
             /\ pipe' = [pipe EXCEPT ![s] = Append(pipe[s], l)]
    <3>1. \A r \in Stream : pc'[r] = "done" => pipe'[r] = <<>>
      BY <2>2, <2>4
    <3>2. \A r \in Stream : \A m : Holds(pipe'[r], m) <=> Holds(pipe[r], m) \/ (r = s /\ m = l)
      BY <2>4, AppendHolds
    <3>3. \A r \in Stream : \A m \in Line : Holds(pipe'[r], m) => m \in printed'
      BY <2>4, <3>2
    <3>4. InPipe(l)' /\ \A m : InPipe(m) => InPipe(m)'
      BY <3>2 DEF InPipe
    <3> QED
      BY <2>2, <2>4, <3>1, <3>3, <3>4
  <2> QED
    BY <2>1, <2>3, <2>4 DEF Emit
<1>3. ASSUME NEW s \in Stream, Close(s) PROVE PipesKeep'
  BY <1>3 DEF Close, InPipe
<1>4. ASSUME NEW s \in Stream, TeeLine(s) PROVE PipesKeep'
  <2> DEFINE h == Head(pipe[s])
  <2>1. /\ pc[s] = "run" /\ pipe[s] # <<>> /\ watch' = Parsed(watch, h)
        /\ pipe' = [pipe EXCEPT ![s] = Tail(pipe[s])] /\ UNCHANGED <<printed, refreshed>>
    BY <1>4 DEF TeeLine
  <2>2. \A r \in Stream : r # s => pc'[r] = pc[r]
    BY <1>4 DEF TeeLine
  <2>3. pc'[s] # "done"
    BY <1>4 DEF TeeLine
  <2>4. /\ h \in Line /\ Holds(pipe[s], h)
        /\ \A l : Holds(pipe[s], l) => l = h \/ Holds(pipe'[s], l)
        /\ \A l : Holds(pipe'[s], l) => Holds(pipe[s], l)
    BY <2>1, TailHolds
  <2> HIDE DEF h
  <2>5. h \in printed
    BY <2>4
  <2>6. \A r \in Stream : r # s => pipe'[r] = pipe[r]
    BY <2>1
  <2>7. \A r \in Stream : pc'[r] = "done" => pipe'[r] = <<>>
    BY <2>2, <2>3, <2>6
  <2>8. \A r \in Stream : \A l \in Line : Holds(pipe'[r], l) => l \in printed'
    BY <2>1, <2>4, <2>6
  <2>9. /\ watch'.jobid \in {watch.jobid, h} /\ watch'.node \in {watch.node, h}
        /\ watch.jobid # None => watch'.jobid = watch.jobid
        /\ watch.node # None => watch'.node = watch.node
        /\ h \in JobLine => watch'.jobid # None
        /\ h \in NodeLine => watch'.node # None
    <3>1. watch \in Snapshot /\ h \in Line /\ watch' = Parsed(watch, h)
      BY <2>1, <2>4 DEF SnapshotType
    <3> QED
      BY ONLY <3>1, ParsedFacts
  <2>10. \A l : InPipe(l) => InPipe(l)' \/ l = h
    BY <2>4, <2>6 DEF InPipe
  <2> QED
    BY <2>1, <2>5, <2>7, <2>8, <2>9, <2>10
<1>5. ASSUME NEW s \in Stream, TeeGarbled(s) PROVE PipesKeep'
  <2>1. /\ pipe' = [pipe EXCEPT ![s] = <<>>] /\ pc' = [pc EXCEPT ![s] = "done"]
        /\ pipe[s] # <<>> /\ Head(pipe[s]) = Garbled /\ UNCHANGED <<printed, watch, refreshed>>
    BY <1>5 DEF TeeGarbled
  <2>2. Garbled \in printed
    BY <2>1, TailHolds
  <2>3. \A r \in Stream : pc'[r] = "done" => pipe'[r] = <<>>
    BY <2>1
  <2>4. \A r \in Stream : \A l \in Line : Holds(pipe'[r], l) => l \in printed'
    BY <2>1, EmptyHolds
  <2> QED
    BY <2>1, <2>2, <2>3, <2>4
<1>6. ASSUME NEW s \in Stream, TeeEnds(s) PROVE PipesKeep'
  <2>1. /\ pc' = [pc EXCEPT ![s] = "done"] /\ pipe[s] = <<>>
        /\ UNCHANGED <<pipe, printed, watch, refreshed>>
    BY <1>6 DEF TeeEnds
  <2> QED
    BY <2>1 DEF InPipe
<1>7. ASSUME NEW t \in Task, Copy(t) PROVE PipesKeep'
  <2>1. pc' = [pc EXCEPT ![t] = "save"] /\ UNCHANGED <<pipe, printed, watch, refreshed>>
    BY <1>7 DEF Copy
  <2>2. \A s \in Stream : pc'[s] = "done" => pc[s] = "done"
    BY <2>1
  <2> QED
    BY <2>1, <2>2 DEF InPipe
<1>8. ASSUME NEW t \in Task, Save(t) PROVE PipesKeep'
  <2>1. pc' = [pc EXCEPT ![t] = IF t = "exit" THEN "done" ELSE "run"] /\ UNCHANGED <<pipe, printed, watch, refreshed>>
    BY <1>8 DEF Save
  <2>2. \A s \in Stream : pc'[s] = "done" => pc[s] = "done"
    BY <2>1
  <2> QED
    BY <2>1, <2>2 DEF InPipe
<1>9. ASSUME ChildExits PROVE PipesKeep'
  BY <1>9 DEF ChildExits, InPipe
<1>9a. ASSUME ChildKilled PROVE PipesKeep'
  BY <1>9a DEF ChildKilled, InPipe
<1>10. ASSUME RecordExit PROVE PipesKeep'
  <2>1. watch'.jobid = watch.jobid /\ watch'.node = watch.node
    BY <1>10 DEF RecordExit, SnapshotType, Snapshot
  <2>2. \A s \in Stream : pc'[s] = pc[s]
    BY <1>10 DEF RecordExit
  <2> QED
    BY <1>10, <2>1, <2>2 DEF RecordExit, InPipe
<1>11. ASSUME CallWait PROVE PipesKeep'
  BY <1>11 DEF CallWait, InPipe
<1>12. ASSUME JoinTees PROVE PipesKeep'
  BY <1>12 DEF JoinTees, InPipe
<1>13. ASSUME JoinExit PROVE PipesKeep'
  BY <1>13 DEF JoinExit, InPipe
<1>14. ASSUME DropWait PROVE PipesKeep'
  BY <1>14 DEF DropWait, InPipe
<1>15. ASSUME OwnerLoads PROVE PipesKeep'
  BY <1>15 DEF OwnerLoads, InPipe
<1>16. ASSUME OwnerReplaces PROVE PipesKeep'
  BY <1>16 DEF OwnerReplaces, InPipe
<1>17. ASSUME Crash PROVE PipesKeep'
  BY <1>17 DEF Crash, InPipe
<1>18. ASSUME Attach PROVE PipesKeep'
  BY <1>18 DEF Attach, InPipe
<1>19. ASSUME Poll PROVE PipesKeep'
  BY <1>19 DEF Poll, InPipe
<1>20. ASSUME PollFails PROVE PipesKeep'
  BY <1>20 DEF PollFails, InPipe
<1>21. CASE UNCHANGED vars
  BY <1>21 DEF vars, InPipe
<1> QED
  BY <1>1, <1>2, <1>3, <1>4, <1>5, <1>6, <1>7, <1>8, <1>9, <1>10, <1>11,
     <1>12, <1>13, <1>14, <1>15, <1>16, <1>17, <1>18, <1>19, <1>20,
     <1>21, <1>9a DEF Next, Tee

-----------------------------------------------------------------------------
(* The theorems. *)

LEMMA Invariance == Spec => []Inv
<1>1. Inv /\ [Next]_vars => Inv'
  <2> SUFFICES ASSUME Inv, [Next]_vars PROVE Inv'
    OBVIOUS
  <2>1. ProcessType /\ SnapshotType /\ ControlType
    BY TypeParts DEF Inv
  <2>2. ProcessType' /\ SnapshotType' /\ ControlType'
    BY <2>1, ProcessTypeStep, SnapshotTypeStep, ControlTypeStep DEF Inv
  <2>3. TypeOK'
    BY <2>2 DEF TypeOK, ProcessType, SnapshotType, ControlType, AtMostOne
  <2> QED
    BY <2>1, <2>3, FinishedStep, AgreeStep, ExitSeenStep, PipesStep DEF Inv
<1> QED
  BY InitInv, <1>1, PTL DEF Spec

\* The types hold, and the store keeps one snapshot of the child at most, whatever the
\* tasks save in whatever order (persist_warn()).
THEOREM TypeCorrect == Spec => []TypeOK
<1>1. Inv => TypeOK
  BY DEF Inv
<1> QED
  BY Invariance, <1>1, PTL

\* No copy of the snapshot, in the owner, on its way to the store, in it or read back from
\* it, ever tells another end of the child than its own (from_spawn(), wait task).
THEOREM EndIsTrue == Spec => []FinishedIsTrue
<1>1. Inv => FinishedIsTrue
  BY DEF Inv
<1> QED
  BY Invariance, <1>1, PTL

\* Until the owner itself refreshes, no copy names another jobid or node than the owner
\* publishes, though three tasks copy and save it one across the other.
THEOREM JobIsAgreed == Spec => []CopiesAgree
<1>1. Inv => CopiesAgree
  BY DEF Inv
<1> QED
  BY Invariance, <1>1, PTL

\* When wait() returns, the end is in the snapshot, and so are a jobid and a node if a
\* banner has told one on either stream (wait() joins both tees, then the wait task) -
\* unless the owner has refreshed, or a line that is not UTF-8 has ended a tee.
THEOREM WaitHasDrained == Spec => []WaitDrains
<1>1. Inv => WaitDrains
  <2> SUFFICES ASSUME Inv, result \in Code, ~refreshed PROVE WaitDrains
    BY DEF WaitDrains
  <2>1. result = child /\ \A t \in Task : pc[t] = "done"
    BY DEF Inv, ExitSeen
  <2>2. watch.fin = result
    BY <2>1 DEF Inv, ExitSeen
  <2>3. \A l : ~InPipe(l)
    BY <2>1, EmptyHolds DEF Inv, PipesKeep, InPipe
  <2>4. ASSUME Garbled \notin printed
        PROVE  /\ printed \cap JobLine # {} => watch.jobid \in printed
               /\ printed \cap NodeLine # {} => watch.node \in printed
    BY <2>3, <2>4 DEF Inv, PipesKeep
  <2> QED
    BY <2>2, <2>4 DEF WaitDrains
<1> QED
  BY Invariance, <1>1, PTL

\* A subscriber of the owner never sees a jobid, a node or an end taken back or replaced,
\* unless the owner refreshes: a second banner changes nothing (parsers of the tees).
THEOREM WatchOnlyGrows == Spec => WatchGrows
<1> DEFINE Grows == ~refreshed' =>
                       /\ watch.jobid # None => watch'.jobid = watch.jobid
                       /\ watch.node # None => watch'.node = watch.node
                       /\ watch.fin # None => watch'.fin = watch.fin
<1>1. Inv /\ [Next]_vars => [Grows]_vars
  <2> SUFFICES ASSUME Inv, Next PROVE Grows
    OBVIOUS
  <2>0. ProcessType /\ SnapshotType /\ FinishedIsTrue
    BY TypeParts DEF Inv
  <2>1. ASSUME NEW s \in Stream, TeeLine(s) PROVE Grows
    <3>1. Head(pipe[s]) \in Line
      BY <2>0, <2>1, TailHolds DEF TeeLine, ProcessType
    <3> QED
      BY <2>0, <2>1, <3>1, ParsedFacts DEF TeeLine, SnapshotType
  <2>2. ASSUME RecordExit PROVE Grows
    <3>1. /\ watch'.jobid = watch.jobid /\ watch'.node = watch.node /\ watch'.fin = child
      BY <2>0, <2>2 DEF RecordExit, ExitStatus, SnapshotType, Snapshot
    <3>2. watch.fin # None => watch.fin = child
      BY <2>0 DEF FinishedIsTrue, Copies, IsFinished
    <3> QED
      BY <3>1, <3>2
  <2>3. ASSUME OwnerReplaces PROVE Grows
    BY <2>3 DEF OwnerReplaces
  <2>4. ASSUME watch' = watch PROVE Grows
    BY <2>4
  <2>5. ASSUME NEW s \in Stream, \/ \E w \in Writer : PrintBanner(w, s)
                                \/ PrintGarbled(s) \/ Close(s)
                                \/ TeeGarbled(s) \/ TeeEnds(s)
        PROVE  watch' = watch
    BY <2>5 DEF PrintBanner, PrintGarbled, Emit, Close, TeeGarbled, TeeEnds, process
  <2>6. ASSUME NEW t \in Task, Copy(t) \/ Save(t) PROVE watch' = watch
    BY <2>6 DEF Copy, Save
  <2>7. ASSUME \/ ChildExits \/ ChildKilled \/ CallWait \/ JoinTees \/ JoinExit \/ DropWait
               \/ OwnerLoads \/ Crash \/ Attach \/ Poll \/ PollFails
        PROVE  watch' = watch
    BY <2>7 DEF ChildExits, ChildKilled, CallWait, JoinTees, JoinExit, DropWait, OwnerLoads, Crash, Attach,
                Poll, PollFails
  <2> HIDE DEF Grows
  <2> QED
    BY <2>1, <2>2, <2>3, <2>4, <2>5, <2>6, <2>7 DEF Next, Tee
<1> QED
  BY Invariance, <1>1, PTL DEF Spec, WatchGrows
================================================================================
