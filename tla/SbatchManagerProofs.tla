------------------------- MODULE SbatchManagerProofs -------------------------
(***************************************************************************)
(* Proofs about SbatchManager for any number of calls, array specs, jobs   *)
(* and troubles.  No accepted job is lost unless its call was: that is     *)
(* inductive once the program counters, the jobids and the files are known *)
(* to keep to what is said of them in Shape.  No reader meets half a       *)
(* snapshot, since a write gives its file a name only when it is whole;    *)
(* and a write that is done has left its snapshot in the directory, until  *)
(* somebody deletes it.                                                    *)
(*                                                                         *)
(* What the directory of snapshots gives the callers: what spawn() and     *)
(* spawn_array() return is in it, and what attach() by jobid and           *)
(* attach_array_jobid() return is all that it holds of the job.  The first *)
(* invariant follows a spawn task by task: what it has made and what it    *)
(* has still to save are, one after the other, the spec it was given.  The *)
(* second follows a scan entry by entry.  With both the types of the state *)
(* are known, and with those a third says what an attachment to an array   *)
(* makes of the entries it has found, in whatever order its sort leaves    *)
(* those of one task.                                                      *)
(***************************************************************************)
EXTENDS SbatchManager, FiniteSetTheorems, FunctionTheorems, TLAPS

Places == {"idle", "sbatch", "save", "wait", "scan"}

Shape ==
    /\ accepted \subseteq Job
    /\ pc \in [Client -> Places]
    /\ job \in [Client -> Job \cup {NoJob}]
    /\ files \in [Uuid -> {"absent", "torn", "whole"}]

Inv == Shape /\ NoJobIsStranded

USE DEF Places

\* The initial state holds no job and no file.
LEMMA InitShape == Init => Inv
  BY DEF Init, Inv, Shape, NoJobIsStranded

\* Each step keeps the shape.
LEMMA ShapeStep == Shape /\ [Next]_vars => Shape'
<1> SUFFICES ASSUME Shape, [Next]_vars PROVE Shape'
  OBVIOUS
<1> USE DEF Shape, Go, Return, Start, disk, call, scan, known
<1>1. ASSUME NEW c \in Client, Spawn(c) PROVE Shape'
  <2>1. /\ job' = [job EXCEPT ![c] = NoJob] /\ UNCHANGED <<accepted, files>>
        /\ pc' = [pc EXCEPT ![c] = "sbatch"]
    BY <1>1 DEF Spawn
  <2> QED
    BY <2>1
<1>2. ASSUME NEW c \in Client, SbatchOk(c) PROVE Shape'
  <2>1. PICK j \in Job : accepted' = accepted \cup {j} /\ job' = [job EXCEPT ![c] = j]
    BY <1>2 DEF SbatchOk
  <2> QED
    BY <1>2, <2>1 DEF SbatchOk
<1>3. ASSUME NEW c \in Client, SbatchFails(c) PROVE Shape'
  BY <1>3 DEF SbatchFails
<1>4. ASSUME NEW c \in Client, SbatchGarbled(c) PROVE Shape'
  BY <1>4 DEF SbatchGarbled
<1>4b. ASSUME NEW c \in Client, SbatchKilled(c) PROVE Shape'
  BY <1>4b DEF SbatchKilled
<1>5. ASSUME NEW u \in Uuid, Write(u) PROVE Shape'
  BY <1>5 DEF Write, Fill, Persist, WriteFails
<1>6. ASSUME NEW c \in Client, SaveEnds(c) PROVE Shape'
  <2>1. UNCHANGED <<accepted, job, files>>
    BY <1>6 DEF SaveEnds
  <2>2. \E l \in Places : pc' = [pc EXCEPT ![c] = l]
    <3>1. CASE Len(todo[c]) = 1 /\ op[c] # "run"
      BY <1>6, <3>1 DEF SaveEnds
    <3>2. CASE ~(Len(todo[c]) = 1 /\ op[c] # "run")
      BY <1>6, <3>2 DEF SaveEnds
    <3> QED
      BY <3>1, <3>2
  <2> QED
    BY <2>1, <2>2
<1>7. ASSUME NEW c \in Client, SaveFails(c) PROVE Shape'
  BY <1>7 DEF SaveFails
<1>8. ASSUME NEW c \in Client, RunEnds(c) PROVE Shape'
  BY <1>8 DEF RunEnds
<1>9. ASSUME NEW c \in Client, ReadEntry(c) PROVE Shape'
  BY <1>9 DEF ReadEntry
<1>9b. ASSUME NEW c \in Client, SkipEntry(c) PROVE Shape'
  BY <1>9b DEF SkipEntry
<1>10. ASSUME NEW c \in Client, ScanEnds(c) PROVE Shape'
  BY <1>10 DEF ScanEnds
<1>11. ASSUME NEW c \in Client, ScanFails(c) PROVE Shape'
  BY <1>11 DEF ScanFails
<1>12. ASSUME NEW c \in Client, AttachUuid(c) PROVE Shape'
  <2>1. PICK u \in Uuid : job' = [job EXCEPT ![c] = u[1]]
    BY <1>12 DEF AttachUuid
  <2>2. u[1] \in Job
    BY DEF Uuid
  <2>3. UNCHANGED <<accepted, pc, files>>
    BY <1>12 DEF AttachUuid
  <2> QED
    BY <2>1, <2>2, <2>3
<1>13. ASSUME NEW c \in Client, Attach(c) PROVE Shape'
  <2>1. PICK j \in accepted : job' = [job EXCEPT ![c] = j]
    BY <1>13 DEF Attach
  <2>2. pc' = [pc EXCEPT ![c] = "scan"] /\ UNCHANGED <<accepted, files>>
    BY <1>13 DEF Attach
  <2> QED
    BY <1>13, <2>1, <2>2
<1>14. ASSUME NEW c \in Client, Drop(c) PROVE Shape'
  BY <1>14 DEF Drop, Accepts
<1>15. ASSUME Delete PROVE Shape'
  BY <1>15 DEF Delete
<1>16. ASSUME Crash PROVE Shape'
  BY <1>16 DEF Crash, Dies
<1>17. ASSUME PowerLoss PROVE Shape'
  <2>1. PICK torn, gone :
          files' = [u \in Uuid |-> IF u \in gone THEN "absent"
                                  ELSE IF u \in torn THEN "torn" ELSE files[u]]
    BY <1>17 DEF PowerLoss
  <2>2. files' \in [Uuid -> {"absent", "torn", "whole"}]
    BY <2>1
  <2> QED
    BY <1>17, <2>2 DEF PowerLoss, Dies
<1>18. CASE UNCHANGED vars
  BY <1>18 DEF vars
<1> QED
  BY <1>1, <1>2, <1>3, <1>4, <1>4b, <1>5, <1>6, <1>7, <1>8, <1>9, <1>9b, <1>10, <1>11,
     <1>12, <1>13, <1>14, <1>15, <1>16, <1>17, <1>18 DEF Next, Step

Saving == {"save"}

\* What a step of client c owes: the job it has in hand stays in hand or becomes
\* known, and so does a job that SLURM accepts in the step.
LEMMA Handover ==
  ASSUME NoJobIsStranded, NEW c \in Client,
         \A d \in Client \ {c} : pc'[d] = pc[d] /\ job'[d] = job[d],
         told \subseteq told', lost \subseteq lost',
         \A j \in accepted' \ accepted :
            j \in told' \cup lost' \/ (pc'[c] \in Saving /\ job'[c] = j),
         pc[c] \in Saving =>
            job[c] \in told' \cup lost' \/ (pc'[c] \in Saving /\ job'[c] = job[c])
  PROVE  NoJobIsStranded'
<1> SUFFICES ASSUME NEW j \in accepted' PROVE j \in told' \cup lost' \/ InFlight(j)'
  BY DEF NoJobIsStranded
<1>1. CASE j \notin accepted
  BY <1>1 DEF InFlight, Saving
<1>2. CASE j \in told \cup lost
  BY <1>2
<1>3. CASE j \in accepted /\ InFlight(j)
  <2>1. PICK d \in Client : pc[d] \in Saving /\ job[d] = j
    BY <1>3 DEF InFlight, Saving
  <2>2. CASE d = c
    BY <2>1, <2>2 DEF InFlight, Saving
  <2>3. CASE d # c
    BY <2>1, <2>3 DEF InFlight, Saving
  <2> QED
    BY <2>2, <2>3
<1> QED
  BY <1>1, <1>2, <1>3 DEF NoJobIsStranded

\* Each step hands over.
LEMMA StrandedStep == Inv /\ [Next]_vars => NoJobIsStranded'
<1> SUFFICES ASSUME Inv, [Next]_vars PROVE NoJobIsStranded'
  OBVIOUS
<1>0. Shape /\ NoJobIsStranded
  BY DEF Inv
<1> USE DEF Shape, Go, Return, Start, Saving, disk, call, scan, known
<1>1. ASSUME NEW c \in Client, Spawn(c) PROVE NoJobIsStranded'
  <2>1. /\ job' = [job EXCEPT ![c] = NoJob] /\ pc[c] = "idle"
        /\ pc' = [pc EXCEPT ![c] = "sbatch"]
        /\ UNCHANGED <<accepted, told, lost>>
    BY <1>1 DEF Spawn
  <2> QED
    BY <1>0, <2>1, Handover
<1>2. ASSUME NEW c \in Client, SbatchOk(c) PROVE NoJobIsStranded'
  <2>1. PICK j \in Job : accepted' = accepted \cup {j} /\ job' = [job EXCEPT ![c] = j]
    BY <1>2 DEF SbatchOk
  <2>2. /\ pc[c] = "sbatch" /\ pc' = [pc EXCEPT ![c] = "save"]
        /\ UNCHANGED <<told, lost>>
    BY <1>2 DEF SbatchOk
  <2> QED
    BY <1>0, <2>1, <2>2, Handover
<1>3. ASSUME NEW c \in Client, SbatchFails(c) PROVE NoJobIsStranded'
  BY <1>0, <1>3, Handover DEF SbatchFails
<1>4. ASSUME NEW c \in Client, SbatchGarbled(c) PROVE NoJobIsStranded'
  <2>1. PICK j \in Job : accepted' = accepted \cup {j} /\ told' = told \cup {j}
    BY <1>4 DEF SbatchGarbled
  <2>2. /\ pc[c] = "sbatch" /\ pc' = [pc EXCEPT ![c] = "idle"]
        /\ UNCHANGED <<job, lost>>
    BY <1>4 DEF SbatchGarbled
  <2> QED
    BY <1>0, <2>1, <2>2, Handover
<1>4b. ASSUME NEW c \in Client, SbatchKilled(c) PROVE NoJobIsStranded'
  <2>1. /\ pc[c] = "sbatch" /\ pc' = [pc EXCEPT ![c] = "idle"]
        /\ UNCHANGED <<job, told>>
    BY <1>4b DEF SbatchKilled
  <2>2. lost \subseteq lost' /\ accepted' \ accepted \subseteq lost'
    BY <1>4b DEF SbatchKilled
  <2> QED
    BY <1>0, <2>1, <2>2, Handover
<1>5. ASSUME NEW u \in Uuid, Write(u) PROVE NoJobIsStranded'
  BY <1>0, <1>5 DEF Write, Fill, Persist, WriteFails, NoJobIsStranded, InFlight
<1>6. ASSUME NEW c \in Client, SaveEnds(c) PROVE NoJobIsStranded'
  <2>1. UNCHANGED <<accepted, job, lost>>
    BY <1>6 DEF SaveEnds
  <2>2. CASE Len(todo[c]) = 1
    <3>1. told' = told \cup {job[c]}
      BY <1>6, <2>2 DEF SaveEnds
    <3>2. \A d \in Client \ {c} : pc'[d] = pc[d]
      <4>1. CASE op[c] = "run"
        BY <1>0, <1>6, <2>2, <4>1 DEF SaveEnds
      <4>2. CASE op[c] # "run"
        BY <1>0, <1>6, <2>2, <4>2 DEF SaveEnds
      <4> QED
        BY <4>1, <4>2
    <3> QED
      BY <1>0, <2>1, <3>1, <3>2, Handover
  <2>3. CASE Len(todo[c]) # 1
    <3>1. pc' = [pc EXCEPT ![c] = "save"] /\ told' = told
      BY <1>6, <2>3 DEF SaveEnds
    <3> QED
      BY <1>0, <2>1, <3>1, Handover
  <2> QED
    BY <2>2, <2>3
<1>7. ASSUME NEW c \in Client, SaveFails(c) PROVE NoJobIsStranded'
  BY <1>0, <1>7, Handover DEF SaveFails
<1>8. ASSUME NEW c \in Client, RunEnds(c) PROVE NoJobIsStranded'
  BY <1>0, <1>8, Handover DEF RunEnds
<1>9. ASSUME NEW c \in Client, ReadEntry(c) PROVE NoJobIsStranded'
  BY <1>0, <1>9, Handover DEF ReadEntry
<1>9b. ASSUME NEW c \in Client, SkipEntry(c) PROVE NoJobIsStranded'
  BY <1>0, <1>9b, Handover DEF SkipEntry
<1>10. ASSUME NEW c \in Client, ScanEnds(c) PROVE NoJobIsStranded'
  BY <1>0, <1>10, Handover DEF ScanEnds
<1>11. ASSUME NEW c \in Client, ScanFails(c) PROVE NoJobIsStranded'
  BY <1>0, <1>11, Handover DEF ScanFails
<1>12. ASSUME NEW c \in Client, AttachUuid(c) PROVE NoJobIsStranded'
  <2>1. PICK u \in Uuid : job' = [job EXCEPT ![c] = u[1]]
    BY <1>12 DEF AttachUuid
  <2>2. pc[c] = "idle" /\ UNCHANGED <<pc, accepted, told, lost>>
    BY <1>12 DEF AttachUuid
  <2> QED
    BY <1>0, <2>1, <2>2, Handover
<1>13. ASSUME NEW c \in Client, Attach(c) PROVE NoJobIsStranded'
  <2>1. PICK j \in accepted : job' = [job EXCEPT ![c] = j]
    BY <1>13 DEF Attach
  <2>2. /\ pc[c] = "idle" /\ pc' = [pc EXCEPT ![c] = "scan"]
        /\ UNCHANGED <<accepted, told, lost>>
    BY <1>13 DEF Attach
  <2> QED
    BY <1>0, <2>1, <2>2, Handover
<1>14. ASSUME NEW c \in Client, Drop(c) PROVE NoJobIsStranded'
  <2>1. /\ pc' = [pc EXCEPT ![c] = "idle"] /\ UNCHANGED <<job, told>>
    BY <1>14 DEF Drop
  <2>2. lost \subseteq lost' /\ accepted' \ accepted \subseteq lost'
    BY <1>14 DEF Drop
  <2>3. pc[c] \in Saving => job[c] \in lost'
    BY <1>14 DEF Drop
  <2> QED
    BY <1>0, <2>1, <2>2, <2>3, Handover
<1>15. ASSUME Delete PROVE NoJobIsStranded'
  BY <1>0, <1>15 DEF Delete, NoJobIsStranded, InFlight
<1>16. ASSUME Crash PROVE NoJobIsStranded'
  BY <1>0, <1>16 DEF Crash, Dies, NoJobIsStranded, InFlight
<1>17. ASSUME PowerLoss PROVE NoJobIsStranded'
  BY <1>0, <1>17 DEF PowerLoss, Dies, NoJobIsStranded, InFlight
<1>18. CASE UNCHANGED vars
  BY <1>0, <1>18 DEF vars, NoJobIsStranded, InFlight
<1> QED
  BY <1>1, <1>2, <1>3, <1>4, <1>4b, <1>5, <1>6, <1>7, <1>8, <1>9, <1>9b, <1>10, <1>11,
     <1>12, <1>13, <1>14, <1>15, <1>16, <1>17, <1>18 DEF Next, Step

LEMMA Invariance == Spec => []Inv
<1>1. Inv /\ [Next]_vars => Inv'
  BY ShapeStep, StrandedStep DEF Inv
<1> QED
  BY InitShape, <1>1, PTL DEF Spec

\* Whatever fails, a job that SLURM has accepted is in the hands of a call that is
\* under way, or its jobid has reached a caller, or its call was dropped, or the call,
\* its sbatch or its working directory has gone.
THEOREM JobsAreKnown == Spec => []NoJobIsStranded
<1>1. Inv => NoJobIsStranded
  BY DEF Inv
<1> QED
  BY Invariance, <1>1, PTL

-----------------------------------------------------------------------------
(* The directory of snapshots and what comes out of it. *)

\* An entry that is on disk, or that somebody has deleted.
Safe == Entries \cup deleted

\* What is torn was so when the machine came up again, and what is written is there.
DiskInv ==
    /\ Shape /\ DOMAIN writes = Uuid
    /\ EntriesAreWhole
    /\ \A u \in Uuid : writes[u] = "done" => u \in Safe

\* A step that leaves the files alone, and begins writes at most.
LEMMA DiskFrame ==
    ASSUME DiskInv, Shape', UNCHANGED <<files, deleted>>, spoiled \subseteq spoiled',
           UNCHANGED writes \/ \E u : Save(u)
    PROVE  DiskInv'
<1>1. DOMAIN writes' = Uuid /\ \A u \in Uuid : writes'[u] = "done" => writes[u] = "done"
  BY DEF DiskInv, Save
<1> QED
  BY <1>1 DEF DiskInv, EntriesAreWhole, Safe, Entries

\* A write that is done is done when its file is whole.
LEMMA DiskWrite ==
    ASSUME DiskInv, Shape', NEW u \in Uuid, Write(u)
    PROVE  DiskInv'
<1>1. UNCHANGED <<deleted, spoiled>> /\ DOMAIN writes' = Uuid
  BY DEF Write, Fill, Persist, WriteFails, known, DiskInv
<1>2. CASE Persist(u)
  <2>1. /\ files' = [files EXCEPT ![u] = "whole"]
        /\ writes' = [writes EXCEPT ![u] = "done"]
    BY <1>2 DEF Persist
  <2> QED
    BY <1>1, <2>1 DEF DiskInv, Shape, EntriesAreWhole, Safe, Entries
<1>3. CASE Fill(u) \/ WriteFails(u)
  <2>1. UNCHANGED files /\ \E w \in {"whole", "failed"} : writes' = [writes EXCEPT ![u] = w]
    BY <1>3 DEF Fill, WriteFails
  <2> QED
    BY <1>1, <2>1 DEF DiskInv, EntriesAreWhole, Safe, Entries
<1> QED
  BY <1>2, <1>3 DEF Write

LEMMA DiskStep ==
    ASSUME DiskInv, [Next]_vars
    PROVE  DiskInv'
<1>1. Shape'
  BY ShapeStep DEF DiskInv
<1>2. ASSUME NEW c \in Client,
             Spawn(c) \/ AttachUuid(c) \/ Attach(c) \/ Step(c) \/ Drop(c)
      PROVE  DiskInv'
  <2>1. UNCHANGED <<files, deleted, spoiled>>
    BY <1>2 DEF Step, Spawn, AttachUuid, Attach, Drop, SbatchOk, SbatchFails, SaveEnds,
         SbatchGarbled, SbatchKilled, SaveFails, RunEnds, ReadEntry, SkipEntry, ScanEnds,
         ScanFails, disk, known
  <2>2. UNCHANGED writes \/ \E u : Save(u)
    <3>1. CASE SbatchOk(c)
      BY <3>1 DEF SbatchOk
    <3>2. CASE SaveEnds(c)
      BY <3>2 DEF SaveEnds
    <3>3. CASE ~(SbatchOk(c) \/ SaveEnds(c))
      BY <1>2, <3>3 DEF Step, Spawn, AttachUuid, Attach, Drop, SbatchFails, SbatchGarbled,
           SbatchKilled, SaveFails, RunEnds, ReadEntry, SkipEntry, ScanEnds, ScanFails, disk
    <3> QED
      BY <3>1, <3>2, <3>3
  <2> QED
    BY <1>1, <2>1, <2>2, DiskFrame
<1>3. CASE \E u \in Uuid : Write(u)
  BY <1>1, <1>3, DiskWrite
<1>4. CASE Delete
  <2>1. PICK u \in Names :
            files' = [files EXCEPT ![u] = "absent"] /\ deleted' = deleted \cup {u}
    BY <1>4 DEF Delete
  <2>2. UNCHANGED <<writes, spoiled>>
    BY <1>4 DEF Delete
  <2> QED
    BY <1>1, <2>1, <2>2 DEF DiskInv, Shape, EntriesAreWhole, Safe, Entries
<1>5. CASE Crash
  <2>1. /\ UNCHANGED <<files, deleted, spoiled>>
        /\ writes' = [u \in Uuid |-> "none"]
    BY <1>5 DEF Crash, Dies
  <2> QED
    BY <1>1, <2>1 DEF DiskInv, EntriesAreWhole
<1>6. CASE PowerLoss
  <2>1. PICK torn, gone \in SUBSET Entries :
          files' = [u \in Uuid |-> IF u \in gone THEN "absent"
                                  ELSE IF u \in torn THEN "torn" ELSE files[u]]
    BY <1>6 DEF PowerLoss
  <2>2. /\ spoiled' = spoiled \cup Names
        /\ writes' = [u \in Uuid |-> "none"]
    BY <1>6 DEF PowerLoss, Dies
  <2>3. EntriesAreWhole'
    BY <2>1, <2>2 DEF DiskInv, EntriesAreWhole, Entries, Names
  <2> QED
    BY <1>1, <2>2, <2>3 DEF DiskInv
<1>7. CASE UNCHANGED vars
  BY <1>1, <1>7, DiskFrame DEF vars, disk, known
<1> QED
  BY <1>2, <1>3, <1>4, <1>5, <1>6, <1>7 DEF Next

LEMMA DiskInvariant == Spec => []DiskInv
<1>1. Init => DiskInv
  BY DEF Init, DiskInv, Shape, EntriesAreWhole
<1> QED
  BY <1>1, DiskStep, PTL DEF Spec

\* Half a snapshot never gets the name of an entry, whatever writes fail, are dropped or
\* die with their process, and whatever is deleted meanwhile: what a reader finds torn
\* was on disk when the machine went down.
THEOREM FilesAreWhole == Spec => []EntriesAreWhole
<1>1. DiskInv => EntriesAreWhole
  BY DEF DiskInv
<1> QED
  BY DiskInvariant, <1>1, PTL

-----------------------------------------------------------------------------
(* The calls that save. *)

Specs == Arrays \cup {<<NoTask>>}

\* The handles are for the first tasks of the spec a, and the others are to come.
Divides(a, handles, rest, j) ==
    /\ Len(a) = Len(handles) + Len(rest)
    /\ \A i \in 1..Len(handles) : handles[i] = <<j, i, a[i]>>
    /\ \A i \in 1..Len(rest) : rest[i] = a[Len(handles) + i]

Partway(c) ==
    /\ made[c] \in Seq(Uuid) /\ todo[c] \in Seq(Task) /\ todo[c] # <<>>
    /\ \E a \in Specs : Divides(a, made[c], todo[c], job[c])
    /\ \A i \in 1..Len(made[c]) : made[c][i] \in Safe
    /\ pc[c] = "sbatch" => made[c] = <<>>
    /\ pc[c] \in Saving => job[c] \in Job

Complete(c) ==
    /\ [i \in DOMAIN made[c] |-> made[c][i][3]] \in Specs
    /\ \A i \in DOMAIN made[c] : made[c][i][1] = job[c]
    /\ ToSet(made[c]) \subseteq Safe

Local(c) ==
    /\ pc[c] # "idle" => result[c] = "none"
    /\ pc[c] = "wait" => op[c] = "run"
    /\ pc[c] = "scan" => op[c] \in {"attach_jobid", "attach_array"}
    /\ pc[c] \in Saving \cup {"sbatch"} => Partway(c)
    /\ result[c] = "ok" /\ op[c] \in {"spawn", "spawn_array"} => Complete(c)

Tables == \A f \in {op, todo, made, result} : DOMAIN f = Client

LocalInv == Tables /\ \A c \in Client : Local(c)

-----------------------------------------------------------------------------

(* Sequences. *)

LEMMA SpecsType == Specs \subseteq Seq(Task) /\ \A a \in Specs : a # <<>>
<1>1. ASSUME NEW a \in Arrays PROVE a \in Seq(Task) /\ a # <<>>
  <2>1. a \in Seq(Nat) /\ a # <<>>
    BY SbatchManagerAssumption
  <2>2. \A i \in 1..Len(a) : a[i] \in Task
    BY <2>1 DEF Task, Index, ToSet
  <2>3. Len(a) \in Nat /\ DOMAIN a = 1..Len(a)
    BY <2>1
  <2>4. a \in [1..Len(a) -> Task]
    BY <2>1, <2>2, <2>3
  <2> QED
    BY <2>1, <2>3, <2>4
<1>2. <<NoTask>> \in Seq(Task) /\ <<NoTask>> # <<>>
  BY DEF Task
<1> QED
  BY <1>1, <1>2 DEF Specs

\* One handle more, one task less.
LEMMA Advance ==
    ASSUME NEW a \in Specs, NEW handles \in Seq(Uuid), NEW rest \in Seq(Task),
           rest # <<>>, NEW j \in Job, Divides(a, handles, rest, j)
    PROVE  /\ Snapshot(j, handles, rest) \in Uuid
           /\ Append(handles, Snapshot(j, handles, rest)) \in Seq(Uuid)
           /\ Tail(rest) \in Seq(Task)
           /\ Divides(a, Append(handles, Snapshot(j, handles, rest)), Tail(rest), j)
<1> DEFINE u == <<j, Len(handles) + 1, Head(rest)>>
           more == Append(handles, u)
<1>1. Head(rest) \in Task /\ Head(rest) = rest[1] /\ Len(rest) \in Nat \ {0}
  OBVIOUS
<1>0. a \in Seq(Task) /\ Len(handles) \in Nat /\ Len(a) = Len(handles) + Len(rest)
  BY SpecsType DEF Divides
<1>2. u \in Uuid
  <2>1. Len(handles) + 1 \in DOMAIN a
    BY <1>0, <1>1
  <2>2. Len(handles) + 1 \in Place
    BY <2>1 DEF Place, Specs
  <2> QED
    BY <1>1, <2>2 DEF Uuid
<1>3. /\ more \in Seq(Uuid) /\ Len(more) = Len(handles) + 1
      /\ \A i \in 1..Len(handles) : more[i] = handles[i]
      /\ more[Len(handles) + 1] = u
  BY <1>2
<1>4. /\ Tail(rest) \in Seq(Task) /\ Len(Tail(rest)) = Len(rest) - 1
      /\ \A i \in 1..Len(Tail(rest)) : Tail(rest)[i] = rest[i + 1]
  BY <1>1
<1>5. Len(handles) \in Nat /\ Len(rest) \in Nat \ {0}
  BY <1>1
<1> HIDE DEF more
<1>6. Len(a) = Len(more) + Len(Tail(rest))
  BY <1>3, <1>4, <1>5 DEF Divides
<1>7. ASSUME NEW i \in 1..Len(more) PROVE more[i] = <<j, i, a[i]>>
  <2>1. CASE i \in 1..Len(handles)
    BY <1>3, <2>1 DEF Divides
  <2>2. CASE i = Len(handles) + 1
    <3>1. rest[1] = a[Len(handles) + 1]
      BY <1>5 DEF Divides
    <3> QED
      BY <1>1, <1>3, <2>2, <3>1
  <2> QED
    BY <1>3, <1>5, <2>1, <2>2
<1>8. ASSUME NEW i \in 1..Len(Tail(rest)) PROVE Tail(rest)[i] = a[Len(more) + i]
  <2>1. i + 1 \in 1..Len(rest) /\ Len(handles) + (i + 1) = Len(more) + i
    BY <1>3, <1>4, <1>5
  <2> QED
    BY <1>4, <2>1 DEF Divides
<1> QED
  BY <1>2, <1>3, <1>4, <1>6, <1>7, <1>8 DEF Divides, Snapshot, more

\* When nothing is left to save, the handles are for the tasks of the spec.
LEMMA Whole ==
    ASSUME NEW a \in Seq(Task), NEW handles \in Seq(Uuid), NEW rest \in Seq(Task),
           Len(rest) = 0, NEW j, Divides(a, handles, rest, j)
    PROVE  /\ [i \in DOMAIN handles |-> handles[i][3]] = a
           /\ \A i \in DOMAIN handles : handles[i][1] = j
<1>1. DOMAIN handles = 1..Len(handles) /\ Len(handles) \in Nat
  OBVIOUS
<1>2. Len(a) = Len(handles) /\ \A i \in 1..Len(handles) : handles[i] = <<j, i, a[i]>>
  BY <1>1 DEF Divides
<1>3. DOMAIN a = 1..Len(a) /\ a = [i \in DOMAIN a |-> a[i]]
  OBVIOUS
<1> QED
  BY <1>1, <1>2, <1>3

-----------------------------------------------------------------------------
(* One call. *)

Frozen(d) ==
    /\ pc'[d] = pc[d] /\ op'[d] = op[d] /\ job'[d] = job[d]
    /\ todo'[d] = todo[d] /\ made'[d] = made[d] /\ result'[d] = result[d]

\* A call that does nothing loses nothing: what is on disk stays there or is deleted.
LEMMA FrozenLocal ==
    ASSUME NEW d, Frozen(d), Safe \subseteq Safe', Local(d)
    PROVE  Local(d)'
<1>1. Partway(d) => Partway(d)'
  BY DEF Frozen, Partway, Divides
<1>2. Complete(d) => Complete(d)'
  BY DEF Frozen, Complete
<1> QED
  BY <1>1, <1>2 DEF Frozen, Local

Acts(c) == Spawn(c) \/ AttachUuid(c) \/ Attach(c) \/ Step(c) \/ Drop(c)

\* Once the files are whole or absent, an entry that is not there any more was
\* deleted.
LEMMA SafeGrows ==
    ASSUME Shape, deleted \subseteq deleted',
           \A u \in Uuid : files[u] = "whole" =>
               files'[u] = "whole" \/ u \in deleted'
    PROVE  Safe \subseteq Safe'
BY DEF Safe, Entries

LEMMA Frame ==
    ASSUME Tables, Shape, NEW c \in Client, Acts(c)
    PROVE  /\ Tables' /\ Safe \subseteq Safe'
           /\ \A d \in Client \ {c} : Frozen(d)
<1>1. DOMAIN pc = Client /\ DOMAIN job = Client
  BY DEF Shape
<1>2. UNCHANGED <<files, deleted>>
  BY DEF Acts, Step, Spawn, AttachUuid, Attach, Drop, SbatchOk, SbatchFails, SaveEnds,
         SbatchGarbled, SbatchKilled, SaveFails, RunEnds, ReadEntry, SkipEntry, ScanEnds,
         ScanFails, disk, known
<1>3. Safe \subseteq Safe'
  BY <1>2 DEF Safe, Entries
<1>4. \A how, h : Return(c, how, h) /\ UNCHANGED <<op, job>>
                  => Tables' /\ \A d \in Client \ {c} : Frozen(d)
  BY <1>1 DEF Tables, Frozen, Return, Go
<1>5. CASE Spawn(c) \/ Attach(c)
  <2>1. PICK o, j, ts, l : Start(c, o, j, ts) /\ Go(c, l)
    BY <1>5 DEF Spawn, Attach
  <2> QED
    BY <1>1, <1>3, <2>1 DEF Tables, Frozen, Start, Go
<1>6. CASE AttachUuid(c)
  <2>1. PICK u, how :
          /\ op' = [op EXCEPT ![c] = "attach_uuid"]
          /\ job' = [job EXCEPT ![c] = u[1]]
          /\ made' = [made EXCEPT ![c] = IF u \in Entries THEN <<u>> ELSE <<>>]
          /\ result' = [result EXCEPT ![c] = how]
    BY <1>6 DEF AttachUuid
  <2>2. UNCHANGED <<pc, todo>>
    BY <1>6 DEF AttachUuid
  <2> QED
    BY <1>1, <1>3, <2>1, <2>2 DEF Tables, Frozen
<1>7. CASE SbatchOk(c)
  <2>1. PICK j \in Job : job' = [job EXCEPT ![c] = j]
    BY <1>7 DEF SbatchOk
  <2> QED
    BY <1>1, <1>3, <1>7, <2>1 DEF SbatchOk, Go, Tables, Frozen
<1>8. CASE SbatchFails(c) \/ SbatchGarbled(c)
  BY <1>3, <1>4, <1>8 DEF SbatchFails, SbatchGarbled
<1>9. CASE SbatchKilled(c)
  BY <1>3, <1>4, <1>9 DEF SbatchKilled
<1>10. CASE SaveFails(c) \/ RunEnds(c) \/ ScanFails(c)
  BY <1>3, <1>4, <1>10 DEF SaveFails, RunEnds, ScanFails
<1>11. CASE ReadEntry(c) \/ SkipEntry(c)
  BY <1>3, <1>11 DEF ReadEntry, SkipEntry, call, Tables, Frozen
<1>12. CASE ScanEnds(c) \/ Drop(c)
  BY <1>3, <1>4, <1>12 DEF ScanEnds, Drop
<1>13. CASE SaveEnds(c) /\ Len(todo[c]) = 1 /\ op[c] # "run"
  BY <1>3, <1>4, <1>13 DEF SaveEnds
<1>14. CASE SaveEnds(c) /\ ~(Len(todo[c]) = 1 /\ op[c] # "run")
  BY <1>1, <1>3, <1>14 DEF SaveEnds, Go, Tables, Frozen
<1> QED
  BY <1>5, <1>6, <1>7, <1>8, <1>9, <1>10, <1>11, <1>12, <1>13, <1>14 DEF Acts, Step

\* A call that returns with nothing made, or that was no spawn, owes nothing.
LEMMA Returned ==
    ASSUME NEW c, pc'[c] = "idle",
           result'[c] # "ok" \/ op'[c] \notin {"spawn", "spawn_array"}
    PROVE  Local(c)'
BY DEF Local, Saving

LEMMA SelfLocal ==
    ASSUME Tables, DiskInv, NEW c \in Client, Local(c), Safe \subseteq Safe', Acts(c)
    PROVE  Local(c)'
<1>1. DOMAIN pc = Client /\ DOMAIN job = Client
  BY DEF DiskInv, Shape
<1>2. ASSUME NEW how, NEW h, Return(c, how, h), UNCHANGED op,
             how # "ok" \/ op[c] \notin {"spawn", "spawn_array"}
      PROVE  Local(c)'
  <2>1. pc'[c] = "idle" /\ result'[c] = how /\ op'[c] = op[c]
    BY <1>1, <1>2 DEF Return, Go, Tables
  <2> QED
    BY <1>2, <2>1, Returned
<1>3. CASE Spawn(c)
  <2>1. PICK a \in Specs, o \in {"spawn", "run", "spawn_array"} :
              Start(c, o, NoJob, a) /\ Go(c, "sbatch")
    BY <1>3 DEF Spawn, Specs
  <2>2. /\ pc'[c] = "sbatch" /\ op'[c] = o /\ made'[c] = <<>> /\ todo'[c] = a
        /\ job'[c] = NoJob /\ result'[c] = "none"
    BY <1>1, <2>1 DEF Start, Go, Tables
  <2>3. a \in Seq(Task) /\ a # <<>> /\ <<>> \in Seq(Uuid)
    BY SpecsType
  <2>4. Divides(a, <<>>, a, NoJob)
    BY <2>3 DEF Divides
  <2>5. Partway(c)'
    BY <2>2, <2>3, <2>4 DEF Partway, Divides, Saving
  <2> QED
    BY <2>2, <2>5 DEF Local
<1>4. CASE AttachUuid(c)
  <2>1. op'[c] = "attach_uuid" /\ pc'[c] = "idle"
    BY <1>1, <1>4 DEF AttachUuid, Tables
  <2> QED
    BY <2>1, Returned
<1>5. CASE Attach(c)
  <2>1. PICK o \in {"attach_jobid", "attach_array"}, j \in accepted :
              Start(c, o, j, <<>>)
    BY <1>5 DEF Attach
  <2>2. pc'[c] = "scan" /\ op'[c] = o /\ result'[c] = "none"
    BY <1>1, <1>5, <2>1 DEF Attach, Start, Go, Tables
  <2> QED
    BY <2>2 DEF Local, Saving
<1>6. CASE SbatchOk(c)
  <2>1. PICK j \in Job : job' = [job EXCEPT ![c] = j]
    BY <1>6 DEF SbatchOk
  <2>2. /\ pc[c] = "sbatch" /\ pc'[c] = "save" /\ job'[c] = j
        /\ UNCHANGED <<op, todo, made, result>>
    BY <1>1, <1>6, <2>1 DEF SbatchOk, Go
  <2>3. Partway(c) /\ made[c] = <<>> /\ result[c] = "none"
    BY <2>2 DEF Local, Partway
  <2>4. PICK a \in Specs : Divides(a, made[c], todo[c], job[c])
    BY <2>3 DEF Partway
  <2>5. Divides(a, made[c], todo[c], j)
    BY <2>3, <2>4 DEF Divides
  <2>6. Partway(c)'
    BY <2>2, <2>3, <2>5 DEF Partway, Divides
  <2> QED
    BY <2>2, <2>3, <2>6 DEF Local
<1>7. CASE SkipEntry(c)
  <2>1. Frozen(c)
    BY <1>7 DEF SkipEntry, call, Frozen
  <2> QED
    BY <2>1, FrozenLocal
<1>8. CASE SaveEnds(c)
  <2>1. /\ pc[c] = "save" /\ UNCHANGED <<op, job>>
        /\ writes[Current(c)] = "done"
        /\ Partway(c) /\ result[c] = "none"
    BY <1>8 DEF SaveEnds, Local, Saving
  <2>2. PICK a \in Specs : Divides(a, made[c], todo[c], job[c])
    BY <2>1 DEF Partway
  <2> DEFINE handles == Append(made[c], Current(c))
             rest == Tail(todo[c])
  <2>3. /\ Current(c) \in Uuid /\ handles \in Seq(Uuid) /\ rest \in Seq(Task)
        /\ Divides(a, handles, rest, job[c])
    <3>1. job[c] \in Job
      BY <2>1 DEF Partway, Saving
    <3> QED
      BY <2>1, <2>2, <3>1, Advance DEF Partway, Current
  <2>4. \A i \in 1..Len(handles) : handles[i] \in Safe'
    <3>1. Current(c) \in Safe'
      BY <2>1, <2>3 DEF DiskInv
    <3>2. made[c] \in Seq(Uuid) /\ \A i \in 1..Len(made[c]) : made[c][i] \in Safe
      BY <2>1 DEF Partway
    <3> QED
      BY <2>3, <3>1, <3>2
  <2>5. a \in Seq(Task)
    BY SpecsType
  <2> HIDE DEF handles, rest
  <2>6. CASE Len(todo[c]) = 1 /\ op[c] # "run"
    <3>1. /\ pc'[c] = "idle" /\ made'[c] = handles /\ job'[c] = job[c]
      BY <1>1, <1>8, <2>1, <2>6 DEF SaveEnds, Return, Go, Tables, handles
    <3>2. Len(rest) = 0
      BY <2>1, <2>6 DEF rest, Partway
    <3>3. [i \in DOMAIN handles |-> handles[i][3]] = a
          /\ \A i \in DOMAIN handles : handles[i][1] = job[c]
      BY <2>3, <2>5, <3>2, Whole
    <3>4. ToSet(handles) \subseteq Safe'
      BY <2>3, <2>4 DEF ToSet
    <3>5. Complete(c)'
      BY <3>1, <3>3, <3>4 DEF Complete, Specs
    <3> QED
      BY <3>1, <3>5 DEF Local, Saving
  <2>7. CASE Len(todo[c]) = 1 /\ op[c] = "run"
    <3>1. pc'[c] = "wait" /\ op'[c] = "run" /\ result'[c] = "none"
      BY <1>1, <1>8, <2>1, <2>7 DEF SaveEnds, Go
    <3> QED
      BY <3>1 DEF Local, Saving
  <2>8. CASE Len(todo[c]) # 1
    <3>1. /\ pc'[c] = "save" /\ made'[c] = handles /\ todo'[c] = rest
          /\ result'[c] = "none" /\ job'[c] = job[c]
      BY <1>1, <1>8, <2>1, <2>8 DEF SaveEnds, Go, Tables, handles, rest
    <3>2. rest # <<>> /\ job[c] \in Job
      <4>1. todo[c] \in Seq(Task) /\ todo[c] # <<>> /\ job[c] \in Job
        BY <2>1 DEF Partway, Saving
      <4>2. Len(todo[c]) \in Nat /\ Len(todo[c]) # 0
        BY <4>1
      <4>3. Len(rest) = Len(todo[c]) - 1
        BY <4>1, <4>2 DEF rest
      <4>4. Len(rest) # 0 /\ Len(<<>>) = 0
        BY <2>8, <4>2, <4>3
      <4> QED
        BY <4>1, <4>4
    <3>3. Partway(c)'
      BY <2>3, <2>4, <3>1, <3>2 DEF Partway, Divides
    <3> QED
      BY <3>1, <3>3 DEF Local
  <2> QED
    BY <2>6, <2>7, <2>8
<1>9. CASE RunEnds(c)
  <2>1. op[c] = "run" /\ UNCHANGED op /\ Return(c, "ok", made[c])
    BY <1>9 DEF RunEnds, Local
  <2> QED
    BY <1>2, <2>1
<1>10. CASE ScanEnds(c)
  <2>1. op[c] \in {"attach_jobid", "attach_array"} /\ UNCHANGED op
    BY <1>10 DEF ScanEnds, Local
  <2>2. PICK how, h : Return(c, how, h)
    BY <1>10 DEF ScanEnds
  <2> QED
    BY <1>2, <2>1, <2>2
<1>11. CASE ReadEntry(c)
  <2>1. Frozen(c)
    BY <1>11 DEF ReadEntry, call, Frozen
  <2> QED
    BY <2>1, FrozenLocal
<1>12. CASE \/ SbatchFails(c) \/ SbatchGarbled(c) \/ SaveFails(c)
            \/ ScanFails(c) \/ Drop(c)
  BY <1>2, <1>12 DEF SbatchFails, SbatchGarbled, SaveFails, ScanFails, Drop
<1>13. CASE SbatchKilled(c)
  BY <1>2, <1>13 DEF SbatchKilled
<1> QED
  BY <1>3, <1>4, <1>5, <1>6, <1>7, <1>8, <1>9, <1>10, <1>11, <1>12, <1>13 DEF Acts, Step

-----------------------------------------------------------------------------

\* What goes on besides the calls loses no entry that was not deleted.
LEMMA OthersKeep ==
    ASSUME Shape, (\E u \in Uuid : Write(u)) \/ Delete \/ UNCHANGED vars
    PROVE  UNCHANGED <<call, scan>> /\ Safe \subseteq Safe' /\ deleted \subseteq deleted'
<1>1. ASSUME NEW u \in Uuid, Write(u)
      PROVE  UNCHANGED <<call, scan>> /\ Safe \subseteq Safe' /\ deleted \subseteq deleted'
  <2>1. UNCHANGED <<call, scan, deleted>>
    BY <1>1 DEF Write, Fill, Persist, WriteFails, known
  <2>2. UNCHANGED files \/ files' = [files EXCEPT ![u] = "whole"]
    BY <1>1 DEF Write, Fill, Persist, WriteFails
  <2>3. Safe \subseteq Safe'
    BY <2>1, <2>2, SafeGrows DEF Shape
  <2> QED
    BY <2>1, <2>3
<1>2. CASE Delete
  <2>1. PICK u \in Names :
            files' = [files EXCEPT ![u] = "absent"] /\ deleted' = deleted \cup {u}
    BY <1>2 DEF Delete
  <2>2. UNCHANGED <<call, scan>>
    BY <1>2 DEF Delete
  <2>3. Safe \subseteq Safe'
    BY <2>1, SafeGrows DEF Shape
  <2> QED
    BY <2>1, <2>2, <2>3
<1>3. CASE UNCHANGED vars
  BY <1>3 DEF Safe, Entries, vars, disk, known
<1> QED
  BY <1>1, <1>2, <1>3

LEMMA LocalStep ==
    ASSUME DiskInv, LocalInv, [Next]_vars
    PROVE  LocalInv'
<1>1. Tables /\ \A c \in Client : Local(c)
  BY DEF LocalInv
<1>2. CASE \E c \in Client : Acts(c)
  <2>1. PICK c \in Client : Acts(c)
    BY <1>2
  <2>2. /\ Tables' /\ Safe \subseteq Safe'
        /\ \A d \in Client \ {c} : Frozen(d)
    BY <1>1, <2>1, Frame DEF DiskInv
  <2>3. Local(c)'
    BY <1>1, <2>1, <2>2, SelfLocal
  <2>4. \A d \in Client \ {c} : Local(d)'
    BY <1>1, <2>2, FrozenLocal
  <2> QED
    BY <2>2, <2>3, <2>4 DEF LocalInv
<1>3. CASE (\E u \in Uuid : Write(u)) \/ Delete \/ UNCHANGED vars
  <2>1. UNCHANGED call /\ Safe \subseteq Safe'
    BY <1>3, OthersKeep DEF DiskInv
  <2>2. \A d \in Client : Frozen(d)
    BY <2>1 DEF call, Frozen
  <2>3. \A d \in Client : Local(d)'
    BY <1>1, <2>1, <2>2, FrozenLocal
  <2> QED
    BY <1>1, <2>1, <2>3 DEF LocalInv, Tables, call
<1>4. CASE Crash \/ PowerLoss
  <2>1. Tables'
    BY <1>4 DEF Crash, PowerLoss, Dies, Tables
  <2>2. ASSUME NEW c \in Client PROVE Local(c)'
    BY <1>4, Returned DEF Crash, PowerLoss, Dies
  <2> QED
    BY <2>1, <2>2 DEF LocalInv
<1> QED
  BY <1>2, <1>3, <1>4 DEF Next, Acts

LEMMA LocalInit == Init => LocalInv
BY DEF Init, LocalInv, Tables, Local, Saving

LEMMA LocalInvariant == Spec => []LocalInv
<1>1. DiskInv /\ LocalInv /\ [Next]_vars => LocalInv'
  BY LocalStep
<1> QED
  BY <1>1, LocalInit, DiskInvariant, PTL DEF Spec

\* spawn() and spawn_array() return a handle for each task, in the order of the spec
\* and of the job SLURM has accepted, and each has its snapshot on disk unless it
\* was deleted: whatever other calls, failures, dropped futures and crashes there are.
THEOREM SpawnsAreSaved == Spec => []SpawnedIsSaved
<1>1. LocalInv => SpawnedIsSaved
  BY DEF LocalInv, Local, Complete, SpawnedIsSaved, Specs, Safe
<1> QED
  BY <1>1, LocalInvariant, PTL

-----------------------------------------------------------------------------
(* Attachment by jobid. *)

\* While the directory is read, what was in it at first is still to be read, has
\* been found or warned of, or was deleted.
Looking(c) ==
    /\ IsFiniteSet(found[c])
    /\ there[c] \subseteq Safe
    /\ there[c] \subseteq unread[c] \cup found[c] \cup skipped[c] \cup deleted

Single(c) ==
    /\ Len(made[c]) = 1
    /\ (there[c] \cap Of(job[c])) \ (deleted \cup skipped[c]) \subseteq ToSet(made[c])

ScanLocal(c) ==
    /\ pc[c] \in Saving \cup {"sbatch"} => op[c] \in {"spawn", "spawn_array", "run"}
    /\ pc[c] = "scan" => Looking(c)
    /\ result[c] = "ok" /\ op[c] = "attach_jobid" => Single(c)

ScanTables == \A f \in {unread, found, skipped, there} : DOMAIN f = Client

ScanInv == ScanTables /\ \A c \in Client : ScanLocal(c)

Unmoved(d) ==
    /\ Frozen(d)
    /\ unread'[d] = unread[d] /\ found'[d] = found[d]
    /\ skipped'[d] = skipped[d] /\ there'[d] = there[d]

LEMMA UnmovedScan ==
    ASSUME NEW d, Unmoved(d), Safe \subseteq Safe', deleted \subseteq deleted',
           ScanLocal(d)
    PROVE  ScanLocal(d)'
<1>1. Looking(d) => Looking(d)'
  BY DEF Unmoved, Looking
<1>2. Single(d) => Single(d)'
  BY DEF Unmoved, Frozen, Single, Of
<1> QED
  BY <1>1, <1>2 DEF Unmoved, Frozen, ScanLocal

LEMMA ScanFrame ==
    ASSUME ScanTables, NEW c \in Client, Acts(c)
    PROVE  /\ ScanTables' /\ deleted \subseteq deleted'
           /\ \A d \in Client \ {c} : /\ unread'[d] = unread[d]
                                     /\ found'[d] = found[d]
                                     /\ skipped'[d] = skipped[d]
                                     /\ there'[d] = there[d]
<1> DEFINE Others == /\ ScanTables'
                     /\ \A d \in Client \ {c} : /\ unread'[d] = unread[d]
                                               /\ found'[d] = found[d]
                                               /\ skipped'[d] = skipped[d]
                                               /\ there'[d] = there[d]
<1>1. UNCHANGED scan => Others
  BY DEF scan, ScanTables
<1>2. \A how, h : Return(c, how, h) /\ UNCHANGED <<skipped, there>> => Others
  BY DEF Return, ScanTables
<1> HIDE DEF Others
<1>4. Others
  <2>1. CASE Spawn(c) \/ AttachUuid(c) \/ SbatchOk(c)
    BY <1>1, <2>1 DEF Spawn, AttachUuid, SbatchOk
  <2>2. CASE SbatchFails(c) \/ SbatchGarbled(c) \/ SbatchKilled(c)
    BY <1>2, <2>2 DEF SbatchFails, SbatchGarbled, SbatchKilled
  <2>3. CASE SaveFails(c) \/ RunEnds(c) \/ ScanEnds(c) \/ ScanFails(c) \/ Drop(c)
    BY <1>2, <2>3 DEF SaveFails, RunEnds, ScanEnds, ScanFails, Drop
  <2>4. CASE Attach(c)
    BY <2>4 DEF Attach, ScanTables, Others
  <2>5. CASE ReadEntry(c)
    <3>1. PICK u \in Uuid :
            /\ unread' = [unread EXCEPT ![c] = @ \ {u}]
            /\ found' = [found EXCEPT ![c] = IF u \in Entries THEN @ \cup {u} ELSE @]
      BY <2>5 DEF ReadEntry
    <3>2. UNCHANGED <<skipped, there>>
      BY <2>5 DEF ReadEntry
    <3> QED
      BY <3>1, <3>2 DEF ScanTables, Others
  <2>6. CASE SkipEntry(c)
    BY <2>6 DEF SkipEntry, ScanTables, Others
  <2>7. CASE SaveEnds(c) /\ Len(todo[c]) = 1 /\ op[c] # "run"
    BY <1>2, <2>7 DEF SaveEnds
  <2>8. CASE SaveEnds(c) /\ ~(Len(todo[c]) = 1 /\ op[c] # "run")
    BY <1>1, <2>8 DEF SaveEnds, scan
  <2> QED
    BY <2>1, <2>2, <2>3, <2>4, <2>5, <2>6, <2>7, <2>8 DEF Acts, Step
<1>5. deleted \subseteq deleted'
  BY DEF Acts, Step, Spawn, AttachUuid, Attach, Drop, SbatchOk, SbatchFails, SaveEnds,
         SbatchGarbled, SbatchKilled, SaveFails, RunEnds, ReadEntry, SkipEntry, ScanEnds,
         ScanFails, known
<1> QED
  BY <1>4, <1>5 DEF Others

LEMMA ReturnedScan ==
    ASSUME NEW c, pc'[c] = "idle", result'[c] # "ok" \/ op'[c] # "attach_jobid"
    PROVE  ScanLocal(c)'
BY DEF ScanLocal, Saving

LEMMA SelfScan ==
    ASSUME Tables, ScanTables, Shape, NEW c \in Client, Local(c), ScanLocal(c),
           Safe \subseteq Safe', deleted \subseteq deleted', Acts(c)
    PROVE  ScanLocal(c)'
<1>1. DOMAIN pc = Client /\ DOMAIN job = Client
  BY DEF Shape
<1>2. ASSUME NEW how, NEW h, Return(c, how, h), UNCHANGED op,
             how # "ok" \/ op[c] # "attach_jobid"
      PROVE  ScanLocal(c)'
  <2>1. pc'[c] = "idle" /\ result'[c] = how /\ op'[c] = op[c]
    BY <1>1, <1>2 DEF Return, Go, Tables
  <2> QED
    BY <1>2, <2>1, ReturnedScan
<1>3. CASE Spawn(c)
  <2>1. PICK o \in {"spawn", "run", "spawn_array"}, a \in Specs :
              Start(c, o, NoJob, a) /\ Go(c, "sbatch")
    BY <1>3 DEF Spawn, Specs
  <2>2. pc'[c] = "sbatch" /\ op'[c] = o
    BY <1>1, <2>1 DEF Start, Go, Tables
  <2> QED
    BY <2>2 DEF ScanLocal
<1>4. CASE AttachUuid(c)
  <2>1. op'[c] = "attach_uuid" /\ pc'[c] = "idle"
    BY <1>1, <1>4 DEF AttachUuid, Tables
  <2> QED
    BY <2>1, ReturnedScan
<1>5. CASE Attach(c)
  <2>1. PICK o \in {"attach_jobid", "attach_array"}, j \in accepted :
              Start(c, o, j, <<>>)
    BY <1>5 DEF Attach
  <2>2. pc'[c] = "scan" /\ result'[c] = "none"
    BY <1>1, <1>5, <2>1 DEF Attach, Start, Go, Tables
  <2>3. /\ unread'[c] = Names /\ found'[c] = {} /\ there'[c] = Entries
    BY <1>5 DEF Attach, ScanTables
  <2>4. Looking(c)'
    BY <1>5, <2>3, FS_EmptySet DEF Attach, Looking, Safe, Entries, Names, disk, known
  <2> QED
    BY <2>2, <2>4 DEF ScanLocal, Saving
<1>6. CASE SbatchOk(c)
  <2>1. /\ pc[c] = "sbatch" /\ pc'[c] = "save" /\ op' = op /\ result' = result
    BY <1>1, <1>6 DEF SbatchOk, Go
  <2>2. result[c] = "none"
    BY <2>1 DEF Local
  <2> QED
    BY <2>1, <2>2 DEF ScanLocal, Saving
<1>7. CASE SaveEnds(c)
  <2>1. pc[c] = "save" /\ op[c] \in {"spawn", "spawn_array", "run"} /\ UNCHANGED op
    BY <1>7 DEF SaveEnds, ScanLocal, Saving
  <2>2. CASE Len(todo[c]) = 1 /\ op[c] # "run"
    BY <1>2, <1>7, <2>1, <2>2 DEF SaveEnds
  <2>3. CASE ~(Len(todo[c]) = 1 /\ op[c] # "run")
    <3>1. pc'[c] \in {"save", "wait"} /\ op'[c] = op[c]
      BY <1>1, <1>7, <2>1, <2>3 DEF SaveEnds, Go
    <3> QED
      BY <2>1, <3>1 DEF ScanLocal, Saving
  <2> QED
    BY <2>2, <2>3
<1>8. CASE RunEnds(c)
  <2>1. op[c] = "run" /\ UNCHANGED op /\ Return(c, "ok", made[c])
    BY <1>8 DEF RunEnds, Local
  <2> QED
    BY <1>2, <2>1
<1>9. CASE ReadEntry(c)
  <2>1. PICK u \in Uuid :
          /\ unread' = [unread EXCEPT ![c] = @ \ {u}]
          /\ found' = [found EXCEPT ![c] = IF u \in Entries THEN @ \cup {u} ELSE @]
    BY <1>9 DEF ReadEntry
  <2>2. pc[c] = "scan" /\ UNCHANGED <<pc, op, result, skipped, there>>
    BY <1>9 DEF ReadEntry, call
  <2>3. Looking(c) /\ result[c] = "none"
    BY <2>2 DEF ScanLocal, Local
  <2>4. /\ unread'[c] = unread[c] \ {u}
        /\ found'[c] = IF u \in Entries THEN found[c] \cup {u} ELSE found[c]
    BY <2>1 DEF ScanTables
  <2>5. IsFiniteSet(found'[c])
    BY <2>3, <2>4, FS_AddElement DEF Looking
  <2>6. u \in there[c] => u \in Entries \/ u \in deleted
    BY <2>3 DEF Looking, Safe
  <2>7. there'[c] \subseteq unread'[c] \cup found'[c] \cup skipped'[c] \cup deleted'
    BY <2>2, <2>3, <2>4, <2>6 DEF Looking
  <2>8. Looking(c)'
    BY <2>2, <2>3, <2>5, <2>7 DEF Looking
  <2> QED
    BY <2>2, <2>3, <2>8 DEF ScanLocal, Saving
<1>9b. CASE SkipEntry(c)
  <2>1. PICK u \in Entries :
          /\ unread' = [unread EXCEPT ![c] = @ \ {u}]
          /\ skipped' = [skipped EXCEPT ![c] = @ \cup {u}]
    BY <1>9b DEF SkipEntry
  <2>2. pc[c] = "scan" /\ UNCHANGED <<pc, op, result, found, there>>
    BY <1>9b DEF SkipEntry, call
  <2>3. Looking(c) /\ result[c] = "none"
    BY <2>2 DEF ScanLocal, Local
  <2>4. unread'[c] = unread[c] \ {u} /\ skipped'[c] = skipped[c] \cup {u}
    BY <2>1 DEF ScanTables
  <2>5. Looking(c)'
    BY <2>2, <2>3, <2>4 DEF Looking
  <2> QED
    BY <2>2, <2>3, <2>5 DEF ScanLocal, Saving
<1>10. CASE ScanEnds(c)
  <2>1. pc[c] = "scan" /\ unread[c] = {} /\ UNCHANGED <<op, job, skipped, there>>
    BY <1>10 DEF ScanEnds
  <2>2. PICK handles \in Attached(c) :
          Return(c, IF op[c] = "attach_array" \/ handles # <<>> THEN "ok"
                    ELSE IF found[c] \cap Of(job[c]) = {} THEN "not_found"
                    ELSE "multiple", handles)
    BY <1>10 DEF ScanEnds
  <2>3. CASE op[c] = "attach_jobid" /\ handles # <<>>
    <3> DEFINE matches == found[c] \cap Of(job[c])
    <3>1. Cardinality(matches) = 1 /\ \E u \in matches : handles = <<u>>
      BY <2>2, <2>3 DEF Attached
    <3>2. Looking(c)
      BY <2>1 DEF ScanLocal
    <3>3. IsFiniteSet(matches)
      BY <3>2, FS_Subset DEF Looking
    <3>4. PICK x : matches = {x}
      BY <3>1, <3>3, FS_Singleton
    <3>5. handles = <<x>>
      BY <3>1, <3>4
    <3>6. Len(handles) = 1 /\ ToSet(handles) = matches
      BY <3>4, <3>5 DEF ToSet
    <3>7. pc'[c] = "idle" /\ made'[c] = handles
      BY <1>1, <2>2 DEF Return, Go, Tables
    <3>8. (there[c] \cap Of(job[c])) \ (deleted' \cup skipped[c]) \subseteq matches
      BY <2>1, <3>2 DEF Looking
    <3>9. Single(c)'
      BY <2>1, <3>6, <3>7, <3>8 DEF Single, Of
    <3> QED
      BY <3>7, <3>9 DEF ScanLocal, Saving
  <2>4. CASE op[c] = "attach_jobid" /\ handles = <<>>
    <3>1. PICK how \in {"not_found", "multiple"} : Return(c, how, handles)
      BY <2>2, <2>4
    <3> QED
      BY <1>2, <2>1, <3>1
  <2>5. CASE op[c] # "attach_jobid"
    BY <1>2, <2>1, <2>2, <2>5
  <2> QED
    BY <2>3, <2>4, <2>5
<1>11. CASE \/ SbatchFails(c) \/ SbatchGarbled(c) \/ SaveFails(c)
            \/ ScanFails(c) \/ Drop(c)
  BY <1>2, <1>11 DEF SbatchFails, SbatchGarbled, SaveFails, ScanFails, Drop
<1>12. CASE SbatchKilled(c)
  BY <1>2, <1>12 DEF SbatchKilled
<1> QED
  BY <1>3, <1>4, <1>5, <1>6, <1>7, <1>8, <1>9, <1>9b, <1>10, <1>11, <1>12 DEF Acts, Step

LEMMA ScanStep ==
    ASSUME DiskInv, LocalInv, ScanInv, [Next]_vars
    PROVE  ScanInv'
<1>1. /\ Tables /\ ScanTables
      /\ \A c \in Client : Local(c) /\ ScanLocal(c)
  BY DEF LocalInv, ScanInv
<1>2. CASE \E c \in Client : Acts(c)
  <2>1. PICK c \in Client : Acts(c)
    BY <1>2
  <2>2. Safe \subseteq Safe' /\ \A d \in Client \ {c} : Frozen(d)
    BY <1>1, <2>1, Frame DEF DiskInv
  <2>3. /\ ScanTables' /\ deleted \subseteq deleted'
        /\ \A d \in Client \ {c} : Unmoved(d)
    BY <1>1, <2>1, <2>2, ScanFrame DEF Unmoved
  <2>4. ScanLocal(c)'
    BY <1>1, <2>1, <2>2, <2>3, SelfScan DEF DiskInv
  <2>5. \A d \in Client \ {c} : ScanLocal(d)'
    BY <1>1, <2>2, <2>3, UnmovedScan
  <2> QED
    BY <2>3, <2>4, <2>5 DEF ScanInv
<1>3. CASE (\E u \in Uuid : Write(u)) \/ Delete \/ UNCHANGED vars
  <2>1. UNCHANGED <<call, scan>> /\ Safe \subseteq Safe' /\ deleted \subseteq deleted'
    BY <1>3, OthersKeep DEF DiskInv
  <2>2. \A d \in Client : Unmoved(d)
    BY <2>1 DEF call, scan, Unmoved, Frozen
  <2>3. \A d \in Client : ScanLocal(d)'
    BY <1>1, <2>1, <2>2, UnmovedScan
  <2> QED
    BY <1>1, <2>1, <2>3 DEF ScanInv, ScanTables, scan
<1>4. CASE Crash \/ PowerLoss
  <2>1. ScanTables'
    BY <1>4 DEF Crash, PowerLoss, Dies, ScanTables
  <2>2. ASSUME NEW c \in Client PROVE ScanLocal(c)'
    BY <1>4, ReturnedScan DEF Crash, PowerLoss, Dies
  <2> QED
    BY <2>1, <2>2 DEF ScanInv
<1> QED
  BY <1>2, <1>3, <1>4 DEF Next, Acts

LEMMA ScanInit == Init => ScanInv
BY DEF Init, ScanInv, ScanTables, ScanLocal, Saving

\* attach() by jobid returns one handle, and every other snapshot of the job that was on
\* disk, whole, all the time it read the directory is one it has warned of as unreadable,
\* whatever was saved and deleted meanwhile.
THEOREM AttachIsSure == Spec => []AttachIsUnambiguous
<1>1. DiskInv /\ LocalInv /\ ScanInv /\ [Next]_vars => ScanInv'
  BY ScanStep
<1>2. ScanInv => AttachIsUnambiguous
  BY DEF ScanInv, ScanLocal, Single, AttachIsUnambiguous
<1> QED
  BY <1>1, <1>2, ScanInit, LocalInvariant, DiskInvariant, PTL DEF Spec

-----------------------------------------------------------------------------
(* Attachment to the tasks of an array. *)

\* ByTask() is a sort: each of the snapshots once, in the order of the tasks.
LEMMA ByTaskSorts ==
    ASSUME NEW S, IsFiniteSet(S), NEW s \in ByTask(S)
    PROVE  /\ s \in Seq(S) /\ ToSet(s) = S
           /\ \A i, k \in DOMAIN s : i < k => s[i] # s[k] /\ s[i][3] <= s[k][3]
<1> DEFINE n == Cardinality(S)
<1>1. n \in Nat
  BY FS_CardinalityType
<1>2. /\ s \in [1..n -> S]
      /\ \A i, k \in 1..n : i # k => s[i] # s[k]
      /\ \A i, k \in DOMAIN s : i < k => s[i][3] <= s[k][3]
  BY DEF ByTask, SetToSeqs
<1> HIDE DEF n
<1>3. DOMAIN s = 1..n /\ s \in Seq(S)
  BY <1>1, <1>2
<1>4. s \in Surjection(1..n, S)
  <2>1. s \in Injection(1..n, S)
    BY <1>2, Fun_IsInj
  <2>2. IsFiniteSet(1..n) /\ Cardinality(1..n) = n
    BY <1>1, FS_Interval
  <2> QED
    BY <2>1, <2>2, FS_Injection DEF n
<1>5. ToSet(s) = S
  BY <1>3, <1>4 DEF ToSet, Surjection
<1>6. \A i, k \in 1..n : i < k => s[i] # s[k]
  BY <1>1, <1>2
<1> QED
  BY <1>2, <1>3, <1>5, <1>6

-----------------------------------------------------------------------------
(* Types. *)

PcType == pc \in [Client -> {"idle", "sbatch", "save", "wait", "scan"}]
CallType ==
    /\ PcType
    /\ op \in [Client -> Calls \cup {"none"}]
    /\ job \in [Client -> Job \cup {NoJob}]
    /\ todo \in [Client -> Seq(Task)]
    /\ made \in [Client -> Seq(Uuid)]
    /\ result \in [Client -> Results \cup {"none"}]
    /\ cell \in [Client -> Job \cup {NoJob}]
ScanType ==
    /\ unread \in [Client -> SUBSET Uuid]
    /\ found \in [Client -> SUBSET Uuid]
    /\ skipped \in [Client -> SUBSET Uuid]
    /\ there \in [Client -> SUBSET Uuid]
KnownType ==
    /\ told \subseteq Job /\ lost \subseteq Job
    /\ deleted \subseteq Uuid /\ spoiled \subseteq Uuid
DiskType ==
    /\ files \in [Uuid -> {"absent", "torn", "whole"}]
    /\ writes \in [Uuid -> {"none", "torn", "whole", "done", "failed"}]
RestType == accepted \subseteq Job /\ troubles \in 0..MaxTroubles

LEMMA TypeParts == TypeOK <=> CallType /\ ScanType /\ KnownType /\ DiskType /\ RestType
BY DEF TypeOK, CallType, PcType, ScanType, KnownType, DiskType, RestType

LEMMA NoSequence == <<>> \in Seq(Task) /\ <<>> \in Seq(Uuid)
OBVIOUS

LEMMA ReturnType ==
    ASSUME CallType, ScanType, NEW c \in Client, NEW how \in Results, NEW h \in Seq(Uuid),
           Return(c, how, h), UNCHANGED <<op, job, cell, skipped, there>>
    PROVE  CallType' /\ ScanType'
<1>1. pc' \in [Client -> {"idle", "sbatch", "save", "wait", "scan"}]
  BY DEF Return, Go, CallType, PcType
<1>2. result' \in [Client -> Results \cup {"none"}]
  BY DEF Return, CallType
<1>3. made' \in [Client -> Seq(Uuid)]
  BY DEF Return, CallType
<1>4. todo' \in [Client -> Seq(Task)]
  BY NoSequence DEF Return, CallType
<1>5. ScanType'
  BY DEF Return, ScanType
<1> QED
  BY <1>1, <1>2, <1>3, <1>4, <1>5 DEF CallType, PcType

LEMMA StartType ==
    ASSUME CallType, NEW c \in Client, NEW o \in Calls, NEW j \in Job \cup {NoJob},
           NEW ts \in Seq(Task), NEW l \in {"sbatch", "scan"}, Start(c, o, j, ts), Go(c, l)
    PROVE  CallType'
<1>1. pc' \in [Client -> {"idle", "sbatch", "save", "wait", "scan"}]
  BY DEF Go, CallType, PcType
<1>2. op' \in [Client -> Calls \cup {"none"}] /\ job' \in [Client -> Job \cup {NoJob}]
         /\ cell' \in [Client -> Job \cup {NoJob}] /\ result' \in [Client -> Results \cup {"none"}]
  BY DEF Start, CallType
<1>3. made' \in [Client -> Seq(Uuid)]
  BY NoSequence DEF Start, CallType
<1>4. todo' \in [Client -> Seq(Task)]
  BY DEF Start, CallType
<1> QED
  BY <1>1, <1>2, <1>3, <1>4 DEF CallType, PcType

\* A failure takes one of the troubles that are left.
LEMMA TroubleType ==
    ASSUME RestType, Trouble
    PROVE  troubles' \in 0..MaxTroubles
BY SbatchManagerAssumption DEF RestType, Trouble

\* What an attachment makes handles of.
LEMMA AttachedType ==
    ASSUME NEW c, found[c] \subseteq Uuid, IsFiniteSet(found[c]), NEW h \in Attached(c)
    PROVE  h \in Seq(Uuid)
<1> DEFINE matches == found[c] \cap Of(job[c])
           tasks == {u \in matches : u[3] # NoTask}
<1>1. IsFiniteSet(matches) /\ IsFiniteSet(tasks) /\ matches \subseteq Uuid
  BY FS_Subset
<1>2. CASE op[c] = "attach_array"
  <2>1. h \in ByTask(tasks)
    BY <1>2 DEF Attached
  <2> HIDE DEF tasks
  <2>2. h \in Seq(tasks)
    BY <1>1, <2>1, ByTaskSorts
  <2>3. tasks \subseteq Uuid
    BY <1>1 DEF tasks
  <2> QED
    BY <2>2, <2>3
<1>3. CASE op[c] # "attach_array"
  <2>1. h = <<>> \/ \E u \in matches : h = <<u>>
    BY <1>3 DEF Attached
  <2> HIDE DEF matches
  <2>2. CASE h = <<>>
    BY <2>2, NoSequence
  <2>3. CASE \E u \in matches : h = <<u>>
    <3>1. PICK u \in Uuid : h = <<u>>
      BY <1>1, <2>3
    <3> QED
      BY <3>1
  <2> QED
    BY <2>1, <2>2, <2>3
<1> QED
  BY <1>2, <1>3

\* A call that saves is at work on a job and on a snapshot of it, and so is what it
\* saves next.
LEMMA SavingType ==
    ASSUME NEW c \in Client, Local(c), pc[c] \in Saving
    PROVE  /\ job[c] \in Job /\ Current(c) \in Uuid
           /\ Append(made[c], Current(c)) \in Seq(Uuid) /\ Tail(todo[c]) \in Seq(Task)
<1>1. /\ made[c] \in Seq(Uuid) /\ todo[c] \in Seq(Task) /\ todo[c] # <<>>
      /\ job[c] \in Job
      /\ \E a \in Specs : Divides(a, made[c], todo[c], job[c])
  BY DEF Local, Partway, Saving
<1> QED
  BY <1>1, Advance DEF Current

\* A write that begins, of whatever, keeps the types.
LEMMA SaveType ==
    ASSUME DiskType, UNCHANGED files, UNCHANGED writes \/ \E u : Save(u)
    PROVE  DiskType'
BY DEF DiskType, Save

LEMMA TypeSelf ==
    ASSUME TypeOK, NEW c \in Client, Local(c), ScanLocal(c), Acts(c)
    PROVE  TypeOK'
<1>1. CallType /\ ScanType /\ KnownType /\ DiskType /\ RestType
  BY TypeParts
<1>2. ASSUME CallType', ScanType', KnownType', DiskType', RestType'
      PROVE  TypeOK'
  BY <1>2 DEF TypeOK, CallType, PcType, ScanType, KnownType, DiskType, RestType
<1>3. UNCHANGED scan => ScanType'
  BY <1>1 DEF scan, ScanType
<1>4. UNCHANGED known => KnownType'
  BY <1>1 DEF known, KnownType
<1>5. UNCHANGED disk => DiskType'
  BY <1>1 DEF disk, DiskType
<1>6. UNCHANGED accepted /\ (Trouble \/ UNCHANGED troubles) => RestType'
  BY <1>1, TroubleType DEF RestType
<1>7. <<>> \in Seq(Uuid) /\ <<>> \in Seq(Task)
  BY NoSequence
<1>8. CASE Spawn(c)
  <2>1. PICK a \in Specs, o \in {"spawn", "run", "spawn_array"} :
            Start(c, o, NoJob, a) /\ Go(c, "sbatch")
    BY <1>8 DEF Spawn, Specs
  <2>2. a \in Seq(Task) /\ o \in Calls /\ NoJob \in Job \cup {NoJob}
    BY SpecsType DEF Calls
  <2>3. CallType'
    BY <1>1, <2>1, <2>2, StartType
  <2>4. UNCHANGED <<accepted, disk, scan, known, troubles>>
    BY <1>8 DEF Spawn
  <2> QED
    BY <1>2, <1>3, <1>4, <1>5, <1>6, <2>3, <2>4
<1>9. CASE Attach(c)
  <2>1. PICK o \in {"attach_jobid", "attach_array"}, j \in accepted :
              Start(c, o, j, <<>>)
    BY <1>9 DEF Attach
  <2>2. o \in Calls /\ j \in Job \cup {NoJob} /\ Go(c, "scan")
    BY <1>1, <1>9 DEF Attach, Calls, RestType
  <2>3. CallType'
    BY <1>1, <1>7, <2>1, <2>2, StartType
  <2>4. ScanType'
    BY <1>1, <1>9 DEF Attach, ScanType, Entries, Names
  <2>5. UNCHANGED <<accepted, disk, known, troubles>>
    BY <1>9 DEF Attach
  <2> QED
    BY <1>2, <1>4, <1>5, <1>6, <2>3, <2>4, <2>5
<1>10. CASE AttachUuid(c)
  <2>1. PICK u \in Uuid :
            /\ op' = [op EXCEPT ![c] = "attach_uuid"]
            /\ job' = [job EXCEPT ![c] = u[1]]
            /\ made' = [made EXCEPT ![c] = IF u \in Entries THEN <<u>> ELSE <<>>]
            /\ result' = [result EXCEPT ![c] = CASE u \in Entries -> "ok"
                                                 [] u \in Names \ Entries -> "io_error"
                                                 [] u \notin Names -> "not_found"]
    BY <1>10 DEF AttachUuid
  <2>2. UNCHANGED <<accepted, disk, pc, todo, cell, scan, known, troubles>>
    BY <1>10 DEF AttachUuid
  <2>3. u[1] \in Job /\ <<u>> \in Seq(Uuid)
    BY DEF Uuid
  <2>4. made' \in [Client -> Seq(Uuid)]
    BY <1>1, <1>7, <2>1, <2>3 DEF CallType
  <2>5. result' \in [Client -> Results \cup {"none"}]
    <3>1. \E how \in Results : result' = [result EXCEPT ![c] = how]
      <4>1. u \in Entries \/ u \in Names \ Entries \/ u \notin Names
        OBVIOUS
      <4>2. u \in Entries => u \in Names
        BY DEF Entries, Names
      <4> QED
        BY <2>1, <4>1, <4>2 DEF Results
    <3> QED
      BY <1>1, <3>1 DEF CallType
  <2>6. op' \in [Client -> Calls \cup {"none"}] /\ job' \in [Client -> Job \cup {NoJob}]
    BY <1>1, <2>1, <2>3 DEF CallType, Calls
  <2>7. CallType'
    BY <1>1, <2>2, <2>4, <2>5, <2>6 DEF CallType, PcType
  <2> QED
    BY <1>2, <1>3, <1>4, <1>5, <1>6, <2>2, <2>7
<1>11. CASE SbatchOk(c)
  <2>1. PICK j \in Job : accepted' = accepted \cup {j} /\ job' = [job EXCEPT ![c] = j]
    BY <1>11 DEF SbatchOk
  <2>2. Go(c, "save") /\ UNCHANGED <<files, op, todo, made, result, cell, scan, known, troubles>>
    BY <1>11 DEF SbatchOk
  <2>3. CallType'
    BY <1>1, <2>1, <2>2 DEF CallType, PcType, Go
  <2>4. RestType'
    BY <1>1, <2>1, <2>2 DEF RestType
  <2>5. DiskType'
    BY <1>1, <1>11, <2>2, SaveType DEF SbatchOk
  <2> QED
    BY <1>2, <1>3, <1>4, <2>2, <2>3, <2>4, <2>5
<1>12. CASE SbatchFails(c)
  <2>1. CallType' /\ ScanType'
    BY <1>1, <1>7, <1>12, ReturnType DEF SbatchFails, Results
  <2> QED
    BY <1>2, <1>4, <1>5, <1>6, <1>12, <2>1 DEF SbatchFails
<1>13. CASE SbatchGarbled(c)
  <2>1. CallType' /\ ScanType'
    BY <1>1, <1>7, <1>13, ReturnType DEF SbatchGarbled, Results
  <2>2. PICK j \in Job : accepted' = accepted \cup {j} /\ told' = told \cup {j}
    BY <1>13 DEF SbatchGarbled
  <2>3. Trouble /\ UNCHANGED <<disk, lost, deleted, spoiled>>
    BY <1>13 DEF SbatchGarbled
  <2>4. KnownType'
    BY <1>1, <2>2, <2>3 DEF KnownType
  <2>5. RestType'
    BY <1>1, <2>2, <2>3, TroubleType DEF RestType
  <2> QED
    BY <1>2, <1>5, <2>1, <2>3, <2>4, <2>5
<1>14. CASE SbatchKilled(c)
  <2>1. PICK how \in {"unparsed", "other"} : Return(c, how, <<>>)
    BY <1>14 DEF SbatchKilled
  <2>2. Trouble /\ UNCHANGED <<disk, op, job, cell, skipped, there, told, deleted, spoiled>>
    BY <1>14 DEF SbatchKilled
  <2>3. CallType' /\ ScanType'
    BY <1>1, <1>7, <2>1, <2>2, ReturnType DEF Results
  <2>4. /\ accepted' = accepted \/ \E j \in Job : accepted' = accepted \cup {j}
        /\ lost' = lost \/ \E j \in Job : lost' = lost \cup {j}
    BY <1>14 DEF SbatchKilled
  <2>5. KnownType'
    BY <1>1, <2>2, <2>4 DEF KnownType
  <2>6. RestType'
    BY <1>1, <2>2, <2>4, TroubleType DEF RestType
  <2> QED
    BY <1>2, <1>5, <2>2, <2>3, <2>5, <2>6
<1>15. CASE SkipEntry(c)
  <2>1. PICK u \in Entries :
          /\ unread' = [unread EXCEPT ![c] = @ \ {u}]
          /\ skipped' = [skipped EXCEPT ![c] = @ \cup {u}]
    BY <1>15 DEF SkipEntry
  <2>2. Trouble /\ UNCHANGED <<accepted, disk, call, found, there, known>>
    BY <1>15 DEF SkipEntry
  <2>3. u \in Uuid
    BY DEF Entries
  <2>4. ScanType'
    BY <1>1, <2>1, <2>2, <2>3 DEF ScanType
  <2>5. CallType'
    BY <1>1, <2>2 DEF call, CallType, PcType
  <2> QED
    BY <1>2, <1>4, <1>5, <1>6, <2>2, <2>4, <2>5
<1>16. CASE SaveEnds(c)
  <2> DEFINE handles == Append(made[c], Current(c))
             last == Len(todo[c]) = 1
  <2>1. /\ job[c] \in Job /\ handles \in Seq(Uuid) /\ Tail(todo[c]) \in Seq(Task)
    BY <1>16, SavingType DEF SaveEnds, Saving
  <2>2. /\ told' = IF last THEN told \cup {job[c]} ELSE told
        /\ cell' = IF last /\ op[c] = "run" THEN [cell EXCEPT ![c] = job[c]] ELSE cell
        /\ UNCHANGED <<accepted, files, op, job, skipped, there, lost, deleted, spoiled,
                       troubles>>
    BY <1>16 DEF SaveEnds
  <2>3. KnownType' /\ RestType'
    BY <1>1, <2>1, <2>2 DEF KnownType, RestType
  <2>4. DiskType'
    <3>1. UNCHANGED writes \/ \E u : Save(u)
      BY <1>16 DEF SaveEnds
    <3> QED
      BY <1>1, <2>2, <3>1, SaveType
  <2>5. CASE last /\ op[c] # "run"
    <3>1. Return(c, "ok", handles) /\ UNCHANGED <<op, job, cell, skipped, there>>
      BY <1>16, <2>2, <2>5 DEF SaveEnds
    <3>2. CallType' /\ ScanType'
      BY <1>1, <2>1, <3>1, ReturnType DEF Results
    <3> QED
      BY <1>2, <2>3, <2>4, <3>2
  <2>6. CASE ~(last /\ op[c] # "run")
    <3>1. /\ Go(c, IF last THEN "wait" ELSE "save")
          /\ made' = [made EXCEPT ![c] = handles]
          /\ todo' = [todo EXCEPT ![c] = Tail(@)]
          /\ UNCHANGED <<result, unread, found>>
      BY <1>16, <2>6 DEF SaveEnds
    <3> HIDE DEF handles
    <3>2. made' \in [Client -> Seq(Uuid)] /\ todo' \in [Client -> Seq(Task)]
      BY <1>1, <2>1, <3>1 DEF CallType
    <3>3. cell' \in [Client -> Job \cup {NoJob}]
      BY <1>1, <2>1, <2>2 DEF CallType
    <3>4. PcType'
      BY <1>1, <3>1 DEF CallType, PcType, Go
    <3>5. CallType'
      BY <1>1, <2>2, <3>1, <3>2, <3>3, <3>4 DEF CallType
    <3>6. ScanType'
      BY <1>1, <2>2, <3>1 DEF ScanType
    <3> QED
      BY <1>2, <2>3, <2>4, <3>5, <3>6
  <2> QED
    BY <2>5, <2>6
<1>17. CASE SaveFails(c)
  <2>1. CallType' /\ ScanType'
    BY <1>1, <1>7, <1>17, ReturnType DEF SaveFails, Results
  <2>2. job[c] \in Job
    BY <1>17, SavingType DEF SaveFails, Saving
  <2>3. KnownType'
    BY <1>1, <1>17, <2>2 DEF SaveFails, KnownType
  <2> QED
    BY <1>2, <1>5, <1>6, <1>17, <2>1, <2>3 DEF SaveFails
<1>18. CASE RunEnds(c)
  <2>1. made[c] \in Seq(Uuid)
    BY <1>1 DEF CallType
  <2>2. CallType' /\ ScanType'
    BY <1>1, <1>18, <2>1, ReturnType DEF RunEnds, Results
  <2> QED
    BY <1>2, <1>4, <1>5, <1>6, <1>18, <2>2 DEF RunEnds
<1>19. CASE ReadEntry(c)
  <2>1. PICK u \in Uuid :
          /\ unread' = [unread EXCEPT ![c] = @ \ {u}]
          /\ found' = [found EXCEPT ![c] = IF u \in Entries THEN @ \cup {u} ELSE @]
    BY <1>19 DEF ReadEntry
  <2>2. UNCHANGED <<accepted, disk, call, skipped, there, known, troubles>>
    BY <1>19 DEF ReadEntry
  <2>3. ScanType'
    BY <1>1, <2>1, <2>2 DEF ScanType
  <2>4. CallType'
    BY <1>1, <2>2 DEF call, CallType, PcType
  <2> QED
    BY <1>2, <1>4, <1>5, <1>6, <2>2, <2>3, <2>4
<1>20. CASE ScanEnds(c)
  <2>1. PICK h \in Attached(c) :
          Return(c, IF op[c] = "attach_array" \/ h # <<>> THEN "ok"
                    ELSE IF found[c] \cap Of(job[c]) = {} THEN "not_found"
                    ELSE "multiple", h)
    BY <1>20 DEF ScanEnds
  <2>2. PICK how \in {"ok", "not_found", "multiple"} : Return(c, how, h)
    BY <2>1
  <2>3. h \in Seq(Uuid)
    <3>1. Looking(c)
      BY <1>20 DEF ScanEnds, ScanLocal
    <3>2. found[c] \subseteq Uuid
      BY <1>1 DEF ScanType
    <3> QED
      BY <3>1, <3>2, AttachedType DEF Looking
  <2>4. CallType' /\ ScanType'
    BY <1>1, <1>20, <2>2, <2>3, ReturnType DEF ScanEnds, Results
  <2> QED
    BY <1>2, <1>4, <1>5, <1>6, <1>20, <2>4 DEF ScanEnds
<1>21. CASE ScanFails(c)
  <2>1. CallType' /\ ScanType'
    BY <1>1, <1>7, <1>21, ReturnType DEF ScanFails, Results
  <2> QED
    BY <1>2, <1>4, <1>5, <1>6, <1>21, <2>1 DEF ScanFails
<1>22. CASE Drop(c)
  <2>1. CallType' /\ ScanType'
    BY <1>1, <1>7, <1>22, ReturnType DEF Drop, Results
  <2>2. pc[c] \in Saving => job[c] \in Job
    BY SavingType
  <2>3. Trouble /\ UNCHANGED <<disk, told, deleted, spoiled>>
    BY <1>22 DEF Drop
  <2>4. /\ lost' = lost \/ \E j \in Job : lost' = lost \cup {j}
        /\ accepted' = accepted \/ \E j \in Job : accepted' = accepted \cup {j}
    BY <1>22, <2>2 DEF Drop, Saving
  <2>5. KnownType'
    BY <1>1, <2>3, <2>4 DEF KnownType
  <2>6. RestType'
    BY <1>1, <2>3, <2>4, TroubleType DEF RestType
  <2> QED
    BY <1>2, <1>5, <2>1, <2>3, <2>5, <2>6
<1> QED
  BY <1>8, <1>9, <1>10, <1>11, <1>12, <1>13, <1>14, <1>15, <1>16, <1>17, <1>18, <1>19,
     <1>20, <1>21, <1>22 DEF Acts, Step

LEMMA TypeStep ==
    ASSUME TypeOK, LocalInv, ScanInv, [Next]_vars
    PROVE  TypeOK'
<1>1. CASE \E c \in Client : Acts(c)
  BY <1>1, TypeSelf DEF LocalInv, ScanInv
<1>2. CallType /\ ScanType /\ KnownType /\ DiskType /\ RestType
  BY TypeParts
<1>3. ASSUME CallType', ScanType', KnownType', DiskType', RestType'
      PROVE  TypeOK'
  BY <1>3 DEF TypeOK, CallType, PcType, ScanType, KnownType, DiskType, RestType
<1>4. ASSUME UNCHANGED <<call, scan>>
      PROVE  CallType' /\ ScanType'
  BY <1>2, <1>4 DEF call, scan, CallType, PcType, ScanType
<1>5. CASE Delete
  <2>1. PICK u \in Names :
            files' = [files EXCEPT ![u] = "absent"] /\ deleted' = deleted \cup {u}
    BY <1>5 DEF Delete
  <2>2. Trouble /\ UNCHANGED <<accepted, writes, call, scan, told, lost, spoiled>>
    BY <1>5 DEF Delete
  <2>3. u \in Uuid
    BY DEF Names
  <2>4. KnownType' /\ DiskType'
    BY <1>2, <2>1, <2>2, <2>3 DEF KnownType, DiskType
  <2>5. RestType'
    BY <1>2, <2>2, TroubleType DEF RestType
  <2> QED
    BY <1>3, <1>4, <2>2, <2>4, <2>5
<1>6. ASSUME NEW u \in Uuid, Write(u)
      PROVE  TypeOK'
  <2>1. UNCHANGED <<accepted, call, scan, known>> /\ (Trouble \/ UNCHANGED troubles)
    BY <1>6 DEF Write, Fill, Persist, WriteFails
  <2>2. DiskType'
    <3>1. CASE Persist(u)
      <4>1. /\ files' = [files EXCEPT ![u] = "whole"]
            /\ writes' = [writes EXCEPT ![u] = "done"]
        BY <3>1 DEF Persist
      <4> QED
        BY <1>2, <4>1 DEF DiskType
    <3>2. CASE Fill(u) \/ WriteFails(u)
      BY <1>2, <3>2 DEF Fill, WriteFails, DiskType
    <3> QED
      BY <1>6, <3>1, <3>2 DEF Write
  <2>3. KnownType' /\ RestType'
    BY <1>2, <2>1, TroubleType DEF KnownType, RestType, known
  <2> QED
    BY <1>3, <1>4, <2>1, <2>2, <2>3
<1>7. CASE Crash \/ PowerLoss
  <2>0. Dies
    BY <1>7 DEF Crash, PowerLoss
  <2>1. CallType'
    BY <2>0, NoSequence DEF Dies, CallType, PcType
  <2>2. ScanType'
    BY <2>0 DEF Dies, ScanType
  <2>3. accepted' \subseteq Job
    BY <2>0 DEF Dies
  <2>4. lost' \subseteq Job
    <3>1. \A c \in Client : pc[c] \in Saving => job[c] \in Job
      BY SavingType DEF LocalInv
    <3>2. lost' = lost \cup (accepted' \ accepted)
                    \cup {job[c] : c \in {d \in Client : pc[d] = "save"}}
      BY <2>0 DEF Dies
    <3> QED
      BY <1>2, <2>3, <3>1, <3>2 DEF KnownType, Saving
  <2>5. /\ Trouble /\ UNCHANGED <<told, deleted>>
        /\ writes' = [u \in Uuid |-> "none"]
    BY <2>0 DEF Dies
  <2>6. spoiled' \subseteq Uuid
    BY <1>2, <1>7 DEF Crash, PowerLoss, KnownType, Names
  <2>7. files' \in [Uuid -> {"absent", "torn", "whole"}]
    <3>1. CASE Crash
      BY <1>2, <3>1 DEF Crash, DiskType
    <3>2. CASE PowerLoss
      <4>1. PICK torn, gone :
              files' = [u \in Uuid |-> IF u \in gone THEN "absent"
                                      ELSE IF u \in torn THEN "torn" ELSE files[u]]
        BY <3>2 DEF PowerLoss
      <4> QED
        BY <1>2, <4>1 DEF DiskType
    <3> QED
      BY <1>7, <3>1, <3>2
  <2>8. KnownType' /\ DiskType'
    BY <1>2, <2>4, <2>5, <2>6, <2>7 DEF KnownType, DiskType
  <2>9. RestType'
    BY <1>2, <2>3, <2>5, TroubleType DEF RestType
  <2> QED
    BY <1>3, <2>1, <2>2, <2>8, <2>9
<1>8. CASE UNCHANGED vars
  <2>1. UNCHANGED <<accepted, disk, call, scan, known, troubles>>
    BY <1>8 DEF vars
  <2>2. KnownType' /\ DiskType' /\ RestType'
    BY <1>2, <2>1 DEF KnownType, DiskType, RestType, known, disk
  <2> QED
    BY <1>3, <1>4, <2>1, <2>2
<1> QED
  BY <1>1, <1>5, <1>6, <1>7, <1>8 DEF Next, Acts

LEMMA TypeInit == Init => TypeOK
<1> SUFFICES ASSUME Init PROVE TypeOK
  OBVIOUS
<1>1. CallType
  BY NoSequence DEF Init, CallType, PcType
<1>2. ScanType /\ KnownType /\ DiskType
  BY DEF Init, ScanType, KnownType, DiskType
<1>3. RestType
  BY SbatchManagerAssumption DEF Init, RestType
<1> QED
  BY <1>1, <1>2, <1>3, TypeParts

LEMMA ScanInvariant == Spec => []ScanInv
<1>1. DiskInv /\ LocalInv /\ ScanInv /\ [Next]_vars => ScanInv'
  BY ScanStep
<1> QED
  BY <1>1, ScanInit, LocalInvariant, DiskInvariant, PTL DEF Spec

\* The manager's state is what it should be: the handles it makes are of snapshots, and
\* the jobs it tells of are SLURM's (sbatch/manager.rs).
THEOREM ManagerTypes == Spec => []TypeOK
BY TypeInit, TypeStep, LocalInvariant, ScanInvariant, PTL DEF Spec

-----------------------------------------------------------------------------
(* The tasks of an array that are found. *)

Gathered(c) ==
    /\ (there[c] \cap Of(job[c])) \ (Singles \cup deleted \cup skipped[c])
          \subseteq ToSet(made[c])
    /\ \A i \in DOMAIN made[c] : made[c][i] \in Job \X Place \X Index
    /\ \A i \in DOMAIN made[c] : made[c][i][1] = job[c]
    /\ \A i, k \in DOMAIN made[c] :
          i < k => made[c][i] # made[c][k] /\ made[c][i][3] <= made[c][k][3]

ArrayLocal(c) == result[c] = "ok" /\ op[c] = "attach_array" => Gathered(c)
ArrayInv == \A c \in Client : ArrayLocal(c)

LEMMA UnmovedArray ==
    ASSUME NEW d, Unmoved(d), deleted \subseteq deleted', ArrayLocal(d)
    PROVE  ArrayLocal(d)'
<1>1. Gathered(d) => Gathered(d)'
  BY DEF Unmoved, Frozen, Gathered, Of
<1> QED
  BY <1>1 DEF Unmoved, Frozen, ArrayLocal

\* When a scan has read all that was there, its handles are for the tasks it has found.
LEMMA ScanGathers ==
    ASSUME TypeOK, ScanTables, Tables, NEW c \in Client, ScanLocal(c),
           ScanEnds(c), op[c] = "attach_array"
    PROVE  Gathered(c)'
<1> DEFINE tasks == {u \in found[c] \cap Of(job[c]) : u[3] # NoTask}
<1>1. Looking(c) /\ unread[c] = {} /\ found[c] \subseteq Uuid
  BY DEF ScanEnds, ScanLocal, TypeOK
<1>2. PICK h \in ByTask(tasks) : made'[c] = h
  <2>1. Attached(c) = ByTask(tasks)
    BY DEF Attached
  <2> QED
    BY <2>1 DEF ScanEnds, Return, Tables
<1>3. UNCHANGED <<op, job, skipped, there, deleted>>
  BY DEF ScanEnds, known
<1>4. IsFiniteSet(tasks)
  BY <1>1, FS_Subset DEF Looking
<1>5. \A u \in tasks : u \in Job \X Place \X Index /\ u[1] = job[c]
  BY <1>1 DEF Of, Uuid, Task
<1>6. \A u \in there[c] \cap Of(job[c]) :
          u \notin Singles \cup deleted \cup skipped[c] => u \in tasks
  BY <1>1 DEF Looking, Of, Uuid, Singles
<1> HIDE DEF tasks
<1>7. /\ h \in Seq(tasks) /\ ToSet(h) = tasks
      /\ \A i, k \in DOMAIN h : i < k => h[i] # h[k] /\ h[i][3] <= h[k][3]
  BY <1>4, ByTaskSorts
<1>8. \A i \in DOMAIN h : h[i] \in tasks
  BY <1>7
<1>9. (there[c] \cap Of(job[c])) \ (Singles \cup deleted \cup skipped[c]) \subseteq tasks
  BY <1>6
<1> QED
  BY <1>2, <1>3, <1>5, <1>7, <1>8, <1>9 DEF Gathered, Of

LEMMA SelfArray ==
    ASSUME TypeOK, Tables, ScanTables, Shape, NEW c \in Client, Local(c), ScanLocal(c), Acts(c)
    PROVE  ArrayLocal(c)'
<1>1. DOMAIN pc = Client /\ DOMAIN job = Client
  BY DEF Shape
<1>2. ASSUME result'[c] # "ok" \/ op'[c] # "attach_array"
      PROVE  ArrayLocal(c)'
  BY <1>2 DEF ArrayLocal
<1>3. ASSUME NEW how, NEW h, Return(c, how, h), UNCHANGED op,
             how # "ok" \/ op[c] # "attach_array"
      PROVE  ArrayLocal(c)'
  BY <1>2, <1>3 DEF Return, Tables
<1>4. CASE Spawn(c) \/ Attach(c)
  <2>1. PICK o, j, ts : Start(c, o, j, ts)
    BY <1>4 DEF Spawn, Attach
  <2>2. result'[c] = "none"
    BY <2>1 DEF Start, Tables
  <2> QED
    BY <1>2, <2>2
<1>5. CASE AttachUuid(c)
  <2>1. op'[c] = "attach_uuid"
    BY <1>5 DEF AttachUuid, Tables
  <2> QED
    BY <1>2, <2>1
<1>6. CASE SbatchOk(c) \/ ReadEntry(c) \/ SkipEntry(c)
  <2>1. pc[c] # "idle" /\ result' = result
    BY <1>6 DEF SbatchOk, ReadEntry, SkipEntry, call
  <2> QED
    BY <1>2, <2>1 DEF Local
<1>7. CASE SaveEnds(c)
  <2>1. op[c] # "attach_array" /\ UNCHANGED op
    BY <1>7 DEF SaveEnds, ScanLocal, Saving
  <2> QED
    BY <1>2, <2>1
<1>8. CASE RunEnds(c)
  <2>1. op[c] = "run" /\ UNCHANGED op
    BY <1>8 DEF RunEnds, Local
  <2> QED
    BY <1>2, <2>1
<1>9. CASE ScanEnds(c)
  <2>1. UNCHANGED op
    BY <1>9 DEF ScanEnds
  <2> QED
    BY <1>2, <1>9, <2>1, ScanGathers DEF ArrayLocal
<1>10. CASE \/ SbatchFails(c) \/ SbatchGarbled(c) \/ SaveFails(c)
            \/ ScanFails(c) \/ Drop(c)
  BY <1>3, <1>10 DEF SbatchFails, SbatchGarbled, SaveFails, ScanFails, Drop
<1>11. CASE SbatchKilled(c)
  BY <1>3, <1>11 DEF SbatchKilled
<1> QED
  BY <1>4, <1>5, <1>6, <1>7, <1>8, <1>9, <1>10, <1>11 DEF Acts, Step

LEMMA ArrayStep ==
    ASSUME TypeOK, DiskInv, LocalInv, ScanInv, ArrayInv, [Next]_vars
    PROVE  ArrayInv'
<1>1. /\ Tables /\ ScanTables
      /\ \A c \in Client : Local(c) /\ ScanLocal(c) /\ ArrayLocal(c)
  BY DEF LocalInv, ScanInv, ArrayInv
<1>2. CASE \E c \in Client : Acts(c)
  <2>1. PICK c \in Client : Acts(c)
    BY <1>2
  <2>2. \A d \in Client \ {c} : Frozen(d)
    BY <1>1, <2>1, Frame DEF DiskInv
  <2>3. deleted \subseteq deleted' /\ \A d \in Client \ {c} : Unmoved(d)
    BY <1>1, <2>1, <2>2, ScanFrame DEF Unmoved
  <2>4. ArrayLocal(c)'
    BY <1>1, <2>1, SelfArray DEF DiskInv
  <2>5. \A d \in Client \ {c} : ArrayLocal(d)'
    BY <1>1, <2>3, UnmovedArray
  <2> QED
    BY <2>4, <2>5 DEF ArrayInv
<1>3. CASE (\E u \in Uuid : Write(u)) \/ Delete \/ UNCHANGED vars
  <2>1. UNCHANGED <<call, scan>> /\ deleted \subseteq deleted'
    BY <1>3, OthersKeep DEF DiskInv
  <2>2. \A d \in Client : Unmoved(d)
    BY <2>1 DEF call, scan, Unmoved, Frozen
  <2> QED
    BY <1>1, <2>1, <2>2, UnmovedArray DEF ArrayInv
<1>4. CASE Crash \/ PowerLoss
  <2>1. \A c \in Client : result'[c] = "none"
    BY <1>4 DEF Crash, PowerLoss, Dies
  <2> QED
    BY <2>1 DEF ArrayInv, ArrayLocal
<1> QED
  BY <1>2, <1>3, <1>4 DEF Next, Acts

\* attach_array_jobid() returns, in the order of the tasks, a handle for every snapshot
\* of a task that was on disk, whole, all the time it read the directory, but for those
\* it has warned of as unreadable, none twice and none of another job, however many other
\* calls save and delete meanwhile and however many tasks have several snapshots.
THEOREM ArraysAreFound == Spec => []ArrayIsFound
<1>1. Init => ArrayInv
  BY DEF Init, ArrayInv, ArrayLocal
<1>2. TypeOK /\ DiskInv /\ LocalInv /\ ScanInv /\ ArrayInv /\ [Next]_vars => ArrayInv'
  BY ArrayStep
<1>3. ArrayInv => ArrayIsFound
  BY DEF ArrayInv, ArrayLocal, Gathered, ArrayIsFound
<1> QED
  BY <1>1, <1>2, <1>3, ManagerTypes, LocalInvariant, ScanInvariant, DiskInvariant, PTL
  DEF Spec
==============================================================================
