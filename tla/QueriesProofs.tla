---------------------------- MODULE QueriesProofs ----------------------------
(***************************************************************************)
(* What the functions that only look at their arguments do: stores of both  *)
(* kinds in one directory, and the attachments to what they find; sinks of  *)
(* logs; listings; the ends of logs; the handles of an array spec; the      *)
(* texts of the options' values; the templates of logs; the words of the    *)
(* command lines that are run; what is told of a command that ended; and    *)
(* the rows in which SLURM prints a job.                                    *)
(*                                                                         *)
(* What is proved of Spec is proved of its inputs, for any uuids, jobs,     *)
(* files, orders of rows and widths of integers; the texts that are typed   *)
(* are of as many lexemes, and the values and the ends of commands those,   *)
(* that MCQueries lists.  A theorem with an ASSUME holds of any arguments   *)
(* that it admits.                                                          *)
(***************************************************************************)
EXTENDS MCQueries, OptionProofs

-----------------------------------------------------------------------------
(* Stores. *)

\* Attachment keys.  A file is one that the directory has a place for.
AttachKeys(disk) ==
    [by : {"jobid", "pid"}, value : Int]
        \cup [by : {"uuid", "file"}, value : DOMAIN disk]

LEMMA FromValueKind ==
    ASSUME NEW kind, NEW file
    PROVE  \A s \in FromValue(kind, file).found : s = file.body /\ s.kind = kind
BY DEF FromValue, Ok, Error

LEMMA DecodeKind ==
    ASSUME NEW kind, NEW file
    PROVE  \A s \in Decode(kind, file).found : s = file.body /\ s.kind = kind
BY FromValueKind DEF Decode, Ok, Error

\* What a store loads is the body of the file it asks for, and of the store's kind.
LEMMA LoadKind ==
    ASSUME NEW disk, NEW kind, NEW uuid
    PROVE  \A s \in Load(disk, kind, uuid).found :
               s.kind = kind /\ \E file \in disk[uuid] : s = file.body
<1>1. CASE disk[uuid] = {}
  BY <1>1 DEF Load, Ok
<1>2. CASE disk[uuid] # {}
  <2> DEFINE file == CHOOSE f \in disk[uuid] : TRUE
  <2>1. file \in disk[uuid]
    BY <1>2
  <2>2. Load(disk, kind, uuid) = Decode(kind, file)
    BY <1>2 DEF Load
  <2> HIDE DEF file
  <2> QED
    BY <2>1, <2>2, DecodeKind
<1> QED
  BY <1>1, <1>2

\* A scan by a store of one kind yields snapshots of that kind only, each the body of
\* a file of the directory, whatever else is in it: files of the other kind, broken
\* ones, of older builds without a kind, of newer ones (store.rs, list()).
THEOREM ListsAreOfOneKind ==
    ASSUME NEW disk, NEW kind
    PROVE  \A s \in List(disk, kind) :
               /\ s.kind = kind
               /\ \E uuid \in DOMAIN disk : \E file \in disk[uuid] : s = file.body
<1> SUFFICES ASSUME NEW s \in List(disk, kind)
             PROVE  /\ s.kind = kind
                    /\ \E uuid \in DOMAIN disk : \E file \in disk[uuid] : s = file.body
  OBVIOUS
<1>1. PICK uuid \in DOMAIN disk : s \in Load(disk, kind, uuid).found
  BY DEF List
<1> QED
  BY <1>1, LoadKind

\* A snapshot that a store has saved is what a store of its kind loads by its uuid; a
\* store of the other kind finds nothing there, and no error; what any store loads by
\* another uuid is what it was (store.rs, save() and load()).
THEOREM SavedIsLoaded ==
    ASSUME NEW disk, NEW snap, snap.uuid \in DOMAIN disk, snap.kind \in Stores
    PROVE  LET after == Save(disk, snap)
           IN  /\ Load(after, snap.kind, snap.uuid) = Ok({snap})
               /\ \A kind \in Stores \ {snap.kind} :
                      Load(after, kind, snap.uuid) = Ok({})
               /\ \A kind \in Stores, uuid \in DOMAIN disk \ {snap.uuid} :
                      Load(after, kind, uuid) = Load(disk, kind, uuid)
<1> DEFINE after == Save(disk, snap)
           file == Encode(snap)
<1>1. after[snap.uuid] = {file}
  BY DEF Save
<1>2. \A uuid \in DOMAIN disk \ {snap.uuid} : after[uuid] = disk[uuid]
  BY DEF Save
<1>3. \A kind : Load(after, kind, snap.uuid) = Decode(kind, file)
  BY <1>1 DEF Load
<1>4. /\ file.whole /\ file.version = {SCHEMA_VERSION}
      /\ file.kind = {snap.kind} /\ file.body = snap
  BY DEF Encode
<1> HIDE DEF file, after
<1>5. Decode(snap.kind, file) = Ok({snap})
  BY <1>4 DEF Decode, FromValue
<1>6. \A kind \in Stores \ {snap.kind} : Decode(kind, file) = Ok({})
  BY <1>4 DEF Decode
<1>7. \A kind \in Stores, uuid \in DOMAIN disk \ {snap.uuid} :
          Load(after, kind, uuid) = Load(disk, kind, uuid)
  <2> TAKE kind \in Stores, uuid \in DOMAIN disk \ {snap.uuid}
  <2>1. after[uuid] = disk[uuid]
    BY <1>2
  <2> QED
    BY <2>1 DEF Load
<1> QED
  BY <1>3, <1>5, <1>6, <1>7 DEF after

-----------------------------------------------------------------------------

LEMMA FirstOfMember ==
    ASSUME NEW S
    PROVE  \A found \in FirstOf(S) : found \subseteq S
BY DEF FirstOf

LEMMA OfFoundMember ==
    ASSUME NEW found
    PROVE  \A s \in OfFound(found).of : s \in found
<1>1. found # {} => (CHOOSE s \in found : TRUE) \in found
  OBVIOUS
<1> QED
  BY <1>1 DEF OfFound, Refused, Handle

LEMMA FoundByJobid ==
    ASSUME NEW disk, NEW kind, NEW jobid
    PROVE  \A s \in FindAllByJobid(disk, kind, jobid) :
               s.kind = kind /\ jobid \in s.jobid
BY ListsAreOfOneKind DEF FindAllByJobid

\* A manager attaches to a job of its own kind, and to one that has the jobid or the
\* pid that was asked for (sbatch/manager.rs and tssrun/manager.rs, attach()).
THEOREM AttachesToItsOwn ==
    ASSUME NEW disk, NEW kind \in Stores, NEW key \in AttachKeys(disk),
           kind = "sbatch" => key.by # "pid"
    PROVE  \A answer \in Attach(disk, kind, key) : \A s \in answer.of :
               /\ s.kind = kind
               /\ key.by = "jobid" => key.value \in s.jobid
               /\ key.by = "pid" => key.value \in s.pid
<1> DEFINE Suits(answer) == \A s \in answer.of :
               /\ s.kind = kind
               /\ key.by = "jobid" => key.value \in s.jobid
               /\ key.by = "pid" => key.value \in s.pid
<1>1. \A why : Suits(Refused(why))
  BY DEF Refused
<1>2. ASSUME NEW found, \A s \in found : /\ s.kind = kind
                                         /\ key.by = "jobid" => key.value \in s.jobid
                                         /\ key.by = "pid" => key.value \in s.pid
      PROVE  Suits(OfFound(found))
  BY <1>2, OfFoundMember
<1>3. CASE key.by = "uuid"
  <2> DEFINE loaded == Load(disk, kind, key.value)
  <2>1. Attach(disk, kind, key)
           = {IF loaded.is = "error" THEN Refused("io") ELSE OfFound(loaded.found)}
    BY <1>3 DEF Attach, SbatchAttach, TssrunAttach, Stores
  <2>2. \A s \in loaded.found : s.kind = kind
    BY LoadKind
  <2> HIDE DEF loaded
  <2>3. Suits(OfFound(loaded.found))
    BY <1>2, <1>3, <2>2
  <2> HIDE DEF Suits
  <2>4. \A answer \in Attach(disk, kind, key) : Suits(answer)
    BY <1>1, <2>1, <2>3
  <2> QED
    BY <2>4 DEF Suits
<1>4. CASE key.by = "jobid"
  <2> DEFINE all == FindAllByJobid(disk, kind, key.value)
  <2>1. \A s \in all : s.kind = kind /\ key.value \in s.jobid
    BY FoundByJobid
  <2>2. ASSUME NEW found, found \subseteq all PROVE Suits(OfFound(found))
    BY <1>2, <1>4, <2>1, <2>2
  <2>3. CASE kind = "sbatch"
    <3>1. Attach(disk, kind, key)
             = {IF Cardinality(all) > 1 THEN Refused("multiple") ELSE OfFound(all)}
      BY <1>4, <2>3 DEF Attach, SbatchAttach
    <3>2. Suits(OfFound(all))
      BY <2>2
    <3> HIDE DEF Suits, all
    <3>3. \A answer \in Attach(disk, kind, key) : Suits(answer)
      BY <1>1, <3>1, <3>2
    <3> QED
      BY <3>3 DEF Suits
  <2>4. CASE kind = "tssrun"
    <3>1. Attach(disk, kind, key) = {OfFound(found) : found \in FirstOf(all)}
      BY <1>4, <2>4 DEF Attach, TssrunAttach, FindByJobid
    <3>2. \A found \in FirstOf(all) : Suits(OfFound(found))
      BY <2>2, FirstOfMember
    <3> HIDE DEF Suits, all
    <3>3. \A answer \in Attach(disk, kind, key) : Suits(answer)
      BY <3>1, <3>2
    <3> QED
      BY <3>3 DEF Suits
  <2> QED
    BY <2>3, <2>4 DEF Stores
<1>5. CASE key.by = "pid"
  <2> DEFINE all == {s \in List(disk, "tssrun") : key.value \in s.pid}
  <2>1. kind = "tssrun"
    BY <1>5 DEF Stores
  <2>2. Attach(disk, kind, key) = {OfFound(found) : found \in FirstOf(all)}
    BY <1>5, <2>1 DEF Attach, TssrunAttach, FindByPid
  <2>3. \A s \in all : s.kind = kind /\ key.value \in s.pid
    BY <2>1, ListsAreOfOneKind
  <2>4. \A found \in FirstOf(all) : Suits(OfFound(found))
    BY <1>2, <1>5, <2>3, FirstOfMember
  <2> HIDE DEF Suits, all
  <2>5. \A answer \in Attach(disk, kind, key) : Suits(answer)
    BY <2>2, <2>4
  <2> QED
    BY <2>5 DEF Suits
<1>6. CASE key.by = "file"
  <2> DEFINE file == CHOOSE f \in disk[key.value] : TRUE
             read == FromValue(kind, file)
  <2>1. \A s \in read.found : s.kind = kind
    BY FromValueKind
  <2>2. Suits(OfFound(read.found))
    BY <1>2, <1>6, <2>1
  <2>3. \A answer \in Attach(disk, kind, key) :
            (\E why : answer = Refused(why)) \/ answer = OfFound(read.found)
    <3>1. CASE kind = "sbatch"
      BY <1>6, <3>1 DEF Attach, SbatchAttach
    <3>2. CASE kind = "tssrun"
      BY <1>6, <3>2 DEF Attach, TssrunAttach
    <3> QED
      BY <3>1, <3>2 DEF Stores
  <2> HIDE DEF Suits, read
  <2>4. \A answer \in Attach(disk, kind, key) : Suits(answer)
    BY <1>1, <2>2, <2>3
  <2> QED
    BY <2>4 DEF Suits
<1>7. key.by \in {"jobid", "pid", "uuid", "file"}
  BY DEF AttachKeys
<1> QED
  BY <1>3, <1>4, <1>5, <1>6, <1>7

-----------------------------------------------------------------------------
(* Two stores in one directory, with files in it from before. *)

\* The uuids of each store are its own (here: told apart by their parity).
StoreOf(u) == IF u % 2 = 1 THEN "sbatch" ELSE "tssrun"

\* A file that may be there is of its uuid's store, and says so or nothing.
Fitting(u, f) ==
    /\ f.body.kind = StoreOf(u) /\ f.body.uuid = u
    /\ f.kind \in {{}, {f.body.kind}}

\* What the store in memory knows when the directory holds these files under one name.
Remembered(files, k) == {f.body : f \in {g \in files : Readable(g) /\ g.body.kind = k}}

\* What relates a directory, the maps next to it and the files from before.
StoresAgree(disk, mem, first) ==
    /\ DOMAIN disk = Uuids /\ DOMAIN first = Uuids /\ DOMAIN mem = Stores
    /\ \A k \in Stores : DOMAIN mem[k] = Uuids
    /\ \A u \in Uuids :
          /\ disk[u] = {} \/ \E f : disk[u] = {f} /\ Fitting(u, f)
          /\ \A f \in disk[u] \ first[u] : Readable(f) /\ f.kind = {f.body.kind}
          /\ \A k \in Stores : mem[k][u] = Remembered(disk[u], k)

\* Each store saves snapshots of its own kind only; the maps next to the stores are those
\* of which nothing is taken, and then what is left of them.
OwnKinds(mem) ==
    /\ DOMAIN mem = Stores
    /\ \A k \in Stores : DOMAIN mem[k] = Uuids
    /\ \A k \in Stores : \A u \in Uuids : k # StoreOf(u) => mem[k][u] = {}
LeftOf(mem, taken) == [k \in Stores |-> Left(mem[k], taken)]

StoresInv ==
    /\ "part" \in DOMAIN input
    /\ input.part = "store" =>
          /\ {"disk", "mem", "first", "taken"} \subseteq DOMAIN input
          /\ OwnKinds(input.mem)
          /\ StoresAgree(input.disk, LeftOf(input.mem, input.taken), input.first)

LEMMA SnapshotsFit ==
    ASSUME NEW u, NEW snap \in Snapshots(u)
    PROVE  snap.uuid = u /\ snap.kind = StoreOf(u)
BY DEF Snapshots, SbatchSnapshot, TssrunSnapshot, StoreOf

LEMMA EncodedFits ==
    ASSUME NEW u, NEW snap \in Snapshots(u)
    PROVE  /\ Fitting(u, Encode(snap)) /\ Readable(Encode(snap))
           /\ Encode(snap).kind = {snap.kind} /\ Encode(snap).body = snap
BY SnapshotsFit DEF Fitting, Encode, Readable, SCHEMA_VERSION

LEMMA FilesBeforeFit ==
    ASSUME NEW u, NEW f \in FilesThatMayBe(u)
    PROVE  Fitting(u, f)
<1>1. f \in FilesBefore(u) /\ f.kind \in {{}, {f.body.kind}}
  BY DEF FilesThatMayBe
<1>2. f.body \in Snapshots(u)
  BY <1>1 DEF FilesBefore
<1> QED
  BY <1>1, <1>2, SnapshotsFit DEF Fitting

\* To begin with.
LEMMA StoresAgreeBefore ==
    ASSUME NEW i \in StoresBefore
    PROVE  /\ DOMAIN i = {"part", "disk", "first", "mem", "taken"}
           /\ OwnKinds(i.mem)
           /\ StoresAgree(i.disk, LeftOf(i.mem, i.taken), i.first)
<1>1. PICK d \in [Uuids -> UNION {{{}} \cup {{f} : f \in FilesThatMayBe(u)} : u \in Uuids}] :
          /\ \A u \in Uuids : \A f \in d[u] : f.body.uuid = u
          /\ i = [part |-> "store", disk |-> d, first |-> d, taken |-> {},
                  mem |-> [k \in Stores |-> [u \in Uuids |-> Remembered(d[u], k)]]]
  BY DEF StoresBefore, Remembered
<1>2. ASSUME NEW u \in Uuids
      PROVE  d[u] = {} \/ \E f : d[u] = {f} /\ Fitting(u, f)
  <2>1. PICK v \in Uuids : d[u] \in {{}} \cup {{f} : f \in FilesThatMayBe(v)}
    BY <1>1
  <2>2. CASE d[u] # {}
    <3>1. PICK f \in FilesThatMayBe(v) : d[u] = {f}
      BY <2>1, <2>2
    <3>2. f.body.uuid = u
      BY <1>1, <3>1
    <3>3. Fitting(v, f)
      BY FilesBeforeFit
    <3>4. u = v
      BY <3>2, <3>3 DEF Fitting
    <3> QED
      BY <3>1, <3>3, <3>4
  <2> QED
    BY <2>2
<1> DEFINE mem == [k \in Stores |-> [u \in Uuids |-> Remembered(d[u], k)]]
<1>3. i.disk = d /\ i.first = d /\ i.mem = mem /\ i.taken = {}
  BY <1>1
<1>5. OwnKinds(mem)
  <2>1. ASSUME NEW k \in Stores, NEW u \in Uuids, k # StoreOf(u)
        PROVE  mem[k][u] = {}
    <3>1. mem[k][u] = Remembered(d[u], k)
      OBVIOUS
    <3>2. \A f \in d[u] : f.body.kind = StoreOf(u)
      BY <1>2 DEF Fitting
    <3> QED
      BY <2>1, <3>1, <3>2 DEF Remembered
  <2> QED
    BY <2>1 DEF OwnKinds
<1>6. LeftOf(mem, {}) = mem
  BY DEF LeftOf, Left
<1>4. StoresAgree(d, mem, d)
  BY <1>1, <1>2 DEF StoresAgree
<1> HIDE DEF mem
<1> QED
  BY <1>1, <1>3, <1>4, <1>5, <1>6

LEMMA RememberedOne ==
    ASSUME NEW f, NEW k
    PROVE  /\ Remembered({}, k) = {}
           /\ Remembered({f}, k) = IF Readable(f) /\ f.body.kind = k THEN {f.body} ELSE {}
BY DEF Remembered

LEMMA SavesKeepAgreement ==
    ASSUME NEW disk, NEW mem, NEW first, StoresAgree(disk, mem, first),
           NEW u \in Uuids, NEW snap \in Snapshots(u)
    PROVE  StoresAgree(Save(disk, snap), [mem EXCEPT ![snap.kind] = MemSave(@, snap)],
                       [first EXCEPT ![u] = {}])
<1> DEFINE after == Save(disk, snap)
           known == [mem EXCEPT ![snap.kind] = MemSave(@, snap)]
           left == [first EXCEPT ![u] = {}]
<1>1. snap.uuid = u /\ snap.kind = StoreOf(u) /\ StoreOf(u) \in Stores
  BY SnapshotsFit DEF StoreOf, Stores
<1>2. /\ DOMAIN disk = Uuids /\ DOMAIN first = Uuids /\ DOMAIN mem = Stores
      /\ \A k \in Stores : DOMAIN mem[k] = Uuids
  BY DEF StoresAgree
<1>3. /\ DOMAIN after = Uuids /\ after[u] = {Encode(snap)}
      /\ \A v \in Uuids \ {u} : after[v] = disk[v]
  BY <1>1, <1>2 DEF Save
<1>4. /\ DOMAIN left = Uuids /\ left[u] = {}
      /\ \A v \in Uuids \ {u} : left[v] = first[v]
  BY <1>2
<1>5. /\ DOMAIN known = Stores
      /\ known[StoreOf(u)] = [mem[StoreOf(u)] EXCEPT ![u] = {snap}]
      /\ \A k \in Stores \ {StoreOf(u)} : known[k] = mem[k]
  BY <1>1, <1>2 DEF MemSave
<1>6. \A k \in Stores : DOMAIN known[k] = Uuids
  BY <1>2, <1>5
<1> HIDE DEF after, known, left
<1>7. ASSUME NEW v \in Uuids \ {u}
      PROVE  /\ after[v] = {} \/ \E f : after[v] = {f} /\ Fitting(v, f)
             /\ \A f \in after[v] \ left[v] : Readable(f) /\ f.kind = {f.body.kind}
             /\ \A k \in Stores : known[k][v] = Remembered(after[v], k)
  <2>1. /\ disk[v] = {} \/ \E f : disk[v] = {f} /\ Fitting(v, f)
        /\ \A f \in disk[v] \ first[v] : Readable(f) /\ f.kind = {f.body.kind}
        /\ \A k \in Stores : mem[k][v] = Remembered(disk[v], k)
    BY DEF StoresAgree
  <2>2. \A k \in Stores : known[k][v] = mem[k][v]
    BY <1>2, <1>5, <1>7
  <2> QED
    BY <1>3, <1>4, <2>1, <2>2
<1>8. Fitting(u, Encode(snap)) /\ Readable(Encode(snap)) /\ Encode(snap).body = snap
         /\ Encode(snap).kind = {snap.kind}
  BY EncodedFits
<1>9. ASSUME NEW k \in Stores
      PROVE  known[k][u] = Remembered(after[u], k)
  <2> DEFINE file == Encode(snap)
  <2> HIDE DEF file
  <2>0. Remembered({file}, k) = IF Readable(file) /\ file.body.kind = k THEN {file.body} ELSE {}
    BY RememberedOne
  <2>3. Remembered(after[u], k) = IF k = StoreOf(u) THEN {snap} ELSE {}
    BY <1>1, <1>3, <1>8, <2>0 DEF file
  <2>1. CASE k = StoreOf(u)
    BY <1>2, <1>5, <2>1, <2>3
  <2>2. CASE k # StoreOf(u)
    <3>1. Remembered(after[u], k) = {}
      BY <2>2, <2>3
    <3>2. known[k][u] = Remembered(disk[u], k)
      BY <1>5, <2>2 DEF StoresAgree
    <3>3. disk[u] = {} \/ \E f : disk[u] = {f} /\ f.body.kind = StoreOf(u)
      BY DEF StoresAgree, Fitting
    <3> QED
      BY <2>2, <3>1, <3>2, <3>3, RememberedOne
  <2> QED
    BY <2>1, <2>2
<1>10. /\ \E f : after[u] = {f} /\ Fitting(u, f)
       /\ \A f \in after[u] \ left[u] : Readable(f) /\ f.kind = {f.body.kind}
  BY <1>3, <1>8
<1>11. StoresAgree(after, known, left)
  <2>1. ASSUME NEW v \in Uuids
        PROVE  /\ after[v] = {} \/ \E f : after[v] = {f} /\ Fitting(v, f)
               /\ \A f \in after[v] \ left[v] : Readable(f) /\ f.kind = {f.body.kind}
               /\ \A k \in Stores : known[k][v] = Remembered(after[v], k)
    <3>1. CASE v = u
      BY <1>9, <1>10, <3>1
    <3>2. CASE v # u
      BY <1>7, <3>2
    <3> QED
      BY <3>1, <3>2
  <2> QED
    BY <1>3, <1>4, <1>5, <1>6, <2>1 DEF StoresAgree
<1> QED
  BY <1>11 DEF after, known, left

LEMMA DeletesKeepAgreement ==
    ASSUME NEW disk, NEW mem, NEW first, StoresAgree(disk, mem, first), NEW u \in Uuids
    PROVE  StoresAgree(Delete(disk, u), [k \in Stores |-> MemDelete(mem[k], u)],
                       [first EXCEPT ![u] = {}])
<1> DEFINE after == Delete(disk, u)
           known == [k \in Stores |-> MemDelete(mem[k], u)]
           left == [first EXCEPT ![u] = {}]
<1>1. /\ DOMAIN disk = Uuids /\ DOMAIN first = Uuids /\ DOMAIN mem = Stores
      /\ \A k \in Stores : DOMAIN mem[k] = Uuids
  BY DEF StoresAgree
<1>2. /\ DOMAIN after = Uuids /\ after[u] = {}
      /\ \A v \in Uuids \ {u} : after[v] = disk[v]
  BY <1>1 DEF Delete
<1>3. /\ DOMAIN left = Uuids /\ left[u] = {}
      /\ \A v \in Uuids \ {u} : left[v] = first[v]
  BY <1>1
<1>4. /\ DOMAIN known = Stores
      /\ \A k \in Stores : /\ DOMAIN known[k] = Uuids /\ known[k][u] = {}
                           /\ \A v \in Uuids \ {u} : known[k][v] = mem[k][v]
  BY <1>1 DEF MemDelete
<1> HIDE DEF after, known, left
<1>5. ASSUME NEW v \in Uuids \ {u}
      PROVE  /\ after[v] = {} \/ \E f : after[v] = {f} /\ Fitting(v, f)
             /\ \A f \in after[v] \ left[v] : Readable(f) /\ f.kind = {f.body.kind}
             /\ \A k \in Stores : known[k][v] = Remembered(after[v], k)
  <2>1. /\ disk[v] = {} \/ \E f : disk[v] = {f} /\ Fitting(v, f)
        /\ \A f \in disk[v] \ first[v] : Readable(f) /\ f.kind = {f.body.kind}
        /\ \A k \in Stores : mem[k][v] = Remembered(disk[v], k)
    BY DEF StoresAgree
  <2> QED
    BY <1>2, <1>3, <1>4, <2>1
<1>6. \A k \in Stores : known[k][u] = Remembered(after[u], k)
  BY <1>2, <1>4, RememberedOne
<1>7. StoresAgree(after, known, left)
  BY <1>2, <1>3, <1>4, <1>5, <1>6 DEF StoresAgree
<1> QED
  BY <1>7 DEF after, known, left

\* A snapshot saved in the map of its kind.
SavedIn(mem, snap) == [mem EXCEPT ![snap.kind] = MemSave(@, snap)]

\* What is left of the maps: a snapshot that is saved is there again, whoever deleted what
\* was under its uuid, and what is deleted is in neither map.
LEMMA SavesAreLeft ==
    ASSUME NEW mem, OwnKinds(mem), NEW taken, NEW u \in Uuids, NEW snap \in Snapshots(u)
    PROVE  /\ OwnKinds(SavedIn(mem, snap))
           /\ LeftOf(SavedIn(mem, snap), taken \ {u}) = SavedIn(LeftOf(mem, taken), snap)
<1> DEFINE known == [mem EXCEPT ![snap.kind] = MemSave(@, snap)]
           left == LeftOf(mem, taken)
           after == [left EXCEPT ![snap.kind] = MemSave(@, snap)]
<1>1. snap.uuid = u /\ snap.kind = StoreOf(u) /\ StoreOf(u) \in Stores
  BY SnapshotsFit DEF StoreOf, Stores
<1>2. /\ DOMAIN mem = Stores
      /\ \A k \in Stores : DOMAIN mem[k] = Uuids
      /\ \A k \in Stores : \A v \in Uuids : k # StoreOf(v) => mem[k][v] = {}
  BY DEF OwnKinds
<1>3. /\ DOMAIN known = Stores
      /\ known[StoreOf(u)] = [mem[StoreOf(u)] EXCEPT ![u] = {snap}]
      /\ \A k \in Stores \ {StoreOf(u)} : known[k] = mem[k]
  BY <1>1, <1>2 DEF MemSave
<1>4. /\ DOMAIN left = Stores
      /\ \A k \in Stores : left[k] = [v \in Uuids |-> IF v \in taken THEN {} ELSE mem[k][v]]
  BY <1>2 DEF LeftOf, Left
<1>5. /\ after = [k \in Stores |-> IF k = StoreOf(u) THEN [left[k] EXCEPT ![u] = {snap}] ELSE left[k]]
  BY <1>1, <1>4 DEF MemSave
<1>6. LeftOf(known, taken \ {u}) = [k \in Stores |-> Left(known[k], taken \ {u})]
  BY DEF LeftOf
<1> HIDE DEF known, left, after
<1>7. OwnKinds(known)
  <2>1. \A k \in Stores : DOMAIN known[k] = Uuids
    BY <1>2, <1>3
  <2>2. ASSUME NEW k \in Stores, NEW v \in Uuids, k # StoreOf(v)
        PROVE  known[k][v] = {}
    BY <1>2, <1>3, <2>2
  <2> QED
    BY <1>3, <2>1, <2>2 DEF OwnKinds
<1>8. ASSUME NEW k \in Stores
      PROVE  Left(known[k], taken \ {u})
                = IF k = StoreOf(u) THEN [left[k] EXCEPT ![u] = {snap}] ELSE left[k]
  <2>1. DOMAIN known[k] = Uuids
    BY <1>2, <1>3
  <2>2. Left(known[k], taken \ {u}) = [v \in Uuids |-> IF v \in taken \ {u} THEN {} ELSE known[k][v]]
    BY <2>1 DEF Left
  <2>3. CASE k = StoreOf(u)
    <3>1. \A v \in Uuids : known[k][v] = IF v = u THEN {snap} ELSE mem[k][v]
      BY <1>2, <1>3, <2>3
    <3>2. [left[k] EXCEPT ![u] = {snap}] = [v \in Uuids |-> IF v = u THEN {snap} ELSE left[k][v]]
      BY <1>4
    <3>3. \A v \in Uuids : (IF v \in taken \ {u} THEN {} ELSE known[k][v])
                               = (IF v = u THEN {snap} ELSE left[k][v])
      BY <1>4, <3>1
    <3> DEFINE a(v) == IF v \in taken \ {u} THEN {} ELSE known[k][v]
               b(v) == IF v = u THEN {snap} ELSE left[k][v]
    <3>4. /\ \A v \in Uuids : a(v) = b(v)
          /\ Left(known[k], taken \ {u}) = [v \in Uuids |-> a(v)]
          /\ [left[k] EXCEPT ![u] = {snap}] = [v \in Uuids |-> b(v)]
      BY <2>2, <3>2, <3>3, Zenon
    <3> HIDE DEF a, b
    <3>5. [v \in Uuids |-> a(v)] = [v \in Uuids |-> b(v)]
      BY <3>4
    <3> QED
      BY <2>3, <3>4, <3>5
  <2>4. CASE k # StoreOf(u)
    <3>1. known[k] = mem[k] /\ mem[k][u] = {}
      BY <1>2, <1>3, <2>4
    <3> DEFINE a(v) == IF v \in taken \ {u} THEN {} ELSE known[k][v]
               b(v) == IF v \in taken THEN {} ELSE mem[k][v]
    <3>2. \A v \in Uuids : a(v) = b(v)
      BY <3>1
    <3>3. Left(known[k], taken \ {u}) = [v \in Uuids |-> a(v)] /\ left[k] = [v \in Uuids |-> b(v)]
      BY <1>4, <2>2, Zenon
    <3> HIDE DEF a, b
    <3>4. [v \in Uuids |-> a(v)] = [v \in Uuids |-> b(v)]
      BY <3>2
    <3> QED
      BY <2>4, <3>3, <3>4
  <2> QED
    BY <2>3, <2>4
<1> QED
  BY <1>5, <1>6, <1>7, <1>8 DEF known, after, left, SavedIn

LEMMA DeletesAreLeft ==
    ASSUME NEW mem, OwnKinds(mem), NEW taken, NEW k \in Stores, NEW u \in Uuids,
           NEW now, now = IF \E l \in Stores \ {k} : mem[l][u] # {} THEN taken \cup {u} ELSE taken
    PROVE  /\ OwnKinds([mem EXCEPT ![k] = MemDelete(@, u)])
           /\ LeftOf([mem EXCEPT ![k] = MemDelete(@, u)], now)
                 = [l \in Stores |-> MemDelete(LeftOf(mem, taken)[l], u)]
<1> DEFINE known == [mem EXCEPT ![k] = MemDelete(@, u)]
           left == LeftOf(mem, taken)
<1>1. /\ DOMAIN mem = Stores
      /\ \A l \in Stores : DOMAIN mem[l] = Uuids
      /\ \A l \in Stores : \A v \in Uuids : l # StoreOf(v) => mem[l][v] = {}
  BY DEF OwnKinds
<1>2. /\ DOMAIN known = Stores
      /\ known[k] = [mem[k] EXCEPT ![u] = {}]
      /\ \A l \in Stores \ {k} : known[l] = mem[l]
  BY <1>1 DEF MemDelete
<1>3. \A l \in Stores : left[l] = [v \in Uuids |-> IF v \in taken THEN {} ELSE mem[l][v]]
  BY <1>1 DEF LeftOf, Left
<1>4. LeftOf(known, now) = [l \in Stores |-> Left(known[l], now)]
  BY DEF LeftOf
<1> HIDE DEF known, left
<1>5. \A l \in Stores : DOMAIN known[l] = Uuids
  BY <1>1, <1>2
<1>6. OwnKinds(known)
  <2>1. ASSUME NEW l \in Stores, NEW v \in Uuids, l # StoreOf(v)
        PROVE  known[l][v] = {}
    BY <1>1, <1>2, <2>1
  <2> QED
    BY <1>2, <1>5, <2>1 DEF OwnKinds
<1>7. ASSUME NEW l \in Stores
      PROVE  Left(known[l], now) = MemDelete(left[l], u)
  <2>1. Left(known[l], now) = [v \in Uuids |-> IF v \in now THEN {} ELSE known[l][v]]
    BY <1>5 DEF Left
  <2>2. MemDelete(left[l], u) = [v \in Uuids |-> IF v = u \/ v \in taken THEN {} ELSE mem[l][v]]
    BY <1>3 DEF MemDelete
  <2>3. \A v \in Uuids : v # u => (v \in now <=> v \in taken) /\ known[l][v] = mem[l][v]
    BY <1>1, <1>2
  <2>4. u \in now \/ known[l][u] = {}
    BY <1>1, <1>2
  <2> DEFINE a(v) == IF v \in now THEN {} ELSE known[l][v]
             b(v) == IF v = u \/ v \in taken THEN {} ELSE mem[l][v]
  <2>5. \A v \in Uuids : a(v) = b(v)
    BY <2>3, <2>4
  <2>6. Left(known[l], now) = [v \in Uuids |-> a(v)] /\ MemDelete(left[l], u) = [v \in Uuids |-> b(v)]
    BY <2>1, <2>2, Zenon
  <2> HIDE DEF a, b
  <2>7. [v \in Uuids |-> a(v)] = [v \in Uuids |-> b(v)]
    BY <2>5
  <2> QED
    BY <2>6, <2>7
<1> QED
  BY <1>4, <1>6, <1>7 DEF known, left

\* Where each input begins.
InitParts ==
    /\ "part" \in DOMAIN input
    /\ input.part = "store" => input \in StoresBefore
    /\ input.part = "sink" => input \in Sinks
    /\ input.part = "slurm" => input \in SlurmStates
    /\ input.part = "log" => input \in LogReads
    /\ input.part = "text" => input \in Typed
    /\ input.part = "value" =>
          \E k \in Kinds : \E v \in Values(k) : input = [part |-> "value", kind |-> k, value |-> v]
    /\ input.part = "process" => input \in CommandEnds
    /\ input.part = "config" => input = [part |-> "config", config |-> PyConfig("gr1", [nice |-> {3}])]
    /\ input.part = "sbatch" => input \in SbatchCommands
    /\ input.part = "tssrun" => input \in TssrunCommands
    /\ input.part = "listed" => input \in ListedRows

LEMMA PartsOfInit == Init => InitParts
<1>1. ASSUME "part" \in DOMAIN input,
             input.part \notin {"store", "sink", "slurm", "log", "text", "value", "process", "config",
                                "sbatch", "tssrun", "listed"}
      PROVE  InitParts
  BY <1>1 DEF InitParts
<1>2. CASE input \in SlurmStates
  <2>1. "part" \in DOMAIN input /\ input.part = "slurm"
    BY <1>2 DEF SlurmStates
  <2> QED
    BY <1>2, <2>1 DEF InitParts
<1>3. CASE input \in ListedRows
  <2>1. "part" \in DOMAIN input /\ input.part = "listed"
    BY <1>3 DEF ListedRows, RowsOf
  <2> QED
    BY <1>3, <2>1 DEF InitParts
<1>4. CASE input \in StoresBefore
  <2>1. "part" \in DOMAIN input /\ input.part = "store"
    BY <1>4 DEF StoresBefore
  <2> QED
    BY <1>4, <2>1 DEF InitParts
<1>5. CASE input \in Sinks
  <2>1. "part" \in DOMAIN input /\ input.part = "sink"
    BY <1>5 DEF Sinks
  <2> QED
    BY <1>5, <2>1 DEF InitParts
<1>6. CASE input \in CommandEnds
  <2>1. "part" \in DOMAIN input /\ input.part = "process"
    BY <1>6 DEF CommandEnds
  <2> QED
    BY <1>6, <2>1 DEF InitParts
<1>7. CASE input \in Typed
  <2>1. "part" \in DOMAIN input /\ input.part = "text"
    BY <1>7 DEF Typed
  <2> QED
    BY <1>7, <2>1 DEF InitParts
<1>8. CASE \E k \in Kinds : \E v \in Values(k) : input = [part |-> "value", kind |-> k, value |-> v]
  <2>1. "part" \in DOMAIN input /\ input.part = "value"
    BY <1>8
  <2> QED
    BY <1>8, <2>1 DEF InitParts
<1>9. CASE input = [part |-> "config", config |-> PyConfig("gr1", [nice |-> {3}])]
  <2>1. "part" \in DOMAIN input /\ input.part = "config"
    BY <1>9
  <2> QED
    BY <1>9, <2>1 DEF InitParts
<1>10. CASE input \in SbatchCommands
  <2>1. "part" \in DOMAIN input /\ input.part = "sbatch"
    BY <1>10 DEF SbatchCommands
  <2> QED
    BY <1>10, <2>1 DEF InitParts
<1>11. CASE input \in TssrunCommands
  <2>1. "part" \in DOMAIN input /\ input.part = "tssrun"
    BY <1>11 DEF TssrunCommands
  <2> QED
    BY <1>11, <2>1 DEF InitParts
<1>12. CASE input \in LogReads
  <2>2. PICK f \in LogsFound, n \in 0..MaxLines : input = LogRead(f, n)
    BY <1>12 DEF LogReads
  <2>1. "part" \in DOMAIN input /\ input.part = "log"
    BY <2>2 DEF LogRead
  <2> QED
    BY <1>12, <2>1 DEF InitParts
<1> QED
  BY <1>2, <1>3, <1>4, <1>5, <1>6, <1>7, <1>8, <1>9, <1>10, <1>11, <1>12 DEF Init

\* A step with a text, a configuration or a log that is read leaves the other inputs be,
\* and the input stays what it is.
LogSteps == LogIsRead \/ LogGrows \/ LogIsCut
Apart == Type \/ Configure \/ LogSteps

LEMMA PartsStay ==
    ASSUME "part" \in DOMAIN input, Apart
    PROVE  /\ input.part \notin {"store", "sink", "slurm"}
           /\ "part" \in DOMAIN input' /\ input'.part = input.part
<1>1. CASE Type
  BY <1>1 DEF Type
<1>2. CASE Configure
  BY <1>2 DEF Configure
<1>3. CASE LogIsRead
  BY <1>3 DEF LogIsRead, BeingRead
<1>4. CASE LogGrows
  BY <1>4 DEF LogGrows, BeingRead
<1>5. CASE LogIsCut
  BY <1>5 DEF LogIsCut, BeingRead
<1> QED
  BY <1>1, <1>2, <1>3, <1>4, <1>5 DEF Apart, LogSteps

LEMMA StoresInvInit == Init => StoresInv
<1>1. ASSUME Init, input.part = "store"
      PROVE  /\ {"disk", "mem", "first", "taken"} \subseteq DOMAIN input
             /\ OwnKinds(input.mem)
             /\ StoresAgree(input.disk, LeftOf(input.mem, input.taken), input.first)
  BY <1>1, PartsOfInit, StoresAgreeBefore DEF InitParts
<1> QED
  BY <1>1, PartsOfInit DEF StoresInv, InitParts

LEMMA StoresInvNext == StoresInv /\ [Next]_input => StoresInv'
<1> SUFFICES ASSUME StoresInv, [Next]_input
             PROVE  StoresInv'
  OBVIOUS
<1>1. CASE Apart
  BY <1>1, PartsStay DEF StoresInv
<1>5. CASE SinkSteps
  <2>1. input.part = "sink" /\ "part" \in DOMAIN input
    BY <1>5 DEF SinkSteps, StoresInv
  <2>2. "part" \in DOMAIN input' /\ input'.part = input.part
    BY <1>5, <2>1 DEF SinkSteps
  <2> QED
    BY <2>1, <2>2 DEF StoresInv
<1>2. CASE StoreSaves
  <2>1. /\ {"part", "disk", "mem", "first", "taken"} \subseteq DOMAIN input
        /\ OwnKinds(input.mem)
        /\ StoresAgree(input.disk, LeftOf(input.mem, input.taken), input.first)
    BY <1>2 DEF StoreSaves, StoresInv
  <2>5. PICK u \in Uuids : \E snap \in Snapshots(u) :
            input' = [input EXCEPT !.disk = Save(@, snap), !.first[u] = {}, !.taken = @ \ {u},
                                   !.mem[snap.kind] = MemSave(@, snap)]
    BY <1>2, Zenon DEF StoreSaves
  <2>2. PICK snap \in Snapshots(u) :
            input' = [input EXCEPT !.disk = Save(@, snap), !.first[u] = {}, !.taken = @ \ {u},
                                   !.mem[snap.kind] = MemSave(@, snap)]
    BY <2>5, Zenon
  <2>3. /\ DOMAIN input' = DOMAIN input
        /\ input'.disk = Save(input.disk, snap)
        /\ input'.first = [input.first EXCEPT ![u] = {}]
        /\ input'.taken = input.taken \ {u}
        /\ input'.mem = [input.mem EXCEPT ![snap.kind] = MemSave(@, snap)]
    BY <2>1, <2>2
  <2>6. /\ OwnKinds(input'.mem)
        /\ LeftOf(input'.mem, input'.taken) = SavedIn(LeftOf(input.mem, input.taken), snap)
    <3>1. input'.mem = SavedIn(input.mem, snap)
      BY <2>3 DEF SavedIn
    <3>2. /\ OwnKinds(SavedIn(input.mem, snap))
          /\ LeftOf(SavedIn(input.mem, snap), input.taken \ {u})
                = SavedIn(LeftOf(input.mem, input.taken), snap)
      BY <2>1, SavesAreLeft
    <3> QED
      BY <2>3, <3>1, <3>2, Zenon
  <2>4. StoresAgree(input'.disk, LeftOf(input'.mem, input'.taken), input'.first)
    BY <2>1, <2>3, <2>6, SavesKeepAgreement DEF SavedIn
  <2> QED
    BY <2>1, <2>3, <2>4, <2>6 DEF StoresInv
<1>3. CASE StoreDeletes
  <2>1. /\ {"part", "disk", "mem", "first", "taken"} \subseteq DOMAIN input
        /\ OwnKinds(input.mem)
        /\ StoresAgree(input.disk, LeftOf(input.mem, input.taken), input.first)
    BY <1>3 DEF StoreDeletes, StoresInv
  <2> DEFINE now(k, u) == IF \E l \in Stores \ {k} : input.mem[l][u] # {}
                          THEN input.taken \cup {u} ELSE input.taken
  <2>5. PICK k \in Stores : \E u \in Uuids :
            input' = [input EXCEPT !.disk = Delete(@, u), !.first[u] = {},
                                   !.taken = IF \E l \in Stores \ {k} : input.mem[l][u] # {}
                                             THEN @ \cup {u} ELSE @,
                                   !.mem[k] = MemDelete(@, u)]
    BY <1>3, Zenon DEF StoreDeletes
  <2>2. PICK u \in Uuids :
            input' = [input EXCEPT !.disk = Delete(@, u), !.first[u] = {},
                                   !.taken = IF \E l \in Stores \ {k} : input.mem[l][u] # {}
                                             THEN @ \cup {u} ELSE @,
                                   !.mem[k] = MemDelete(@, u)]
    BY <2>5, Zenon
  <2>3. /\ DOMAIN input' = DOMAIN input
        /\ input'.disk = Delete(input.disk, u)
        /\ input'.first = [input.first EXCEPT ![u] = {}]
        /\ input'.taken = now(k, u)
        /\ input'.mem = [input.mem EXCEPT ![k] = MemDelete(@, u)]
    BY <2>1, <2>2
  <2>6. /\ OwnKinds(input'.mem)
        /\ LeftOf(input'.mem, input'.taken)
              = [l \in Stores |-> MemDelete(LeftOf(input.mem, input.taken)[l], u)]
    BY <2>1, <2>3, DeletesAreLeft
  <2>4. StoresAgree(input'.disk, LeftOf(input'.mem, input'.taken), input'.first)
    BY <2>1, <2>3, <2>6, DeletesKeepAgreement
  <2> QED
    BY <2>1, <2>3, <2>4, <2>6 DEF StoresInv
<1>4. CASE UNCHANGED input
  BY <1>4 DEF StoresInv
<1> QED
  BY <1>1, <1>2, <1>3, <1>4, <1>5 DEF Next, Apart, LogSteps

\* One file as each store reads it.
LEMMA DecodeAgrees ==
    ASSUME NEW u, NEW f, Fitting(u, f), NEW k \in Stores
    PROVE  /\ Decode(k, f).found = Remembered({f}, k)
           /\ Decode(k, f).found # {} => Decode(k, f).is = "ok"
           /\ Decode(k, f).is = "error" =>
                 ~Readable(f) \/ (f.kind = {} /\ f.body.kind # k)
<1>1. Remembered({f}, k) = IF Readable(f) /\ f.body.kind = k THEN {f.body} ELSE {}
  BY RememberedOne
<1>2. f.kind \in {{}, {f.body.kind}}
  BY DEF Fitting
<1> QED
  BY <1>1, <1>2 DEF Decode, FromValue, Readable, Ok, Error, SCHEMA_VERSION

LEMMA LoadAgrees ==
    ASSUME NEW disk, NEW mem, NEW first, StoresAgree(disk, mem, first),
           NEW k \in Stores, NEW u \in Uuids
    PROVE  /\ Load(disk, k, u).found = mem[k][u]
           /\ Load(disk, k, u).found # {} => Load(disk, k, u).is = "ok"
           /\ Load(disk, k, u).is = "error" =>
                 \E f \in first[u] : ~Readable(f) \/ (f.kind = {} /\ f.body.kind # k)
<1>1. /\ disk[u] = {} \/ \E f : disk[u] = {f} /\ Fitting(u, f)
      /\ \A f \in disk[u] \ first[u] : Readable(f) /\ f.kind = {f.body.kind}
      /\ mem[k][u] = Remembered(disk[u], k)
  BY DEF StoresAgree
<1>2. CASE disk[u] = {}
  BY <1>1, <1>2, RememberedOne DEF Load, Ok
<1>3. CASE disk[u] # {}
  <2>1. PICK f : disk[u] = {f} /\ Fitting(u, f)
    BY <1>1, <1>3
  <2>2. Load(disk, k, u) = Decode(k, f)
    BY <2>1 DEF Load
  <2>3. f \in first[u] \/ (Readable(f) /\ f.kind = {f.body.kind})
    BY <1>1, <2>1
  <2>4. /\ Decode(k, f).found = Remembered({f}, k)
        /\ Decode(k, f).found # {} => Decode(k, f).is = "ok"
        /\ Decode(k, f).is = "error" =>
              ~Readable(f) \/ (f.kind = {} /\ f.body.kind # k)
    BY <2>1, DecodeAgrees
  <2>5. {f.body.kind} # {}
    OBVIOUS
  <2>6. Decode(k, f).is = "error" /\ Readable(f) => f.kind = {} /\ f \in first[u]
    BY <2>3, <2>4, <2>5
  <2>7. Decode(k, f).is = "error" => f \in first[u]
    <3>1. CASE Readable(f)
      BY <2>6, <3>1
    <3>2. CASE ~Readable(f)
      BY <2>3, <3>2
    <3> QED
      BY <3>1, <3>2
  <2> QED
    BY <1>1, <2>1, <2>2, <2>4, <2>7
<1> QED
  BY <1>2, <1>3

\* What a store in memory knows is of its kind, and of the uuid it is asked for.
LEMMA RememberedFits ==
    ASSUME NEW disk, NEW mem, NEW first, StoresAgree(disk, mem, first),
           NEW k \in Stores, NEW u \in Uuids, NEW s \in mem[k][u]
    PROVE  s.kind = k /\ s.uuid = u
<1>1. s \in Remembered(disk[u], k)
  BY DEF StoresAgree
<1>2. PICK f \in disk[u] : s = f.body /\ f.body.kind = k
  BY <1>1 DEF Remembered
<1>3. Fitting(u, f)
  BY DEF StoresAgree
<1> QED
  BY <1>2, <1>3 DEF Fitting

LEMMA MemListed ==
    ASSUME NEW map
    PROVE  MemList(map) = UNION {map[u] : u \in DOMAIN map}
BY DEF MemList, Range

LEMMA ListAgrees ==
    ASSUME NEW disk, NEW mem, NEW first, StoresAgree(disk, mem, first), NEW k \in Stores
    PROVE  List(disk, k) = MemList(mem[k])
<1>1. DOMAIN disk = Uuids /\ DOMAIN mem[k] = Uuids
  BY DEF StoresAgree
<1>2. \A u \in Uuids : Load(disk, k, u).found = mem[k][u]
  BY LoadAgrees
<1>3. MemList(mem[k]) = UNION {mem[k][u] : u \in Uuids}
  BY <1>1, MemListed
<1>4. List(disk, k) = UNION {Load(disk, k, u).found : u \in Uuids}
  BY <1>1 DEF List
<1> QED
  BY <1>2, <1>3, <1>4

\* The snapshots that a key means.
Meant(map, key) ==
    {s \in MemList(map) : CASE key.by \in {"uuid", "file"} -> s.uuid = key.value
                            [] key.by = "jobid" -> key.value \in s.jobid
                            [] key.by = "pid" -> key.value \in s.pid}

LEMMA MeantByUuid ==
    ASSUME NEW disk, NEW mem, NEW first, StoresAgree(disk, mem, first), NEW k \in Stores,
           NEW key, key.by \in {"uuid", "file"}, key.value \in Uuids
    PROVE  Meant(mem[k], key) = mem[k][key.value]
<1>1. DOMAIN mem[k] = Uuids
  BY DEF StoresAgree
<1>2. MemList(mem[k]) = UNION {mem[k][u] : u \in Uuids}
  BY <1>1, MemListed
<1>3. \A u \in Uuids : \A s \in mem[k][u] : s.uuid = u
  BY RememberedFits
<1>4. Meant(mem[k], key) = {s \in MemList(mem[k]) : s.uuid = key.value}
  BY DEF Meant
<1> QED
  BY <1>2, <1>3, <1>4

LEMMA OfFoundKeeps ==
    ASSUME NEW found
    PROVE  OfFound(found).of \subseteq found /\ (found # {} => OfFound(found).of # {})
<1>1. found # {} => (CHOOSE s \in found : TRUE) \in found
  OBVIOUS
<1> QED
  BY <1>1 DEF OfFound, Refused, Handle

\* An attachment finds what the key means, if there is such a thing, or says that it is
\* not the only one.
LEMMA AttachAgrees ==
    ASSUME NEW disk, NEW mem, NEW first, StoresAgree(disk, mem, first), NEW k \in Stores,
           NEW key \in AttachKeys(disk), k = "sbatch" => key.by # "pid",
           NEW r \in Attach(disk, k, key)
    PROVE  LET meant == Meant(mem[k], key)
           IN  /\ r.of \subseteq meant \/ key.by = "file"
               /\ meant # {} => r.of # {} \/ (r.is = "multiple" /\ Cardinality(meant) > 1)
<1> DEFINE meant == Meant(mem[k], key)
<1>0. DOMAIN disk = Uuids
  BY DEF StoresAgree
<1>1. DOMAIN disk = Uuids /\ List(disk, k) = MemList(mem[k])
  BY <1>0, ListAgrees
<1>2. CASE key.by = "uuid"
  <2> DEFINE loaded == Load(disk, k, key.value)
  <2>1. key.value \in Uuids
    BY <1>1, <1>2 DEF AttachKeys
  <2>2. meant = mem[k][key.value]
    BY <1>2, <2>1, MeantByUuid
  <2>3. loaded.found = meant /\ (loaded.found # {} => loaded.is = "ok")
    BY <2>1, <2>2, LoadAgrees
  <2>4. r = IF loaded.is = "error" THEN Refused("io") ELSE OfFound(loaded.found)
    BY <1>2 DEF Attach, SbatchAttach, TssrunAttach, Stores
  <2> HIDE DEF loaded, meant
  <2>5. Refused("io").of = {}
    BY DEF Refused
  <2>6. r.of \subseteq meant /\ (meant # {} => r.of # {})
    BY <2>3, <2>4, <2>5, OfFoundKeeps
  <2> QED
    BY <2>6 DEF meant
<1>3. CASE key.by = "jobid"
  <2> DEFINE all == FindAllByJobid(disk, k, key.value)
  <2>1. all = meant
    BY <1>1, <1>3 DEF FindAllByJobid, Meant
  <2>2. CASE k = "sbatch"
    <3>1. r = IF Cardinality(all) > 1 THEN Refused("multiple") ELSE OfFound(all)
      BY <1>3, <2>2 DEF Attach, SbatchAttach
    <3> HIDE DEF all, meant
    <3>2. Refused("multiple").of = {} /\ Refused("multiple").is = "multiple"
      BY DEF Refused
    <3>3. CASE Cardinality(all) > 1
      BY <2>1, <3>1, <3>2, <3>3 DEF meant
    <3>4. CASE ~(Cardinality(all) > 1)
      BY <2>1, <3>1, <3>4, OfFoundKeeps DEF meant
    <3> QED
      BY <3>3, <3>4
  <2>3. CASE k = "tssrun"
    <3>1. PICK found \in FirstOf(all) : r = OfFound(found)
      BY <1>3, <2>3 DEF Attach, TssrunAttach, FindByJobid
    <3> HIDE DEF all, meant
    <3>2. found \subseteq all /\ (all # {} => found # {})
      BY DEF FirstOf
    <3> QED
      BY <2>1, <3>1, <3>2, OfFoundKeeps DEF meant
  <2> QED
    BY <2>2, <2>3 DEF Stores
<1>4. CASE key.by = "pid"
  <2> DEFINE all == {s \in List(disk, "tssrun") : key.value \in s.pid}
  <2>1. k = "tssrun"
    BY <1>4 DEF Stores
  <2>2. all = meant
    BY <1>1, <1>4, <2>1 DEF Meant
  <2>3. PICK found \in FirstOf(all) : r = OfFound(found)
    BY <1>4, <2>1 DEF Attach, TssrunAttach, FindByPid
  <2> HIDE DEF all, meant
  <2>4. found \subseteq all /\ (all # {} => found # {})
    BY DEF FirstOf
  <2> QED
    BY <2>2, <2>3, <2>4, OfFoundKeeps DEF meant
<1>5. CASE key.by = "file"
  <2>1. key.value \in Uuids
    BY <1>1, <1>5 DEF AttachKeys
  <2>5. meant = mem[k][key.value]
    BY <1>5, <2>1, MeantByUuid
  <2>2. meant = Remembered(disk[key.value], k)
    BY <2>1, <2>5 DEF StoresAgree
  <2>3. CASE meant = {}
    BY <1>5, <2>3
  <2>4. CASE meant # {}
    <3>1. PICK f : disk[key.value] = {f} /\ Fitting(key.value, f)
      BY <2>1, <2>2, <2>4, RememberedOne DEF StoresAgree
    <3>2. Readable(f) /\ f.body.kind = k
      BY <2>2, <2>4, <3>1, RememberedOne
    <3>3. (CHOOSE g \in disk[key.value] : TRUE) = f /\ disk[key.value] # {}
      BY <3>1
    <3>4. FromValue(k, f) = Ok({f.body}) /\ f.whole /\ f.kind \in {{}, {k}}
      BY <3>1, <3>2 DEF FromValue, Readable, Fitting
    <3>5. Ok({f.body}).is = "ok" /\ Ok({f.body}).found = {f.body}
      BY DEF Ok
    <3>6. r = OfFound({f.body})
      <4>1. CASE k = "sbatch"
        BY <1>5, <3>3, <3>4, <3>5, <4>1 DEF Attach, SbatchAttach
      <4>2. CASE k = "tssrun"
        BY <1>5, <3>3, <3>4, <3>5, <4>2 DEF Attach, TssrunAttach
      <4> QED
        BY <4>1, <4>2 DEF Stores
    <3>7. r.of # {}
      BY <3>6, OfFoundKeeps
    <3> QED
      BY <1>5, <3>7
  <2> QED
    BY <2>3, <2>4
<1>6. key.by \in {"jobid", "pid", "uuid", "file"}
  BY DEF AttachKeys
<1> QED
  BY <1>2, <1>3, <1>4, <1>5, <1>6

\* In one directory, with the files of older, newer and broken builds that may be in it,
\* and however many uuids there are, each store saves, loads, lists and looks up as the map
\* in memory that gets the same calls; attaching finds what was asked for, of its own kind
\* (store.rs, and attach() of both managers).  delete() is the exception: an entry that one
\* store deletes is gone from what the other has, whatever its kind.
THEOREM StoresInOneDirectory == Spec => []StoresKeepApart
<1>1. StoresInv => StoresKeepApart
  <2> SUFFICES ASSUME StoresInv, input.part = "store", NEW k \in Stores
               PROVE  LET disk == input.disk
                          map == Left(input.mem[k], input.taken)
                      IN
            /\ List(disk, k) = MemList(map)
            /\ \A u \in Uuids :
                  /\ Load(disk, k, u).found = MemLoad(map, u)
                  /\ Load(disk, k, u).is = "error" =>
                        \E f \in input.first[u] : ~Readable(f) \/ (f.kind = {} /\ f.body.kind # k)
            /\ \A key \in [by : {"uuid", "file"}, value : Uuids] \cup [by : {"jobid"}, value : 1..2]
                            \cup (IF k = "tssrun" THEN [by : {"pid"}, value : 6..7] ELSE {}) :
                  LET meant == {s \in MemList(map) :
                                   CASE key.by \in {"uuid", "file"} -> s.uuid = key.value
                                     [] key.by = "jobid" -> key.value \in s.jobid
                                     [] key.by = "pid" -> key.value \in s.pid}
                      results == Attach(disk, k, key)
                  IN  /\ \A r \in results : r.of \subseteq meant \/ key.by = "file"
                      /\ \A r \in results : \A s \in r.of : s.kind = k
                      /\ meant # {} =>
                            \A r \in results : r.of # {} \/ (r.is = "multiple" /\ Cardinality(meant) > 1)
    BY Zenon DEF StoresKeepApart
  <2> DEFINE disk == input.disk
             mem == LeftOf(input.mem, input.taken)
             first == input.first
  <2>1. StoresAgree(disk, mem, first)
    BY DEF StoresInv
  <2>6. mem[k] = Left(input.mem[k], input.taken)
    BY DEF LeftOf
  <2>2. DOMAIN disk = Uuids
    BY <2>1 DEF StoresAgree
  <2> HIDE DEF disk, mem, first
  <2>3. List(disk, k) = MemList(mem[k])
    BY <2>1, ListAgrees
  <2>4. ASSUME NEW u \in Uuids
        PROVE  /\ Load(disk, k, u).found = MemLoad(mem[k], u)
               /\ Load(disk, k, u).is = "error" =>
                     \E f \in first[u] : ~Readable(f) \/ (f.kind = {} /\ f.body.kind # k)
    BY <2>1, LoadAgrees DEF MemLoad
  <2>5. ASSUME NEW key \in [by : {"uuid", "file"}, value : Uuids] \cup [by : {"jobid"}, value : 1..2]
                              \cup (IF k = "tssrun" THEN [by : {"pid"}, value : 6..7] ELSE {})
        PROVE  /\ \A r \in Attach(disk, k, key) : r.of \subseteq Meant(mem[k], key) \/ key.by = "file"
               /\ \A r \in Attach(disk, k, key) : \A s \in r.of : s.kind = k
               /\ Meant(mem[k], key) # {} =>
                     \A r \in Attach(disk, k, key) :
                        r.of # {} \/ (r.is = "multiple" /\ Cardinality(Meant(mem[k], key)) > 1)
    <3>1. key \in AttachKeys(disk)
      BY <2>2 DEF AttachKeys
    <3>2. k = "sbatch" => key.by # "pid"
      OBVIOUS
    <3> QED
      BY <2>1, <3>1, <3>2, AttachAgrees, AttachesToItsOwn
  <2> QED
    BY <2>3, <2>4, <2>5, <2>6, Zenon DEF Meant, disk, first
<1> QED
  BY <1>1, StoresInvInit, StoresInvNext, PTL DEF Spec

-----------------------------------------------------------------------------
(* Sinks. *)

\* The sink that is looked at.
SinksInv ==
    /\ "part" \in DOMAIN input
    /\ input.part = "sink" => /\ {"sink", "found"} \subseteq DOMAIN input
                              /\ SinkKeeps(input.sink, input.found)

LEMMA SinksInvInit == Init => SinksInv
<1>1. ASSUME input \in Sinks
      PROVE  {"sink", "found"} \subseteq DOMAIN input /\ SinkKeeps(input.sink, input.found)
  <2>1. PICK kind \in {"file", "memory", "std", "null"}, found \in FilesFound :
            input = [part |-> "sink", found |-> found, sink |-> Create(kind, found, SinkLines)]
    BY <1>1 DEF Sinks
  <2> QED
    BY <2>1, CreateKeeps
<1> QED
  BY <1>1, PartsOfInit DEF SinksInv, InitParts

LEMMA SinksInvNext == SinksInv /\ [Next]_input => SinksInv'
<1> SUFFICES ASSUME SinksInv, [Next]_input
             PROVE  SinksInv'
  OBVIOUS
<1>1. CASE Apart
  BY <1>1, PartsStay DEF SinksInv
<1>2. CASE StoreSaves \/ StoreDeletes
  <2>1. input.part = "store" /\ "part" \in DOMAIN input
    BY <1>2, Zenon DEF StoreSaves, StoreDeletes, SinksInv
  <2>2. "part" \in DOMAIN input' /\ input'.part = input.part
    <3>1. CASE StoreSaves
      BY <2>1, <3>1 DEF StoreSaves
    <3>2. CASE StoreDeletes
      BY <2>1, <3>2 DEF StoreDeletes
    <3> QED
      BY <1>2, <3>1, <3>2
  <2> QED
    BY <2>1, <2>2 DEF SinksInv
<1>3. CASE SinkSteps
  <2>1. /\ {"part", "sink", "found"} \subseteq DOMAIN input /\ input.part = "sink"
        /\ SinkKeeps(input.sink, input.found)
    BY <1>3 DEF SinkSteps, SinksInv
  <2>2. PICK k \in SinkNext(input.sink) : input' = [input EXCEPT !.sink = k]
    BY <1>3 DEF SinkSteps
  <2>3. /\ DOMAIN input' = DOMAIN input /\ input'.part = input.part
        /\ input'.found = input.found /\ input'.sink = k
    BY <2>1, <2>2
  <2>4. SinkKeeps(k, input.found)
    BY <2>1, SinkStepKeeps
  <2> QED
    BY <2>1, <2>3, <2>4 DEF SinksInv
<1>4. CASE UNCHANGED input
  BY <1>4 DEF SinksInv
<1> QED
  BY <1>1, <1>2, <1>3, <1>4 DEF Next, Apart, LogSteps

\* What one stream that keeps its lines says of its log.
LEMMA OrderTells ==
    ASSUME NEW lines, NEW found, NEW p, NEW f, NEW t, StreamKeeps(lines, found, p, f, t)
    PROVE  /\ IsPrefix(found, f.disk)
           /\ t = "done" => Read(lines, p) = Len(lines) /\ f.busy \in {<<>>, <<Newline>>}
<1>1. IsPrefix(found, f.disk)
  <2>1. /\ found \in Seq(Piece) /\ f.disk \in Seq(Piece) /\ Len(found) <= Len(f.disk)
        /\ \A i \in 1..Len(found) : f.disk[i] = found[i]
    BY DEF StreamKeeps, FoundFirst, FileType
  <2> QED
    BY <2>1 DEF IsPrefix
<1>2. ASSUME t = "done" PROVE Read(lines, p) = Len(lines) /\ f.busy \in {<<>>, <<Newline>>}
  <2>1. p = <<>> /\ Len(lines) \in Nat
    BY <1>2, ReadType DEF StreamKeeps, TeeKeeps
  <2>2. f.busy # <<>> => f.busy = <<Newline>>
    BY <1>2 DEF StreamKeeps, TeeKeeps
  <2>3. Len(lines) - Len(p) = Len(lines)
    BY <2>1
  <2> QED
    BY <2>2, <2>3, Zenon DEF Read
<1> QED
  BY <1>1, <1>2

LEMMA ExactTells ==
    ASSUME NEW lines, NEW found, NEW p, NEW f, NEW t, StreamKeeps(lines, found, p, f, t),
           Exact(lines, found, p, f, t)
    PROVE  AllOf(f) = found \o Pieces(lines, 2 * Read(lines, p) - (IF t = "newline" THEN 1 ELSE 0))
<1> DEFINE n == 2 * Read(lines, p) - (IF t = "newline" THEN 1 ELSE 0)
           x == Piece \cup {Turn(lines, i) : i \in 1..n}
           a == AllOf(f)
           b == Pieces(lines, n)
<1>1. n \in Nat
  <2>1. Read(lines, p) \in Nat
    BY ReadType DEF StreamKeeps
  <2>2. t = "newline" => Read(lines, p) >= 1
    BY DEF StreamKeeps, TeeKeeps
  <2> QED
    BY <2>1, <2>2
<1>2. Len(a) = Len(found) + n /\ \A i \in 1..n : a[Len(found) + i] = Turn(lines, i)
  BY DEF Exact
<1>3. found \in Seq(Piece) /\ f.disk \in Seq(Piece) /\ f.busy \in Seq(Piece)
      /\ Len(found) <= Len(f.disk) /\ \A i \in 1..Len(found) : f.disk[i] = found[i]
  BY DEF StreamKeeps, FoundFirst, FileType
<1>4. a \in Seq(Piece) /\ \A i \in 1..Len(found) : a[i] = found[i]
  <2> DEFINE d == f.disk
             e == f.busy
  <2>1. /\ d \in Seq(Piece) /\ e \in Seq(Piece) /\ Len(found) \in Nat
        /\ Len(found) <= Len(d) /\ \A i \in 1..Len(found) : d[i] = found[i]
    BY <1>3
  <2> HIDE DEF d, e
  <2>2. /\ d \o e \in Seq(Piece) /\ Len(d) \in Nat
        /\ \A i \in 1..Len(d) : (d \o e)[i] = d[i]
    BY <2>1
  <2>3. \A i \in 1..Len(found) : (d \o e)[i] = found[i]
    BY <2>1, <2>2
  <2>4. a = d \o e
    BY Zenon DEF AllOf, d, e
  <2> HIDE DEF a
  <2> QED
    BY <2>2, <2>3, <2>4
<1> HIDE DEF n, a
<1>5. b = [i \in 1..n |-> Turn(lines, i)]
  BY DEF Pieces, Turn
<1> HIDE DEF b
<1>6. \A i \in 1..n : Turn(lines, i) \in x
  OBVIOUS
<1>7. found \in Seq(x) /\ a \in Seq(x)
  <2>1. Piece \subseteq x
    OBVIOUS
  <2> HIDE DEF x
  <2> QED
    BY <1>3, <1>4, <2>1
<1> HIDE DEF x
<1>8. b \in Seq(x) /\ Len(b) = n /\ \A i \in 1..n : b[i] = Turn(lines, i)
  BY <1>1, <1>5, <1>6
<1>9. /\ found \o b \in Seq(x) /\ Len(found \o b) = Len(found) + n
      /\ \A i \in 1..Len(found) : (found \o b)[i] = found[i]
      /\ \A i \in 1..n : (found \o b)[Len(found) + i] = b[i]
  BY <1>1, <1>7, <1>8
<1>10. ASSUME NEW i \in 1..Len(a) PROVE a[i] = (found \o b)[i]
  <2>1. CASE i \in 1..Len(found)
    BY <1>4, <1>9, <2>1
  <2>2. CASE i \notin 1..Len(found)
    <3>1. Len(found) \in Nat
      BY <1>3
    <3>2. i - Len(found) \in 1..n /\ i = Len(found) + (i - Len(found))
      BY <1>1, <1>2, <2>2, <3>1
    <3> QED
      BY <1>2, <1>8, <1>9, <3>2
  <2> QED
    BY <2>1, <2>2
<1>11. a = found \o b
  <2> DEFINE c == found \o b
  <2>1. c \in Seq(x) /\ Len(c) = Len(a) /\ \A i \in 1..Len(a) : a[i] = c[i]
    BY <1>2, <1>9, <1>10
  <2> HIDE DEF c
  <2>2. a = c
    BY <1>7, <2>1
  <2> QED
    BY <2>2 DEF c
<1> QED
  BY <1>11 DEF a, b, n

\* LogKeepsItsLines for one stream, in the words of the invariant.
StreamLogged(k, found, s) ==
    LET lines == SinkLines[s]
        read == Read(lines, k.pipe[s])
        f == k.file[s]
        texts == TextsIn(found, AllOf(f))
        pieces == Pieces(lines, 2 * read - (IF k.tee[s] = "newline" THEN 1 ELSE 0))
    IN  /\ k.kind \in {"memory", "std"} =>
              /\ Cardinality(OfStream(k.given, s)) = read
              /\ \A i \in OfStream(k.given, s) :
                    k.given[i].line = lines[Cardinality(UpTo(OfStream(k.given, s), i))]
        /\ k.kind = "file" =>
              /\ IsPrefix(found, f.disk)
              /\ \E kept \in [texts -> 1..read] :
                    /\ \A i \in texts : AllOf(f)[i] = lines[kept[i]]
                    /\ \A i, j \in texts : i < j => kept[i] < kept[j]
              /\ read - Cardinality(texts) <= k.failures
              /\ k.failures = 0 => AllOf(f) = found \o pieces
              /\ k.failures = 0 /\ Returned(k) =>
                    read = Len(lines) /\ f.busy \in {<<>>, <<Newline>>}

LEMMA SinkTells ==
    ASSUME NEW k, NEW found, SinkKeeps(k, found), NEW s \in Streams
    PROVE  StreamLogged(k, found, s)
<1>1. ASSUME k.kind = "file"
      PROVE  /\ Read(SinkLines[s], k.pipe[s]) - Cardinality(TextsIn(found, AllOf(k.file[s]))) <= k.failures
             /\ k.failures = 0 =>
                   AllOf(k.file[s]) = found \o Pieces(SinkLines[s],
                       2 * Read(SinkLines[s], k.pipe[s]) - (IF k.tee[s] = "newline" THEN 1 ELSE 0))
  <2>1. /\ SinkShape(k) /\ k.failures \in Nat
        /\ \A r \in Streams : StreamKeeps(SinkLines[r], found, k.pipe[r], k.file[r], k.tee[r])
        /\ SpentOf(k, found, "Stdout") + SpentOf(k, found, "Stderr") <= k.failures
        /\ k.failures = 0 => Exact(SinkLines[s], found, k.pipe[s], k.file[s], k.tee[s])
    BY <1>1 DEF SinkKeeps, SinkShape
  <2>2. SpentOf(k, found, "Stdout") \in Nat /\ SpentOf(k, found, "Stderr") \in Nat
    BY <2>1, SpentType DEF SpentOf, Streams
  <2>3. SpentOf(k, found, s) <= k.failures
    BY <2>1, <2>2 DEF Streams
  <2>4. Missed(SinkLines[s], found, k.pipe[s], k.file[s]) \in Nat
    BY <2>1, MissedType
  <2>5. Owed(k.file[s], k.tee[s]) \in {0, 1}
    BY DEF Owed
  <2>6. Missed(SinkLines[s], found, k.pipe[s], k.file[s]) <= k.failures
    BY <2>1, <2>3, <2>4, <2>5 DEF SpentOf, Spent
  <2> QED
    BY <2>1, <2>6, ExactTells DEF Missed
<1>2. ASSUME k.kind = "file"
      PROVE  /\ IsPrefix(found, k.file[s].disk)
             /\ \E kept \in [TextsIn(found, AllOf(k.file[s])) -> 1..Read(SinkLines[s], k.pipe[s])] :
                   /\ \A i \in TextsIn(found, AllOf(k.file[s])) :
                         AllOf(k.file[s])[i] = SinkLines[s][kept[i]]
                   /\ \A i, j \in TextsIn(found, AllOf(k.file[s])) : i < j => kept[i] < kept[j]
             /\ k.tee[s] = "done" =>
                   /\ Read(SinkLines[s], k.pipe[s]) = Len(SinkLines[s])
                   /\ k.file[s].busy \in {<<>>, <<Newline>>}
  <2>1. StreamKeeps(SinkLines[s], found, k.pipe[s], k.file[s], k.tee[s])
    BY <1>2 DEF SinkKeeps
  <2>2. IsPrefix(found, k.file[s].disk)
    BY <2>1, OrderTells
  <2>3. k.tee[s] = "done" =>
           /\ Read(SinkLines[s], k.pipe[s]) = Len(SinkLines[s])
           /\ k.file[s].busy \in {<<>>, <<Newline>>}
    BY <2>1, OrderTells
  <2>4. Ordered(SinkLines[s], Read(SinkLines[s], k.pipe[s]), found, AllOf(k.file[s]))
    BY <2>1 DEF StreamKeeps
  <2> QED
    BY <2>2, <2>3, <2>4, Zenon DEF Ordered
<1>3. ASSUME k.kind \in {"memory", "std"}
      PROVE  /\ Cardinality(OfStream(k.given, s)) = Read(SinkLines[s], k.pipe[s])
             /\ \A i \in OfStream(k.given, s) :
                   k.given[i].line = SinkLines[s][Cardinality(UpTo(OfStream(k.given, s), i))]
  <2>1. GivenKeeps(SinkLines[s], k.pipe[s], k.given, s)
    BY <1>3 DEF SinkKeeps
  <2> QED
    BY <2>1 DEF GivenKeeps
<1>4. Returned(k) => k.tee[s] = "done"
  BY DEF Returned
<1> QED
  BY <1>1, <1>2, <1>3, <1>4, Zenon DEF StreamLogged

\* Whatever the child prints, whatever its files hold already, and however many writes
\* fail: the log keeps the lines of its streams, each in its file, in their order, behind
\* what was there, and a failed write costs no more than one line (FileLogSink::append()
\* and flush(), the tees and the wait task that run beside each other).
THEOREM LogsKeepTheirLines == Spec => []LogKeepsItsLines
<1>1. SinksInv => LogKeepsItsLines
  <2> SUFFICES ASSUME SinksInv, input.part = "sink", NEW s \in Streams
               PROVE  StreamLogged(input.sink, input.found, s)
    BY Zenon DEF LogKeepsItsLines, StreamLogged, TextsIn, AllOf, Read, OfStream, UpTo
  <2> QED
    BY SinkTells DEF SinksInv
<1> QED
  BY <1>1, SinksInvInit, SinksInvNext, PTL DEF Spec

-----------------------------------------------------------------------------
(* Listings.  InOrder() sorts, and what a key is given of a listing in which   *)
(* each first column occurs once is the row of that key, wherever it is.       *)

\* Rows that have places of their own.
Placed(S) ==
    /\ IsFiniteSet(S)
    /\ \A r \in S : order[r.id] \in Nat
    /\ \A r, s \in S : order[r.id] = order[s.id] => r = s

\* Before an earlier row there are fewer.
LEMMA FewerBefore ==
    ASSUME NEW S, Placed(S), NEW r \in S, NEW s \in S, order[r.id] < order[s.id]
    PROVE  Cardinality(Before(S, r)) < Cardinality(Before(S, s))
<1> DEFINE a == Before(S, r)
           b == Before(S, s)
<1>1. \A x \in S : order[x.id] \in Nat
  BY DEF Placed
<1>2. a \subseteq b /\ r \in b /\ r \notin a /\ b \subseteq S
  BY <1>1 DEF Before
<1> HIDE DEF a, b
<1>3. IsFiniteSet(b)
  BY <1>2, FS_Subset DEF Placed
<1>4. /\ IsFiniteSet(a) /\ Cardinality(a) <= Cardinality(b)
      /\ Cardinality(a) = Cardinality(b) => a = b
  BY <1>2, <1>3, FS_Subset
<1>5. Cardinality(a) \in Nat /\ Cardinality(b) \in Nat
  BY <1>3, <1>4, FS_CardinalityType
<1> QED
  BY <1>2, <1>4, <1>5 DEF a, b

\* Each row is in order once.
LEMMA InOrderSorts ==
    ASSUME NEW S, Placed(S)
    PROVE  /\ ToSet(InOrder(S)) = S
           /\ \A i, k \in DOMAIN InOrder(S) : InOrder(S)[i] = InOrder(S)[k] => i = k
<1> DEFINE n == Cardinality(S)
           place == [r \in S |-> Cardinality(Before(S, r)) + 1]
<1>1. n \in Nat
  BY FS_CardinalityType DEF Placed
<1>2. \A r \in S : order[r.id] \in Nat
  BY DEF Placed
<1>3. ASSUME NEW r \in S
      PROVE  Cardinality(Before(S, r)) \in 0..(n - 1)
  <2> DEFINE a == Before(S, r)
  <2>1. a \subseteq S /\ r \notin a
    BY <1>2 DEF Before
  <2> HIDE DEF a
  <2>2. IsFiniteSet(a) /\ Cardinality(a) <= n /\ (n = Cardinality(a) => S = a)
    BY <2>1, FS_Subset DEF Placed
  <2>3. Cardinality(a) \in Nat
    BY <2>2, FS_CardinalityType
  <2> HIDE DEF n
  <2> QED
    BY <1>1, <2>1, <2>2, <2>3 DEF a
<1>4. place \in [S -> 1..n]
  <2> HIDE DEF n
  <2> QED
    BY <1>1, <1>3
<1>5. \A r, s \in S : place[r] = place[s] => r = s
  <2> TAKE r, s \in S
  <2>1. order[r.id] < order[s.id] \/ order[s.id] < order[r.id] \/ order[r.id] = order[s.id]
    BY <1>2
  <2>2. Cardinality(Before(S, r)) \in Int /\ Cardinality(Before(S, s)) \in Int
    BY <1>1, <1>3
  <2>3. order[r.id] < order[s.id] => Cardinality(Before(S, r)) < Cardinality(Before(S, s))
    BY FewerBefore
  <2>4. order[s.id] < order[r.id] => Cardinality(Before(S, s)) < Cardinality(Before(S, r))
    BY FewerBefore
  <2>5. order[r.id] = order[s.id] => r = s
    BY DEF Placed
  <2> QED
    BY <2>1, <2>2, <2>3, <2>4, <2>5
<1>6. ASSUME NEW i \in 1..n
      PROVE  \E r \in S : place[r] = i
  <2> HIDE DEF place, n
  <2>1. place \in Injection(S, 1..n)
    BY <1>4, <1>5, Fun_IsInj
  <2>2. IsFiniteSet(1..n) /\ Cardinality(1..n) = n
    BY <1>1, FS_Interval
  <2>3. place \in Surjection(S, 1..n)
    BY <2>1, <2>2, FS_Injection DEF n, Placed
  <2> QED
    BY <2>3 DEF Surjection
<1>7. ASSUME NEW i \in 1..n
      PROVE  InOrder(S)[i] \in S /\ place[InOrder(S)[i]] = i
  <2>1. PICK r \in S : place[r] = i
    BY <1>6
  <2>2. InOrder(S)[i] = CHOOSE s \in S : Cardinality(Before(S, s)) = i - 1
    BY DEF InOrder
  <2>3. Cardinality(Before(S, r)) = i - 1
    BY <1>1, <1>3, <2>1
  <2>4. InOrder(S)[i] \in S /\ Cardinality(Before(S, InOrder(S)[i])) = i - 1
    BY <2>2, <2>3
  <2> QED
    BY <1>1, <2>4
<1>8. DOMAIN InOrder(S) = 1..n
  BY DEF InOrder
<1> HIDE DEF n, place
<1>9. ASSUME NEW r \in S PROVE r \in ToSet(InOrder(S))
  <2>1. place[r] \in 1..n
    BY <1>4
  <2>2. InOrder(S)[place[r]] = r
    BY <1>5, <1>7, <2>1
  <2> QED
    BY <1>8, <2>1, <2>2 DEF ToSet
<1> QED
  BY <1>7, <1>8, <1>9 DEF ToSet

\* First columns that name a job or a task are what a key looks for.
Keys == [kind : {"job"}, job : Nat, task : {NoTask}] \cup [kind : {"task"}, job : Nat, task : Nat]
Distinct(rows) ==
    /\ DOMAIN rows \subseteq Nat
    /\ \A i \in DOMAIN rows : rows[i].id.kind = "job" => rows[i].id \in Keys
    /\ \A i, k \in DOMAIN rows : rows[i].id = rows[k].id => i = k

\* The last row of a job is its only one, and so is the first row of a task.
LEMMA ByJobTells ==
    ASSUME NEW rows, Distinct(rows)
    PROVE  /\ DOMAIN ByJob(rows) =
                  {j \in {r.id.job : r \in ToSet(rows)} : \E r \in ToSet(rows) : r.id = Key(j, NoTask)}
           /\ \A i \in DOMAIN rows :
                 rows[i].id.kind = "job" => ByJob(rows)[rows[i].id.job] = Outcome(rows[i])
<1>1. ASSUME NEW i \in DOMAIN rows, rows[i].id.kind = "job"
      PROVE  rows[i].id = Key(rows[i].id.job, NoTask)
  BY <1>1 DEF Distinct, Keys, Key, NoTask
<1>2. \A j : Key(j, NoTask).kind = "job" /\ Key(j, NoTask).job = j
  BY DEF Key
<1>3. {row.id.job : row \in {r \in ToSet(rows) : r.id.kind = "job"}} =
          {j \in {r.id.job : r \in ToSet(rows)} : \E r \in ToSet(rows) : r.id = Key(j, NoTask)}
  BY <1>1, <1>2 DEF ToSet
<1>4. ASSUME NEW i \in DOMAIN rows, rows[i].id.kind = "job"
      PROVE  ByJob(rows)[rows[i].id.job] = Outcome(rows[i])
  <2> DEFINE j == rows[i].id.job
             hits == {k \in DOMAIN rows : rows[k].id.kind = "job" /\ rows[k].id.job = j}
  <2>1. hits = {i}
    BY <1>1, <1>4 DEF Distinct
  <2>2. j \in {row.id.job : row \in {r \in ToSet(rows) : r.id.kind = "job"}}
    BY <1>4 DEF ToSet
  <2>3. ByJob(rows)[j] = Outcome(rows[Max(hits)])
    BY <2>2 DEF ByJob
  <2> HIDE DEF hits
  <2>4. Max(hits) \in hits
    BY <2>1 DEF Max
  <2> QED
    BY <2>1, <2>3, <2>4
<1> QED
  BY <1>3, <1>4 DEF ByJob

LEMMA AnswerTells ==
    ASSUME NEW rows, Distinct(rows), NEW key \in Keys
    PROVE  Answer(rows, key) = {Outcome(r) : r \in {s \in ToSet(rows) : s.id = key}}
<1>1. CASE key.kind = "task"
  <2> DEFINE hits == {i \in DOMAIN rows : rows[i].id = key}
  <2>1. Answer(rows, key) = IF hits = {} THEN {} ELSE {Outcome(rows[Min(hits)])}
    BY <1>1 DEF Answer, OfTask
  <2>2. {s \in ToSet(rows) : s.id = key} = {rows[i] : i \in hits}
    BY DEF ToSet
  <2>3. ASSUME NEW i \in hits PROVE hits = {i}
    BY DEF Distinct
  <2> HIDE DEF hits
  <2>4. CASE hits = {}
    BY <2>1, <2>2, <2>4
  <2>5. ASSUME NEW i \in hits
        PROVE  Answer(rows, key) = {Outcome(r) : r \in {s \in ToSet(rows) : s.id = key}}
    <3>1. hits = {i} /\ hits # {}
      BY <2>3
    <3> QED
      BY <2>1, <2>2, <3>1 DEF Min
  <2> QED
    BY <2>4, <2>5
<1>2. CASE key.kind = "job"
  <2>1. key = Key(key.job, NoTask) /\ key.kind # "task"
    BY <1>2 DEF Keys, Key
  <2>2. Answer(rows, key) = IF key.job \in DOMAIN ByJob(rows) THEN {ByJob(rows)[key.job]} ELSE {}
    BY <2>1 DEF Answer, OfJob
  <2>5. DOMAIN ByJob(rows) =
            {j \in {r.id.job : r \in ToSet(rows)} : \E r \in ToSet(rows) : r.id = Key(j, NoTask)}
    BY ByJobTells
  <2>3. CASE \E i \in DOMAIN rows : rows[i].id = key
    <3>1. PICK i \in DOMAIN rows : rows[i].id = key
      BY <2>3
    <3>2. key.job \in DOMAIN ByJob(rows) /\ ByJob(rows)[key.job] = Outcome(rows[i])
      <4>1. rows[i] \in ToSet(rows) /\ rows[i].id.job = key.job /\ rows[i].id.kind = "job"
        BY <1>2, <3>1 DEF ToSet
      <4>2. key.job \in DOMAIN ByJob(rows)
        BY <2>1, <2>5, <3>1, <4>1
      <4>3. ByJob(rows)[rows[i].id.job] = Outcome(rows[i])
        BY <4>1, ByJobTells
      <4> QED
        BY <4>1, <4>2, <4>3
    <3>3. {s \in ToSet(rows) : s.id = key} = {rows[i]}
      BY <3>1 DEF ToSet, Distinct
    <3> QED
      BY <2>2, <3>2, <3>3
  <2>4. CASE ~ \E i \in DOMAIN rows : rows[i].id = key
    <3>1. {s \in ToSet(rows) : s.id = key} = {}
      BY <2>4 DEF ToSet
    <3>2. key.job \notin DOMAIN ByJob(rows)
      BY <2>1, <2>5, <3>1
    <3> QED
      BY <2>2, <3>1, <3>2
  <2> QED
    BY <2>3, <2>4
<1> QED
  BY <1>1, <1>2 DEF Keys

\* What is looked at when it is a state of SLURM.
SlurmInv == "part" \in DOMAIN input /\ (input.part = "slurm" => input \in SlurmStates)

LEMMA SlurmInvInit == Init => SlurmInv
BY PartsOfInit DEF SlurmInv, InitParts

LEMMA SlurmInvNext == SlurmInv /\ [Next]_input => SlurmInv'
<1> SUFFICES ASSUME SlurmInv, [Next]_input
             PROVE  SlurmInv'
  OBVIOUS
<1>1. CASE Apart
  BY <1>1, PartsStay DEF SlurmInv
<1>2. CASE StoreSaves \/ StoreDeletes \/ SinkSteps
  <2>1. input.part # "slurm" /\ "part" \in DOMAIN input
    BY <1>2, Zenon DEF StoreSaves, StoreDeletes, SinkSteps, SlurmInv
  <2>2. "part" \in DOMAIN input' /\ input'.part = input.part
    <3>1. CASE StoreSaves
      BY <2>1, <3>1 DEF StoreSaves
    <3>2. CASE StoreDeletes
      BY <2>1, <3>2 DEF StoreDeletes
    <3>3. CASE SinkSteps
      BY <2>1, <3>3 DEF SinkSteps
    <3> QED
      BY <1>2, <3>1, <3>2, <3>3
  <2> QED
    BY <2>1, <2>2 DEF SlurmInv
<1>3. CASE UNCHANGED input
  BY <1>3 DEF SlurmInv, SlurmStates
<1> QED
  BY <1>1, <1>2, <1>3 DEF Next, Apart, LogSteps

\* No two rows of squeue, or of sacct, have the same first column.
LEMMA IdsAreKeys == Ids \subseteq Keys /\ \A x \in Ids : x.kind \in {"job", "task"}
BY ListingsAssumption DEF Keys

LEMMA StepsDiffer ==
    /\ \A x \in Ids : Step(x).kind = "step"
    /\ \A x, y \in Ids : Step(x) = Step(y) => x = y
<1>1. \A x \in Keys : /\ Step(x).kind = "step" /\ Step(x).job = x.job /\ Step(x).task = x.task
                      /\ x.kind = IF x.task = NoTask THEN "job" ELSE "task"
  BY DEF Keys, Step, NoTask
<1>2. \A x, y \in Keys : x.kind = y.kind /\ x.job = y.job /\ x.task = y.task => x = y
  BY DEF Keys
<1> QED
  BY <1>1, <1>2, IdsAreKeys

LEMMA ImageIsFinite ==
    ASSUME NEW f, IsFiniteSet(DOMAIN f)
    PROVE  IsFiniteSet({f[x] : x \in DOMAIN f})
<1> DEFINE T == {f[x] : x \in DOMAIN f}
           g == [x \in DOMAIN f |-> f[x]]
<1>1. g \in Surjection(DOMAIN f, T)
  BY DEF Surjection
<1> HIDE DEF g, T
<1>2. IsFiniteSet(T)
  BY <1>1, FS_Surjection
<1> QED
  BY <1>2 DEF T

LEMMA QueueIsPlaced ==
    ASSUME input \in SlurmStates, NEW S \in SUBSET InQueue
    PROVE  Placed(S) /\ \A r \in S : r.id \in Ids
<1>1. /\ \A x \in ListedIds : order[x] \in Nat
      /\ \A x, y \in ListedIds : order[x] = order[y] => x = y
  BY ListingsAssumption DEF SlurmStates, order
<1>2. Ids \subseteq ListedIds
  BY DEF ListedIds
<1>3. \A r \in InQueue : r.id \in Ids /\ r = QueueRow(r.id)
  BY DEF InQueue, QueueRow
<1>4. IsFiniteSet(S)
  <2>1. IsFiniteSet({QueueRow(x) : x \in Ids})
    <3> DEFINE f == [x \in Ids |-> QueueRow(x)]
    <3>1. DOMAIN f = Ids /\ \A x \in Ids : f[x] = QueueRow(x)
      OBVIOUS
    <3> HIDE DEF f
    <3>2. IsFiniteSet({f[x] : x \in DOMAIN f})
      BY <3>1, ListingsAssumption, ImageIsFinite
    <3> QED
      BY <3>1, <3>2
  <2>2. S \subseteq {QueueRow(x) : x \in Ids}
    BY <1>3
  <2> QED
    BY <2>1, <2>2, FS_Subset
<1>5. \A r, s \in S : order[r.id] = order[s.id] => r = s
  <2> TAKE r, s \in S
  <2>1. r.id \in ListedIds /\ s.id \in ListedIds /\ r = QueueRow(r.id) /\ s = QueueRow(s.id)
    BY <1>2, <1>3
  <2>2. order[r.id] = order[s.id] => r.id = s.id
    BY <1>1, <2>1
  <2> QED
    BY <2>1, <2>2
<1> QED
  BY <1>1, <1>2, <1>3, <1>4, <1>5 DEF Placed

LEMMA FileIsPlaced ==
    ASSUME input \in SlurmStates, NEW S \in SUBSET OnFile
    PROVE  Placed(S) /\ \A r \in S : r.id.kind = "job" => r.id \in Ids
<1>1. /\ \A x \in ListedIds : order[x] \in Nat
      /\ \A x, y \in ListedIds : order[x] = order[y] => x = y
  BY ListingsAssumption DEF SlurmStates, order
<1>2. /\ Ids \subseteq ListedIds /\ \A x \in Ids : Step(x) \in ListedIds
      /\ \A j \in Arrays : Sum(j) \in ListedIds
  BY DEF ListedIds
<1>3. \A r \in OnFile : \/ r.id \in Ids /\ r = FileRow(r.id)
                        \/ \E x \in Ids : r.id = Step(x) /\ r = StepRow(x)
                        \/ \E j \in Arrays : r.id = Sum(j) /\ r = Aggregate(j)
  BY DEF OnFile, FileRow, StepRow, Aggregate
<1>4. IsFiniteSet(S)
  <2>1. IsFiniteSet({FileRow(x) : x \in Ids}) /\ IsFiniteSet({StepRow(x) : x \in Ids})
    <3> DEFINE f == [x \in Ids |-> FileRow(x)]
               g == [x \in Ids |-> StepRow(x)]
    <3>1. /\ DOMAIN f = Ids /\ \A x \in Ids : f[x] = FileRow(x)
          /\ DOMAIN g = Ids /\ \A x \in Ids : g[x] = StepRow(x)
      OBVIOUS
    <3> HIDE DEF f, g
    <3>2. IsFiniteSet({f[x] : x \in DOMAIN f}) /\ IsFiniteSet({g[x] : x \in DOMAIN g})
      BY <3>1, ListingsAssumption, ImageIsFinite
    <3> QED
      BY <3>1, <3>2
  <2>2. IsFiniteSet({Aggregate(x.job) : x \in Ids})
    <3> DEFINE f == [x \in Ids |-> Aggregate(x.job)]
    <3>1. DOMAIN f = Ids /\ \A x \in Ids : f[x] = Aggregate(x.job)
      OBVIOUS
    <3> HIDE DEF f
    <3>2. IsFiniteSet({f[x] : x \in DOMAIN f})
      BY <3>1, ListingsAssumption, ImageIsFinite
    <3> QED
      BY <3>1, <3>2
  <2> DEFINE all == {FileRow(x) : x \in Ids} \cup {StepRow(x) : x \in Ids}
                        \cup {Aggregate(x.job) : x \in Ids}
  <2>3. IsFiniteSet(all)
    BY <2>1, <2>2, FS_Union
  <2>4. S \subseteq all
    BY <1>3 DEF Arrays
  <2> QED
    BY <2>3, <2>4, FS_Subset
<1>5. \A r \in OnFile : r.id \in ListedIds
  BY <1>2, <1>3
<1>6. \A j : Sum(j).kind = "aggregate" /\ Sum(j).job = j
  BY DEF Sum
<1>7. \A r, s \in OnFile : r.id = s.id => r = s
  <2> TAKE r, s \in OnFile
  <2> SUFFICES ASSUME r.id = s.id PROVE r = s
    OBVIOUS
  <2>1. CASE r.id.kind \in {"job", "task"}
    <3>1. r = FileRow(r.id) /\ s = FileRow(s.id)
      BY <1>3, <1>6, <2>1, StepsDiffer
    <3> QED
      BY <3>1
  <2>2. CASE r.id.kind = "step"
    <3>1. PICK x \in Ids : r.id = Step(x) /\ r = StepRow(x)
      BY <1>3, <1>6, <2>2, IdsAreKeys
    <3>2. PICK y \in Ids : s.id = Step(y) /\ s = StepRow(y)
      BY <1>3, <1>6, <2>2, IdsAreKeys
    <3>3. x = y
      BY <3>1, <3>2, StepsDiffer
    <3> QED
      BY <3>1, <3>2, <3>3
  <2>3. CASE r.id.kind = "aggregate"
    <3>1. PICK j \in Arrays : r.id = Sum(j) /\ r = Aggregate(j)
      BY <1>3, <2>3, IdsAreKeys, StepsDiffer
    <3>2. PICK k \in Arrays : s.id = Sum(k) /\ s = Aggregate(k)
      BY <1>3, <2>3, IdsAreKeys, StepsDiffer
    <3>3. j = k
      <4>1. Sum(j).job = Sum(k).job
        BY <3>1, <3>2
      <4> QED
        BY <4>1 DEF Sum
    <3> QED
      BY <3>1, <3>2, <3>3
  <2>4. r.id.kind \in {"job", "task", "step", "aggregate"}
    BY <1>3, <1>6, IdsAreKeys, StepsDiffer
  <2> QED
    BY <2>1, <2>2, <2>3, <2>4
<1>8. \A r, s \in S : order[r.id] = order[s.id] => r = s
  BY <1>1, <1>5, <1>7
<1>9. \A r \in S : r.id.kind = "job" => r.id \in Ids
  BY <1>3, <1>6, StepsDiffer
<1> QED
  BY <1>1, <1>4, <1>5, <1>8, <1>9 DEF Placed

\* So a listing in order has each first column once, and what it tells is what there is.
LEMMA ListingTells ==
    ASSUME NEW S, Placed(S), \A r \in S : r.id.kind = "job" => r.id \in Ids
    PROVE  Distinct(InOrder(S)) /\ ToSet(InOrder(S)) = S
<1> DEFINE q == InOrder(S)
<1>1. ToSet(q) = S /\ \A i, k \in DOMAIN q : q[i] = q[k] => i = k
  BY InOrderSorts
<1>2. DOMAIN q \subseteq Nat
  <2>1. DOMAIN q = 1..Cardinality(S) /\ Cardinality(S) \in Nat
    BY FS_CardinalityType DEF InOrder, Placed
  <2> QED
    BY <2>1
<1> HIDE DEF q
<1>3. \A i \in DOMAIN q : q[i] \in S
  BY <1>1 DEF ToSet
<1>4. \A i, k \in DOMAIN q : q[i].id = q[k].id => i = k
  BY <1>1, <1>3 DEF Placed
<1>5. \A i \in DOMAIN q : q[i].id.kind = "job" => q[i].id \in Keys
  BY <1>3, IdsAreKeys
<1>6. Distinct(q)
  BY <1>2, <1>4, <1>5 DEF Distinct
<1> QED
  BY <1>1, <1>6 DEF q

\* What squeue, or sacct, prints for some keys.
LEMMA SqueueTells ==
    ASSUME input \in SlurmStates, NEW keys, "squeue" \notin failing
    PROVE  /\ Rows(Squeue(keys)) = InOrder(Printed(InQueue, keys))
           /\ ~IsError(Squeue(keys))
<1> DEFINE rows == InOrder(Printed(InQueue, keys))
           status == IF rows = <<>> THEN "vanished" ELSE "ok"
<1>1. Squeue(keys) = [status |-> status, rows |-> rows]
  BY DEF Squeue
<1>2. status = "vanished" => rows = <<>>
  OBVIOUS
<1>3. status \in {"vanished", "ok"}
  OBVIOUS
<1> HIDE DEF rows, status
<1> QED
  BY <1>1, <1>2, <1>3 DEF Rows, IsError, rows

LEMMA SacctTells ==
    ASSUME input \in SlurmStates, NEW keys, "sacct" \notin failing
    PROVE  /\ Rows(Sacct(keys)) = InOrder(Printed(OnFile, keys))
           /\ ~IsError(Sacct(keys))
BY DEF Sacct, Rows, IsError

\* Whatever jobs and tasks there are, in the queue or on file, in whatever order rows are
\* printed, and however many handles share a listing: each takes from it the row of its own
\* job or task, as from a query of its own (parse_squeue() and its siblings, with the first
\* row of a task and the last of a job, behind the caches of runner.rs).
THEOREM ListingsAreShared == Spec => []SharedListingsAreTrue
<1>1. SlurmInv => SharedListingsAreTrue
  <2> SUFFICES ASSUME input \in SlurmStates,
                      NEW id \in Ids, NEW others \in SUBSET (Ids \ {id})
               PROVE  /\ "squeue" \notin failing =>
                            Answer(Rows(Squeue({AskedOfSqueue(k) : k \in others \cup {id}})), id)
                               = {Outcome(r) : r \in {s \in InQueue : s.id = id}}
                      /\ "sacct" \notin failing =>
                            Answer(Rows(Sacct({AskedOfSacct(k) : k \in others \cup {id}})), id)
                               = {Outcome(r) : r \in {s \in OnFile : s.id = id}}
    BY DEF SlurmInv, SharedListingsAreTrue
  <2>1. id \in Keys
    BY IdsAreKeys
  <2>2. ASSUME "squeue" \notin failing
        PROVE  Answer(Rows(Squeue({AskedOfSqueue(k) : k \in others \cup {id}})), id)
                   = {Outcome(r) : r \in {s \in InQueue : s.id = id}}
    <3> DEFINE keys == {AskedOfSqueue(k) : k \in others \cup {id}}
               S == Printed(InQueue, keys)
    <3>1. S \subseteq InQueue /\ {s \in S : s.id = id} = {s \in InQueue : s.id = id}
      BY DEF Printed, Covers, AskedOfSqueue
    <3>2. Rows(Squeue(keys)) = InOrder(S)
      BY <2>2, SqueueTells
    <3> HIDE DEF keys, S
    <3>3. Placed(S) /\ \A r \in S : r.id \in Ids
      BY <3>1, QueueIsPlaced
    <3>4. Distinct(InOrder(S)) /\ ToSet(InOrder(S)) = S
      BY <3>3, ListingTells
    <3>5. Answer(InOrder(S), id) = {Outcome(r) : r \in {s \in S : s.id = id}}
      BY <2>1, <3>4, AnswerTells
    <3> QED
      BY <3>1, <3>2, <3>5 DEF keys
  <2>3. ASSUME "sacct" \notin failing
        PROVE  Answer(Rows(Sacct({AskedOfSacct(k) : k \in others \cup {id}})), id)
                   = {Outcome(r) : r \in {s \in OnFile : s.id = id}}
    <3> DEFINE keys == {AskedOfSacct(k) : k \in others \cup {id}}
               S == Printed(OnFile, keys)
    <3>1. AskedOfSacct(id) \in keys /\ Covers(AskedOfSacct(id), id)
      BY DEF Covers, AskedOfSacct, Key
    <3>2. S \subseteq OnFile /\ {s \in S : s.id = id} = {s \in OnFile : s.id = id}
      <4> HIDE DEF keys
      <4> QED
        BY <3>1 DEF Printed
    <3>3. Rows(Sacct(keys)) = InOrder(S)
      BY <2>3, SacctTells
    <3> HIDE DEF keys, S
    <3>4. Placed(S) /\ \A r \in S : r.id.kind = "job" => r.id \in Ids
      BY <3>2, FileIsPlaced
    <3>5. Distinct(InOrder(S)) /\ ToSet(InOrder(S)) = S
      BY <3>4, ListingTells
    <3>6. Answer(InOrder(S), id) = {Outcome(r) : r \in {s \in S : s.id = id}}
      BY <2>1, <3>5, AnswerTells
    <3> QED
      BY <3>2, <3>3, <3>6 DEF keys
  <2> QED
    BY <2>2, <2>3
<1> QED
  BY <1>1, SlurmInvInit, SlurmInvNext, PTL DEF Spec

\* What a bulk query makes of a listing that was printed for some jobs.
LEMMA PlainIsListed == \A j \in Plain : Key(j, NoTask) \in Ids
<1>1. \A x \in Ids : x.kind = "job" => x = Key(x.job, NoTask)
  BY IdsAreKeys DEF Keys, Key, NoTask
<1> QED
  BY <1>1 DEF Plain

LEMMA ByJobOfListing ==
    ASSUME NEW S, Placed(S), \A r \in S : r.id.kind = "job" => r.id \in Ids, NEW j
    PROVE  /\ j \in DOMAIN ByJob(InOrder(S)) <=> \E r \in S : r.id = Key(j, NoTask)
           /\ \A r \in S : r.id = Key(j, NoTask) => ByJob(InOrder(S))[j] = Outcome(r)
<1> DEFINE q == InOrder(S)
           k == Key(j, NoTask)
<1>1. Distinct(q) /\ ToSet(q) = S
  BY ListingTells
<1>2. k.job = j /\ k.kind = "job"
  BY DEF Key
<1> HIDE DEF q
<1>3. DOMAIN ByJob(q) = {i \in {r.id.job : r \in S} : \E r \in S : r.id = Key(i, NoTask)}
  BY <1>1, ByJobTells
<1>4. j \in DOMAIN ByJob(q) <=> \E r \in S : r.id = k
  BY <1>2, <1>3
<1>5. ASSUME NEW r \in S, r.id = k PROVE ByJob(q)[j] = Outcome(r)
  <2>1. PICK i \in DOMAIN q : q[i] = r
    BY <1>1 DEF ToSet
  <2>2. q[i].id.kind = "job" /\ q[i].id.job = j
    BY <1>2, <1>5, <2>1
  <2>3. ByJob(q)[q[i].id.job] = Outcome(q[i])
    BY <1>1, <2>2, ByJobTells
  <2> QED
    BY <2>1, <2>2, <2>3
<1> QED
  BY <1>4, <1>5 DEF q

LEMMA QueueOfJobs ==
    ASSUME input \in SlurmStates, "squeue" \notin failing,
           NEW wanted \in SUBSET Plain, NEW j \in wanted
    PROVE  LET active == ByJob(Rows(Squeue(Jobs(wanted)))) IN
           /\ j \in DOMAIN active <=> queued[Key(j, NoTask)] # None
           /\ j \in DOMAIN active => active[j] = Outcome(QueueRow(Key(j, NoTask)))
<1> DEFINE S == Printed(InQueue, Jobs(wanted))
           k == Key(j, NoTask)
<1>1. Rows(Squeue(Jobs(wanted))) = InOrder(S)
  BY SqueueTells
<1>2. S \subseteq InQueue
  BY DEF Printed
<1>3. \A r \in InQueue : r.id = k => r \in S
  BY DEF Printed, Covers, Jobs
<1> HIDE DEF S
<1>4. Placed(S) /\ \A r \in S : r.id \in Ids
  BY <1>2, QueueIsPlaced
<1>5. /\ j \in DOMAIN ByJob(InOrder(S)) <=> \E r \in S : r.id = k
      /\ \A r \in S : r.id = k => ByJob(InOrder(S))[j] = Outcome(r)
  BY <1>4, ByJobOfListing
<1>6. k \in Ids
  BY PlainIsListed
<1> HIDE DEF k
<1>7. \A r \in S : r.id = k => r = QueueRow(k) /\ queued[k] # None
  BY <1>2 DEF InQueue, QueueRow
<1>8. queued[k] # None => \E r \in S : r.id = k
  <2>1. queued[k] # None => QueueRow(k) \in InQueue /\ QueueRow(k).id = k
    BY <1>6 DEF InQueue, QueueRow
  <2> QED
    BY <1>3, <2>1
<1> QED
  BY <1>1, <1>5, <1>7, <1>8 DEF k

LEMMA FileOfJobs ==
    ASSUME input \in SlurmStates, "sacct" \notin failing,
           NEW wanted \in SUBSET Plain, NEW j \in wanted
    PROVE  LET history == ByJob(Rows(Sacct(Jobs(wanted)))) IN
           /\ j \in DOMAIN history <=> filed[Key(j, NoTask)].token # None
           /\ j \in DOMAIN history => history[j] = Outcome(FileRow(Key(j, NoTask)))
<1> DEFINE S == Printed(OnFile, Jobs(wanted))
           k == Key(j, NoTask)
<1>1. Rows(Sacct(Jobs(wanted))) = InOrder(S)
  BY SacctTells
<1>2. S \subseteq OnFile
  BY DEF Printed
<1>3. \A r \in OnFile : r.id = k => r \in S
  BY DEF Printed, Covers, Jobs
<1> HIDE DEF S
<1>4. Placed(S) /\ \A r \in S : r.id.kind = "job" => r.id \in Ids
  BY <1>2, FileIsPlaced
<1>5. /\ j \in DOMAIN ByJob(InOrder(S)) <=> \E r \in S : r.id = k
      /\ \A r \in S : r.id = k => ByJob(InOrder(S))[j] = Outcome(r)
  BY <1>4, ByJobOfListing
<1>6. k \in Ids /\ k.kind = "job"
  BY PlainIsListed DEF Key
<1> HIDE DEF k
<1>7. \A r \in S : r.id = k => r = FileRow(k) /\ filed[k].token # None
  <2> TAKE r \in S
  <2>1. \/ \E x \in Ids : filed[x].token # None /\ r = FileRow(x) /\ r.id = x
        \/ \E x \in Ids : r.id = Step(x)
        \/ \E i : r.id = Sum(i)
    <3>1. /\ \A x : FileRow(x).id = x /\ StepRow(x).id = Step(x)
          /\ \A i : Aggregate(i).id = Sum(i)
      BY DEF FileRow, StepRow, Aggregate
    <3>2. \/ \E x \in Ids : filed[x].token # None /\ (r = FileRow(x) \/ r = StepRow(x))
          \/ \E i \in Arrays : r = Aggregate(i)
      BY <1>2 DEF OnFile
    <3> QED
      BY <3>1, <3>2
  <2>2. \A i : Sum(i).kind = "aggregate"
    BY DEF Sum
  <2> QED
    BY <1>6, <2>1, <2>2, StepsDiffer
<1>8. filed[k].token # None => \E r \in S : r.id = k
  <2>1. filed[k].token # None => FileRow(k) \in OnFile /\ FileRow(k).id = k
    BY <1>6 DEF OnFile, FileRow
  <2> QED
    BY <1>3, <2>1
<1> QED
  BY <1>1, <1>5, <1>7, <1>8 DEF k

\* What SLURM knows of a plain job: the live row first.
Recorded(j) ==
    LET k == Key(j, NoTask)
    IN  IF queued[k] # None THEN Outcome(QueueRow(k))
        ELSE IF filed[k].token # None THEN Outcome(FileRow(k)) ELSE Default
Unlisted(wanted) == {j \in wanted : queued[Key(j, NoTask)] = None}

LEMMA QueryTells ==
    ASSUME input \in SlurmStates, NEW wanted \in SUBSET Plain, wanted # {}
    PROVE  Query(wanted) =
               IF "squeue" \in failing \/ (Unlisted(wanted) # {} /\ "sacct" \in failing) THEN {}
               ELSE {[j \in wanted |-> Recorded(j)]}
<1> DEFINE queue == Squeue(Jobs(wanted))
           missing == Missing(wanted, queue)
           acct == Sacct(Jobs(missing))
           active == ByJob(Rows(queue))
           history == IF missing = {} THEN <<>> ELSE ByJob(Rows(acct))
<1>1. Query(wanted) = IF IsError(queue) \/ (missing # {} /\ IsError(acct)) THEN {}
                      ELSE {Merged(wanted, active, history)}
  BY DEF Query, QueryBatch
<1>2. CASE "squeue" \in failing
  <2>1. IsError(queue)
    BY <1>2 DEF Squeue, IsError
  <2> HIDE DEF queue, missing, acct, active, history
  <2> QED
    BY <1>1, <1>2, <2>1
<1>3. CASE "squeue" \notin failing
  <2>1. ~IsError(queue)
    BY <1>3, SqueueTells
  <2>2. \A j \in wanted : /\ j \in DOMAIN active <=> queued[Key(j, NoTask)] # None
                          /\ j \in DOMAIN active => active[j] = Outcome(QueueRow(Key(j, NoTask)))
    BY <1>3, QueueOfJobs
  <2>3. missing = Unlisted(wanted) /\ missing \in SUBSET Plain /\ missing = wanted \ DOMAIN active
    <3>1. missing = wanted \ DOMAIN active
      BY DEF Missing
    <3> HIDE DEF missing, active
    <3> QED
      BY <2>2, <3>1 DEF Unlisted
  <2>4. CASE "sacct" \in failing
    <3>1. IsError(acct)
      BY <2>4 DEF Sacct, IsError
    <3> HIDE DEF queue, missing, acct, active
    <3>2. CASE missing # {}
      BY <1>1, <1>3, <2>3, <2>4, <3>1, <3>2
    <3>3. CASE missing = {}
      <4>1. \A j \in wanted : j \in DOMAIN active /\ active[j] = Recorded(j)
        BY <2>2, <2>3, <3>3 DEF Recorded
      <4>2. Query(wanted) = {Merged(wanted, active, history)}
        BY <1>1, <2>1, <3>3
      <4> HIDE DEF history
      <4>3. Merged(wanted, active, history) = [j \in wanted |-> Recorded(j)]
        BY <4>1 DEF Merged
      <4> QED
        BY <1>3, <2>3, <3>3, <4>2, <4>3
    <3> QED
      BY <3>2, <3>3
  <2>5. CASE "sacct" \notin failing
    <3>1. ~IsError(acct)
      BY <2>5, SacctTells
    <3>2. ASSUME NEW j \in missing
          PROVE  /\ j \in DOMAIN history <=> filed[Key(j, NoTask)].token # None
                 /\ j \in DOMAIN history => history[j] = Outcome(FileRow(Key(j, NoTask)))
      <4>1. history = ByJob(Rows(Sacct(Jobs(missing))))
        OBVIOUS
      <4> HIDE DEF missing, history
      <4> QED
        BY <2>3, <2>5, <4>1, FileOfJobs
    <3> HIDE DEF queue, missing, acct, active, history
    <3>3. Query(wanted) = {Merged(wanted, active, history)}
      BY <1>1, <2>1, <3>1
    <3>4. ASSUME NEW j \in wanted
          PROVE  (IF j \in DOMAIN active THEN active[j]
                  ELSE IF j \in DOMAIN history THEN history[j] ELSE Default) = Recorded(j)
      <4>1. CASE j \in DOMAIN active
        BY <2>2, <4>1 DEF Recorded
      <4>2. CASE j \notin DOMAIN active
        <5>1. j \in missing /\ queued[Key(j, NoTask)] = None
          BY <2>2, <2>3, <4>2
        <5> QED
          BY <3>2, <4>2, <5>1 DEF Recorded
      <4> QED
        BY <4>1, <4>2
    <3>5. Merged(wanted, active, history) = [j \in wanted |-> Recorded(j)]
      BY <3>4 DEF Merged
    <3> QED
      BY <1>3, <2>5, <3>3, <3>5
  <2> QED
    BY <2>4, <2>5
<1> QED
  BY <1>2, <1>3

\* A query for any set of jobs gives each what a query for it alone gives, the live row
\* first, or fails because a command failed that it needed (query_job_states_batch_with(),
\* and the fallback to sacct for the jobs squeue has no row of).
THEOREM BatchesAreTransparent == Spec => []BatchIsTransparent
<1>1. SlurmInv => BatchIsTransparent
  <2> SUFFICES ASSUME input \in SlurmStates, NEW wanted \in SUBSET Plain
               PROVE  /\ \A result \in Query(wanted) : \A j \in wanted :
                            /\ Query({j}) = {[i \in {j} |-> result[j]]}
                            /\ queued[Key(j, NoTask)] # None =>
                                  result[j] = Outcome(QueueRow(Key(j, NoTask)))
                            /\ StateOf({j}, {result}) = {result[j]}
                      /\ Query(wanted) = {} => failing # {}
    BY DEF SlurmInv, BatchIsTransparent
  <2>1. CASE wanted = {}
    <3>1. Query(wanted) = {<<>>}
      BY <2>1 DEF Query, QueryBatch
    <3> QED
      BY <2>1, <3>1
  <2>2. CASE wanted # {}
    <3>1. Query(wanted) = {} => failing # {}
      BY <2>2, QueryTells
    <3>2. ASSUME NEW result \in Query(wanted), NEW j \in wanted
          PROVE  /\ Query({j}) = {[i \in {j} |-> result[j]]}
                 /\ queued[Key(j, NoTask)] # None =>
                       result[j] = Outcome(QueueRow(Key(j, NoTask)))
                 /\ StateOf({j}, {result}) = {result[j]}
      <4>1. /\ result = [i \in wanted |-> Recorded(i)]
            /\ ~("squeue" \in failing \/ (Unlisted(wanted) # {} /\ "sacct" \in failing))
        BY <2>2, QueryTells
      <4>2. Unlisted({j}) \subseteq Unlisted(wanted)
        BY DEF Unlisted
      <4>3. result[j] = Recorded(j) /\ j \in DOMAIN result
        BY <4>1
      <4>4. Query({j}) = {[i \in {j} |-> result[j]]}
        <5>1. {j} \in SUBSET Plain /\ {j} # {}
          OBVIOUS
        <5>2. Query({j}) = {[i \in {j} |-> Recorded(i)]}
          BY <4>1, <4>2, <5>1, QueryTells
        <5>3. [i \in {j} |-> Recorded(i)] = [i \in {j} |-> result[j]]
          BY <4>3
        <5> QED
          BY <5>2, <5>3
      <4>5. queued[Key(j, NoTask)] # None => result[j] = Outcome(QueueRow(Key(j, NoTask)))
        BY <4>3 DEF Recorded
      <4>6. StateOf({j}, {result}) = {result[j]}
        BY <4>3 DEF StateOf
      <4> QED
        BY <4>4, <4>5, <4>6
    <3> QED
      BY <3>1, <3>2
  <2> QED
    BY <2>1, <2>2
<1> QED
  BY <1>1, SlurmInvInit, SlurmInvNext, PTL DEF Spec

-----------------------------------------------------------------------------
(* Ends of logs. *)

\* Between any two chunks the file is as it was opened, but for what was cut or written
\* over, and what has been read is the end of it.
LogInv ==
    /\ "part" \in DOMAIN input
    /\ input.part = "log" =>
          /\ {"n", "opened", "file", "reader", "cut", "over"} \subseteq DOMAIN input
          /\ input.opened \in Seq(Byte) /\ input.file \in Seq(Byte)
          /\ input.n \in Nat /\ input.over \in BOOLEAN
          /\ FileKeeps(input.opened, input.file, input.cut, input.over)
          /\ ReadKeeps(input.opened, input.reader, input.n, input.cut, input.over)

LEMMA LogInvInit == Init => LogInv
<1>1. ASSUME input \in LogReads
      PROVE  LogInv
  <2>1. PICK f \in LogsFound, n \in 0..MaxLines : input = LogRead(f, n)
    BY <1>1 DEF LogReads
  <2>2. f \in Seq(Byte) /\ n \in Nat
    BY LogsAssumption
  <2>3. ReadKeeps(f, StartRead({f}, n), n, FALSE, FALSE) /\ FileKeeps(f, f, FALSE, FALSE)
    BY <2>2, StartKeeps
  <2> QED
    BY <2>1, <2>2, <2>3 DEF LogInv, LogRead
<1> QED
  BY <1>1, PartsOfInit DEF LogInv, InitParts

\* Steps that do something else.
LEMMA OthersStay ==
    ASSUME "part" \in DOMAIN input,
           Type \/ Configure \/ StoreSaves \/ StoreDeletes \/ SinkSteps
    PROVE  input.part # "log" /\ "part" \in DOMAIN input' /\ input'.part = input.part
<1>1. CASE Type
  BY <1>1, Zenon DEF Type
<1>2. CASE Configure
  BY <1>2 DEF Configure
<1>3. CASE StoreSaves
  BY <1>3, Zenon DEF StoreSaves
<1>4. CASE StoreDeletes
  BY <1>4, Zenon DEF StoreDeletes
<1>5. CASE SinkSteps
  BY <1>5 DEF SinkSteps
<1> QED
  BY <1>1, <1>2, <1>3, <1>4, <1>5

LEMMA LogInvNext == LogInv /\ [Next]_input => LogInv'
<1> SUFFICES ASSUME LogInv, [Next]_input
             PROVE  LogInv'
  OBVIOUS
<1>1. CASE Type \/ Configure \/ StoreSaves \/ StoreDeletes \/ SinkSteps
  BY <1>1, OthersStay DEF LogInv
<1>2. CASE LogIsRead
  <2> DEFINE r == ReadChunk(input.reader, input.file, input.n)
  <2>1. /\ "part" \in DOMAIN input /\ input.part = "log" /\ input.reader.is = "reading"
        /\ input' = [input EXCEPT !.reader = r]
    BY <1>2 DEF LogIsRead, BeingRead, LogInv
  <2>2. ReadKeeps(input.opened, r, input.n, input.cut, input.over)
    BY <2>1, ChunkKeeps DEF LogInv
  <2> HIDE DEF r
  <2>3. {"n", "opened", "file", "reader", "cut", "over"} \subseteq DOMAIN input
    BY <2>1 DEF LogInv
  <2>4. /\ DOMAIN input' = DOMAIN input /\ input'.part = "log" /\ input'.reader = r
        /\ input'.opened = input.opened /\ input'.file = input.file /\ input'.n = input.n
        /\ input'.cut = input.cut /\ input'.over = input.over
    BY <2>1, <2>3
  <2> QED
    BY <2>1, <2>2, <2>3, <2>4 DEF LogInv
<1>3. CASE LogGrows
  <2> DEFINE over == input.over \/ Len(input.file) < Len(input.opened)
  <2>1. "part" \in DOMAIN input /\ input.part = "log"
    BY <1>3 DEF LogGrows, BeingRead, LogInv
  <2>2. PICK g \in LogPieces : input' = [input EXCEPT !.file = @ \o g, !.over = over]
    BY <1>3, Zenon DEF LogGrows
  <2>3. /\ {"n", "opened", "file", "reader", "cut", "over"} \subseteq DOMAIN input
        /\ input.opened \in Seq(Byte) /\ input.file \in Seq(Byte) /\ input.over \in BOOLEAN
        /\ FileKeeps(input.opened, input.file, input.cut, input.over)
        /\ ReadKeeps(input.opened, input.reader, input.n, input.cut, input.over)
    BY <2>1 DEF LogInv
  <2>4. g \in Seq(Byte)
    BY LogsAssumption
  <2>5. FileKeeps(input.opened, input.file \o g, input.cut, over)
    BY <2>3, <2>4, GrowthKeeps
  <2>6. input.file \o g \in Seq(Byte)
    BY <2>3, <2>4, ConcatProperties
  <2>7. over \in BOOLEAN /\ (~over => ~input.over)
    BY <2>3
  <2>8. ReadKeeps(input.opened, input.reader, input.n, input.cut, over)
    <3> HIDE DEF over
    <3> QED
      BY <2>3, <2>7 DEF ReadKeeps
  <2> HIDE DEF over
  <2>9. /\ DOMAIN input' = DOMAIN input /\ input'.part = "log" /\ input'.reader = input.reader
        /\ input'.opened = input.opened /\ input'.file = input.file \o g /\ input'.n = input.n
        /\ input'.cut = input.cut /\ input'.over = over
    BY <2>1, <2>2, <2>3
  <2> QED
    BY <2>1, <2>3, <2>5, <2>6, <2>7, <2>8, <2>9 DEF LogInv
<1>4. CASE LogIsCut
  <2>1. "part" \in DOMAIN input /\ input.part = "log"
    BY <1>4 DEF LogIsCut, BeingRead, LogInv
  <2>2. PICK k \in 0..(Len(input.file) - 1) :
            input' = [input EXCEPT !.file = Part(@, 1, k), !.cut = TRUE]
    BY <1>4, Zenon DEF LogIsCut, Part
  <2>3. /\ {"n", "opened", "file", "reader", "cut", "over"} \subseteq DOMAIN input
        /\ input.opened \in Seq(Byte) /\ input.file \in Seq(Byte) /\ input.over \in BOOLEAN
        /\ FileKeeps(input.opened, input.file, input.cut, input.over)
        /\ ReadKeeps(input.opened, input.reader, input.n, input.cut, input.over)
    BY <2>1 DEF LogInv
  <2>4. /\ FileKeeps(input.opened, Part(input.file, 1, k), TRUE, input.over)
        /\ Part(input.file, 1, k) \in Seq(Byte)
    BY <2>3, CutKeeps
  <2>5. ReadKeeps(input.opened, input.reader, input.n, TRUE, input.over)
    BY <2>3 DEF ReadKeeps
  <2>6. /\ DOMAIN input' = DOMAIN input /\ input'.part = "log" /\ input'.reader = input.reader
        /\ input'.opened = input.opened /\ input'.file = Part(input.file, 1, k)
        /\ input'.n = input.n /\ input'.cut = TRUE /\ input'.over = input.over
    BY <2>1, <2>2, <2>3
  <2> QED
    BY <2>1, <2>3, <2>4, <2>5, <2>6 DEF LogInv
<1>5. CASE UNCHANGED input
  BY <1>5 DEF LogInv
<1> QED
  BY <1>1, <1>2, <1>3, <1>4, <1>5 DEF Next

\* log_lines() of handle.rs answers, for a file of any length and any n, with the last n
\* lines that the file had when it was opened, whatever the job writes between two chunks;
\* it fails only if somebody cut the file, and then it answers so too, or not at all,
\* until the job writes over what was cut.
THEOREM TailsAreTrue == Spec => []TailIsTrue
<1>1. LogInv => TailIsTrue
  <2> SUFFICES ASSUME LogInv, input.part = "log"
               PROVE  TailIsTrue
    BY DEF TailIsTrue
  <2>1. ~input.over => ReadKeeps(input.opened, input.reader, input.n, input.cut, FALSE)
    <3> SUFFICES ASSUME ~input.over
                 PROVE  ReadKeeps(input.opened, input.reader, input.n, input.cut, FALSE)
      OBVIOUS
    <3>1. ReadKeeps(input.opened, input.reader, input.n, input.cut, input.over)
      BY DEF LogInv
    <3> QED
      BY <3>1 DEF ReadKeeps
  <2>2. ~input.over => LogLines({"log"}, input.reader, input.n)
                           \subseteq {LastOf(Lines(Lossy(input.opened)), input.n)}
    BY <2>1, TailTells DEF LogInv
  <2>3. input.reader.is = "failed" => input.cut
    BY DEF LogInv, ReadKeeps
  <2>4. ReadLogToEnd({"log"}, {input.opened}) \subseteq {Lossy(input.opened)}
    <3>1. ReadLogToEnd({"log"}, {input.opened}) = {f \in {input.opened} : Lossy(f) = f}
      BY DEF ReadLogToEnd
    <3> QED
      BY <3>1
  <2> QED
    BY <2>2, <2>3, <2>4 DEF TailIsTrue
<1> QED
  BY <1>1, LogInvInit, LogInvNext, PTL DEF Spec

-----------------------------------------------------------------------------
(* Texts that are typed, values that Python builds, and the handles of arrays. *)

ValuesInv ==
    /\ "part" \in DOMAIN input
    /\ input.part = "text" =>
          /\ {"kind", "text"} \subseteq DOMAIN input /\ input.kind \in Kinds
          /\ input.text \in Seq(Lexemes(input.kind))
    /\ input.part = "value" => input.kind \in Kinds /\ input.value \in Values(input.kind)

LEMMA ValuesInvInit == Init => ValuesInv
<1>1. ASSUME input \in Typed
      PROVE  /\ {"kind", "text"} \subseteq DOMAIN input /\ input.kind \in Kinds
             /\ input.text \in Seq(Lexemes(input.kind))
  <2>1. {"kind", "text"} \subseteq DOMAIN input /\ input.kind \in Kinds /\ input.text = <<>>
    BY <1>1 DEF Typed
  <2> QED
    BY <2>1
<1>2. ASSUME \E k \in Kinds : \E v \in Values(k) : input = [part |-> "value", kind |-> k, value |-> v]
      PROVE  input.kind \in Kinds /\ input.value \in Values(input.kind)
  BY <1>2
<1> QED
  BY <1>1, <1>2, PartsOfInit DEF ValuesInv, InitParts

\* Every step but Type is one on an input of another kind.
LEMMA ValuesStay ==
    ASSUME "part" \in DOMAIN input,
           Configure \/ StoreSaves \/ StoreDeletes \/ SinkSteps \/ LogSteps
    PROVE  input'.part \notin {"text", "value"} /\ "part" \in DOMAIN input'
<1>1. CASE Configure
  BY <1>1 DEF Configure
<1>2. CASE StoreSaves
  BY <1>2, Zenon DEF StoreSaves
<1>3. CASE StoreDeletes
  BY <1>3, Zenon DEF StoreDeletes
<1>4. CASE SinkSteps
  BY <1>4 DEF SinkSteps
<1>5. CASE LogIsRead
  BY <1>5 DEF LogIsRead, BeingRead
<1>6. CASE LogGrows
  BY <1>6 DEF LogGrows, BeingRead
<1>7. CASE LogIsCut
  BY <1>7 DEF LogIsCut, BeingRead
<1> QED
  BY <1>1, <1>2, <1>3, <1>4, <1>5, <1>6, <1>7 DEF LogSteps

LEMMA ValuesInvNext == ValuesInv /\ [Next]_input => ValuesInv'
<1> SUFFICES ASSUME ValuesInv, [Next]_input
             PROVE  ValuesInv'
  OBVIOUS
<1>1. CASE Configure \/ StoreSaves \/ StoreDeletes \/ SinkSteps \/ LogSteps
  BY <1>1, ValuesStay DEF ValuesInv
<1>2. CASE Type
  <2>1. /\ input.part = "text" /\ {"part", "kind", "text"} \subseteq DOMAIN input
        /\ input.kind \in Kinds /\ input.text \in Seq(Lexemes(input.kind))
    BY <1>2 DEF Type, ValuesInv
  <2>2. PICK x \in Lexemes(input.kind) :
            input' = [input EXCEPT !.text = Append(@, x), !.left = @ - 1]
    BY <1>2, Zenon DEF Type
  <2>3. Append(input.text, x) \in Seq(Lexemes(input.kind))
    BY <2>1, AppendProperties
  <2>4. /\ DOMAIN input' = DOMAIN input /\ input'.part = input.part
        /\ input'.kind = input.kind /\ input'.text = Append(input.text, x)
    BY <2>1, <2>2
  <2> QED
    BY <2>1, <2>3, <2>4 DEF ValuesInv
<1>3. CASE UNCHANGED input
  BY <1>3 DEF ValuesInv
<1> QED
  BY <1>1, <1>2, <1>3 DEF Next, LogSteps

\* An entry as Python may build it, with a step of 0.
PyEntry == [kind : EntryKind, start : Nat, end : 0..MaxU32, step : Nat]

LEMMA PyEntries ==
    ASSUME NEW spec \in ArrayValues
    PROVE  spec.indices \in Seq(PyEntry)
<1> DEFINE entries == PythonEntries(Few) \cup {Stepped(MaxU32 - 2, MaxU32, 2)}
           few == {g \in entries : g.step < 3}
           ones == {<<e>> : e \in entries}
           twos == {<<e, f>> : e, f \in few}
           lists == ones \cup twos
<1>1. MaxU32 \in Nat /\ 3 \in 0..MaxU32 /\ \A n \in Few : n \in Nat /\ n \in 0..MaxU32
  BY TextAssumption, ValuesAssumption DEF Few
<1>2. \A n \in Few : Single(n) \in PyEntry
  BY <1>1 DEF Single, PyEntry, EntryKind
<1>3. \A a, b \in Few : Interval(a, b) \in PyEntry
  BY <1>1 DEF Interval, PyEntry, EntryKind
<1>4. \A a, b, c \in Few : Stepped(a, b, c) \in PyEntry
  BY <1>1 DEF Stepped, PyEntry, EntryKind
<1>5. Stepped(MaxU32 - 2, MaxU32, 2) \in PyEntry
  BY <1>1 DEF Stepped, PyEntry, EntryKind
<1>6. entries \subseteq PyEntry
  BY <1>2, <1>3, <1>4, <1>5 DEF PythonEntries
<1>7. \E is \in lists \cup {<<>>} : spec.indices = is
  BY DEF ArrayValues, PyArraySpec
<1>8. few \subseteq PyEntry
  BY <1>6
<1> HIDE DEF entries, few
<1>9. \A is \in lists \cup {<<>>} : is \in Seq(PyEntry)
  <2> DEFINE S == Seq(PyEntry)
  <2>1. \A e \in entries : <<e>> \in S
    BY <1>6
  <2>2. \A e, f \in few : <<e, f>> \in S
    BY <1>8
  <2>3. <<>> \in S
    OBVIOUS
  <2> HIDE DEF S
  <2>4. \A is \in ones : is \in S
    BY <2>1
  <2>5. \A is \in twos : is \in S
    BY <2>2
  <2> HIDE DEF ones, twos
  <2>6. \A is \in lists \cup {<<>>} : is \in S
    BY <2>3, <2>4, <2>5, Zenon
  <2> QED
    BY <2>6 DEF S
<1> QED
  BY <1>7, <1>9

\* spawn_array() makes a handle for every task that SLURM starts, and for no other; it
\* makes two for one task if two entries overlap, and only then, and none at all only for
\* what the parser rejects: for every text that is typed, and every spec of ArrayValues of
\* which no step is 0.
THEOREM HandlesAreMade == Spec => []HandlesMatchTasks
<1>1. ASSUME ValuesInv, NEW spec \in Specs
      PROVE  LET made == ExpandArrayIndices(spec)
                 entries == spec.indices
             IN  /\ ToSet(made) = UNION {TasksOf(entries[i]) : i \in DOMAIN entries}
                 /\ IsInjective(made) <=>
                       \A i, j \in DOMAIN entries :
                           i < j => TasksOf(entries[i]) \cap TasksOf(entries[j]) = {}
                 /\ made = <<>> => ~Valid("array", spec)
  <2>1. CASE input.part = "text"
    <3>1. spec \in ParseArraySpec(input.text) /\ input.text \in Seq(Lexemes(input.kind))
      BY <1>1, <2>1 DEF Specs, ValuesInv
    <3> QED
      BY <3>1, HandlesAreTasks
  <2>2. CASE input.part = "value"
    <3>1. input.kind = "array" /\ spec = input.value /\ \A e \in ToSet(spec.indices) : e.step > 0
      BY <1>1, <2>2 DEF Specs
    <3>2. spec \in ArrayValues
      BY <1>1, <2>2, <3>1 DEF ValuesInv, Values
    <3>3. spec.indices \in Seq(ArrayEntry)
      <4> DEFINE entries == spec.indices
      <4>1. /\ entries \in Seq(PyEntry) /\ Len(entries) \in Nat
            /\ DOMAIN entries = 1..Len(entries)
        BY <3>2, PyEntries, LenProperties
      <4>2. \A i \in 1..Len(entries) : entries[i] \in PyEntry /\ entries[i].step > 0
        BY <3>1, <4>1, ElementOfSeq DEF ToSet
      <4>3. \A e \in PyEntry : e.step > 0 => e \in ArrayEntry
        BY DEF PyEntry, ArrayEntry
      <4> HIDE DEF entries
      <4>4. \A i \in 1..Len(entries) : entries[i] \in ArrayEntry
        BY <4>2, <4>3
      <4>5. entries \in Seq(ArrayEntry)
        BY <4>1, <4>4
      <4> QED
        BY <4>5 DEF entries
    <3>4. /\ ToSet(ExpandArrayIndices(spec)) =
                 UNION {TasksOf(spec.indices[i]) : i \in DOMAIN spec.indices}
          /\ IsInjective(ExpandArrayIndices(spec)) <=>
                 \A i, j \in DOMAIN spec.indices :
                     i < j => TasksOf(spec.indices[i]) \cap TasksOf(spec.indices[j]) = {}
      BY <3>3, ArrayIsItsTasks
    <3>5. ASSUME Valid("array", spec) PROVE ExpandArrayIndices(spec) # <<>>
      <4>1. spec.indices # <<>> /\ \A e \in ToSet(spec.indices) : e.start <= e.end
        BY <3>5 DEF Valid
      <4>2. \A i \in DOMAIN spec.indices : spec.indices[i].start <= spec.indices[i].end
        BY <4>1 DEF ToSet
      <4> QED
        BY <3>3, <3>4, <4>1, <4>2, SomeTask
    <3> QED
      BY <3>4, <3>5
  <2>3. CASE input.part \notin {"text", "value"}
    BY <1>1, <2>3 DEF Specs
  <2> QED
    BY <2>1, <2>2, <2>3
<1>2. ValuesInv => HandlesMatchTasks
  BY <1>1 DEF HandlesMatchTasks
<1> QED
  BY <1>2, ValuesInvInit, ValuesInvNext, PTL DEF Spec

-----------------------------------------------------------------------------
(* The command lines that the caches take. *)

LEMMA LitsDiffer ==
    ASSUME NEW a, NEW b, Lit(a) = Lit(b)
    PROVE  a = b
<1>1. Lit(a)[1].is = a /\ Lit(b)[1].is = b
  BY DEF Lit, Sign
<1> QED
  BY <1>1

\* The command lines of squeue, and of sacct, about a list.
LEMMA Squeues ==
    ASSUME NEW argv
    PROVE  Fits(argv, SqueueBuild(<<>>)) <=>
               /\ Len(argv) = 7
               /\ argv[1] = Lit("squeue") /\ argv[2] = Lit("-h") /\ argv[3] = Lit("-r")
               /\ argv[4] = Lit("-j") /\ argv[6] = Lit("-o") /\ argv[7] = Lit("%i %T %r")
BY DEF Fits, SqueueBuild

LEMMA Saccts ==
    ASSUME NEW argv
    PROVE  Fits(argv, SacctBuild(<<>>)) <=>
               /\ Len(argv) = 7
               /\ argv[1] = Lit("sacct") /\ argv[2] = Lit("-P") /\ argv[3] = Lit("-n")
               /\ argv[4] = Lit("-j") /\ argv[6] = Lit("-o")
               /\ argv[7] = Lit("JobID,State,Reason,ExitCode")
BY DEF Fits, SacctBuild

LEMMA WordsDiffer ==
    /\ Lit("squeue") # Lit("sacct") /\ Lit("-h") # Lit("-P")
    /\ Lit("JobID,State,Reason,ExitCode") # Lit("JobID,State,Reason")
    /\ Lit("squeue") # Lit("qgroup") /\ Lit("sacct") # Lit("qgroup")
<1>1. /\ "squeue" # "sacct" /\ "-h" # "-P" /\ "squeue" # "qgroup" /\ "sacct" # "qgroup"
      /\ "JobID,State,Reason,ExitCode" # "JobID,State,Reason"
  OBVIOUS
<1> QED
  BY <1>1, LitsDiffer, Zenon

LEMMA QueryWords ==
    ASSUME NEW csv
    PROVE  /\ Len(SqueueQuery(csv)) = 7 /\ Len(SacctQuery(csv)) = 7
           /\ Len(SacctStateQuery(csv)) = 7 /\ Len(QgroupQuery) = 2
           /\ Fits(SqueueQuery(csv), SqueueBuild(<<>>)) /\ SqueueQuery(csv)[5] = csv
           /\ Fits(SacctQuery(csv), SacctBuild(<<>>)) /\ SacctQuery(csv)[5] = csv
           /\ SacctStateQuery(csv)[1] = Lit("sacct") /\ SacctStateQuery(csv)[7] = Lit("JobID,State,Reason")
<1>1. /\ Len(SqueueQuery(csv)) = 7
      /\ Fits(SqueueQuery(csv), SqueueBuild(<<>>)) /\ SqueueQuery(csv)[5] = csv
  BY Squeues, Zenon DEF SqueueQuery
<1>2. /\ Len(SacctQuery(csv)) = 7
      /\ Fits(SacctQuery(csv), SacctBuild(<<>>)) /\ SacctQuery(csv)[5] = csv
  BY Saccts, Zenon DEF SacctQuery
<1>3. /\ Len(SacctStateQuery(csv)) = 7 /\ SacctStateQuery(csv)[1] = Lit("sacct")
      /\ SacctStateQuery(csv)[7] = Lit("JobID,State,Reason")
  BY DEF SacctStateQuery
<1>4. Len(QgroupQuery) = 2
  BY DEF QgroupQuery
<1> QED
  BY <1>1, <1>2, <1>3, <1>4, Zenon

\* A command line that a cache takes is of one of three shapes.
LEMMA TakenShapes ==
    ASSUME NEW argv
    PROVE  /\ Fits(argv, SqueueBuild(<<>>)) =>
                 /\ SqueueParse(argv) = ParseCsv(argv[5])
                 /\ ParseCsv(argv[5]) # {} => TakenBy(argv) = {"squeue"}
           /\ Fits(argv, SacctBuild(<<>>)) =>
                 /\ SacctParse(argv) = ParseCsv(argv[5])
                 /\ ParseCsv(argv[5]) # {} => TakenBy(argv) = {"sacct"}
           /\ TakenBy(argv) # {} =>
                 \/ argv = QgroupQuery
                 \/ Fits(argv, SqueueBuild(<<>>)) \/ Fits(argv, SacctBuild(<<>>))
<1> DEFINE squeue == Fits(argv, SqueueBuild(<<>>))
           sacct == Fits(argv, SacctBuild(<<>>))
           qgroup == argv = QgroupQuery
<1>1. ~(squeue /\ sacct)
  BY Squeues, Saccts, WordsDiffer, Zenon
<1>2. (squeue \/ sacct) => ~qgroup
  <2>1. (squeue \/ sacct) => Len(argv) = 7
    BY Squeues, Saccts, Zenon
  <2>2. qgroup => Len(argv) = 2
    BY QueryWords, Zenon
  <2> QED
    BY <2>1, <2>2, SMTT(30)
<1>3. /\ SqueueParse(argv) = IF squeue THEN ParseCsv(argv[5]) ELSE {}
      /\ SacctParse(argv) = IF sacct THEN ParseCsv(argv[5]) ELSE {}
      /\ QgroupParse(argv) = IF qgroup THEN {<<>>} ELSE {}
  BY DEF SqueueParse, SacctParse, QgroupParse, QgroupQuery
<1> HIDE DEF squeue, sacct, qgroup
<1>4. \A s : s \in TakenBy(argv) <=>
                 \/ s = "qgroup" /\ QgroupParse(argv) # {}
                 \/ s = "squeue" /\ SqueueParse(argv) # {}
                 \/ s = "sacct" /\ SacctParse(argv) # {}
  BY DEF TakenBy
<1>5. ASSUME squeue PROVE SqueueParse(argv) = ParseCsv(argv[5])
                          /\ (ParseCsv(argv[5]) # {} => TakenBy(argv) = {"squeue"})
  <2>1. SqueueParse(argv) = ParseCsv(argv[5]) /\ SacctParse(argv) = {} /\ QgroupParse(argv) = {}
    BY <1>1, <1>2, <1>3, <1>5
  <2> QED
    BY <1>4, <2>1
<1>6. ASSUME sacct PROVE SacctParse(argv) = ParseCsv(argv[5])
                         /\ (ParseCsv(argv[5]) # {} => TakenBy(argv) = {"sacct"})
  <2>1. SacctParse(argv) = ParseCsv(argv[5]) /\ SqueueParse(argv) = {} /\ QgroupParse(argv) = {}
    BY <1>1, <1>2, <1>3, <1>6
  <2> QED
    BY <1>4, <2>1
<1>7. TakenBy(argv) # {} => qgroup \/ squeue \/ sacct
  BY <1>3, <1>4
<1> QED
  BY <1>5, <1>6, <1>7 DEF squeue, sacct, qgroup

\* A change of one word of a line that fits makes one that does not.
LEMMA OneWordChanged ==
    ASSUME NEW S, NEW argv \in Seq(S), NEW i \in DOMAIN argv \ {5}, NEW w \in S,
           Fits(argv, SqueueBuild(<<>>)) \/ Fits(argv, SacctBuild(<<>>)),
           TakenBy([argv EXCEPT ![i] = w]) # {}
    PROVE  [argv EXCEPT ![i] = w] = argv
<1> DEFINE near == [argv EXCEPT ![i] = w]
<1>1. Len(argv) = 7 /\ DOMAIN argv = 1..7
  BY LenProperties, Squeues, Saccts, Zenon
<1>2. near \in Seq(S) /\ Len(near) = 7
  <2>1. i \in 1..Len(argv)
    BY <1>1
  <2>2. near \in Seq(S) /\ Len(near) = Len(argv)
    BY <2>1, ExceptSeq
  <2> QED
    BY <1>1, <2>2
<1>3. \A j \in 1..7 : near[j] = IF j = i THEN w ELSE argv[j]
  BY <1>1
<1> HIDE DEF near
<1>4. Fits(near, SqueueBuild(<<>>)) \/ Fits(near, SacctBuild(<<>>))
  <2>1. near # QgroupQuery
    <3>1. Len(QgroupQuery) = 2
      BY DEF QgroupQuery
    <3>2. 7 # 2
      OBVIOUS
    <3> QED
      BY <1>2, <3>1, <3>2, Zenon
  <2> QED
    BY <2>1, TakenShapes DEF near
<1>5. i \in 1..7 /\ i # 5
  BY <1>1
<1>6. CASE Fits(argv, SqueueBuild(<<>>)) /\ Fits(near, SacctBuild(<<>>))
  <2>1. near[1] # argv[1] /\ near[2] # argv[2]
    BY <1>6, Squeues, Saccts, WordsDiffer, Zenon
  <2> QED
    BY <1>3, <2>1
<1>7. CASE Fits(argv, SacctBuild(<<>>)) /\ Fits(near, SqueueBuild(<<>>))
  <2>1. near[1] # argv[1] /\ near[2] # argv[2]
    BY <1>7, Squeues, Saccts, WordsDiffer, Zenon
  <2> QED
    BY <1>3, <2>1
<1>8. CASE \/ Fits(argv, SqueueBuild(<<>>)) /\ Fits(near, SqueueBuild(<<>>))
           \/ Fits(argv, SacctBuild(<<>>)) /\ Fits(near, SacctBuild(<<>>))
  <2>1. \A j \in {1, 2, 3, 4, 6, 7} : near[j] = argv[j]
    BY <1>8, Squeues, Saccts, ZenonT(30)
  <2>2. near[5] = argv[5]
    BY <1>3, <1>5
  <2>3. \A j \in 1..7 : j = 5 \/ j \in {1, 2, 3, 4, 6, 7}
    OBVIOUS
  <2>4. \A j \in 1..Len(near) : near[j] = argv[j]
    BY <1>2, <2>1, <2>2, <2>3
  <2>5. near = argv
    BY <1>1, <1>2, <2>4, SeqEqual
  <2> QED
    BY <2>5 DEF near
<1> QED
  BY <1>4, <1>6, <1>7, <1>8

LEMMA OneWordLess ==
    ASSUME NEW S, NEW argv \in Seq(S), NEW i \in DOMAIN argv, NEW w \in S
    PROVE  Len(RemoveAt(argv, i)) = Len(argv) - 1 /\ Len(Append(argv, w)) = Len(argv) + 1
<1>1. Len(argv) \in Nat /\ i \in 1..Len(argv) /\ \A j \in 1..Len(argv) : argv[j] \in S
  BY LenProperties, ElementOfSeq
<1> DEFINE a == SubSeq(argv, 1, i - 1)
           b == SubSeq(argv, i + 1, Len(argv))
<1>2. a \in Seq(S) /\ Len(a) = i - 1
  BY <1>1, SubSeqProperties
<1>3. b \in Seq(S) /\ Len(b) = Len(argv) - i
  BY <1>1, SubSeqProperties
<1> HIDE DEF a, b
<1>4. Len(a \o b) = Len(a) + Len(b)
  BY <1>2, <1>3, ConcatProperties
<1>5. Len(RemoveAt(argv, i)) = Len(argv) - 1
  BY <1>1, <1>2, <1>3, <1>4, SMTT(30) DEF RemoveAt, a, b
<1>6. Len(Append(argv, w)) = Len(argv) + 1
  BY AppendProperties
<1> QED
  BY <1>5, <1>6

\* The words of a line that fits, and of those that differ from it.
NearWords(argv) == {argv[j] : j \in DOMAIN argv} \cup {<<>>, Lit("-l"), Lit("-n"), Lit("-a")}

LEMMA NearbyIsNotTaken ==
    ASSUME NEW argv, argv \in Seq(NearWords(argv)),
           \/ Fits(argv, SqueueBuild(<<>>)) \/ Fits(argv, SacctBuild(<<>>))
           \/ argv = QgroupQuery,
           NEW near \in Neighbours(argv), TakenBy(near) # {}
    PROVE  near = argv
<1> DEFINE S == NearWords(argv)
<1>1. Lit("-a") \in S /\ \A w \in {<<>>, Lit("-l"), Lit("-n")} : w \in S
  BY DEF NearWords
<1>2. Len(argv) \in {2, 7} /\ (Len(argv) = 2 <=> argv = QgroupQuery)
  <2>1. Len(QgroupQuery) = 2
    BY DEF QgroupQuery
  <2>2. Fits(argv, SqueueBuild(<<>>)) \/ Fits(argv, SacctBuild(<<>>)) => Len(argv) = 7
    BY Squeues, Saccts, Zenon
  <2>3. 7 # 2
    OBVIOUS
  <2> QED
    BY <2>1, <2>2, <2>3, Zenon
<1>3. Len(near) \in {2, 7} /\ (Len(near) = 2 <=> near = QgroupQuery)
  <2>1. Len(QgroupQuery) = 2
    BY DEF QgroupQuery
  <2>2. \/ near = QgroupQuery
        \/ Fits(near, SqueueBuild(<<>>)) \/ Fits(near, SacctBuild(<<>>))
    BY TakenShapes
  <2>3. Fits(near, SqueueBuild(<<>>)) \/ Fits(near, SacctBuild(<<>>)) => Len(near) = 7
    BY Squeues, Saccts, Zenon
  <2>4. 7 # 2
    OBVIOUS
  <2> QED
    BY <2>1, <2>2, <2>3, <2>4, Zenon
<1>4. argv \in Seq(S)
  OBVIOUS
<1> HIDE DEF S
<1> DEFINE m == Len(near)
           n == Len(argv)
<1>5. m \in {2, 7} /\ n \in {2, 7}
  BY <1>2, <1>3
<1>6. \/ \E i \in DOMAIN argv \ {5}, w \in {<<>>, Lit("-l"), Lit("-n")} : near = [argv EXCEPT ![i] = w]
      \/ \E i \in DOMAIN argv : near = RemoveAt(argv, i)
      \/ near = Append(argv, Lit("-a"))
  BY DEF Neighbours
<1>7. CASE \E i \in DOMAIN argv \ {5}, w \in {<<>>, Lit("-l"), Lit("-n")} : near = [argv EXCEPT ![i] = w]
  <2>1. PICK i \in DOMAIN argv \ {5}, w \in {<<>>, Lit("-l"), Lit("-n")} : near = [argv EXCEPT ![i] = w]
    BY <1>7
  <2>2. CASE argv = QgroupQuery
    <3>1. i \in 1..Len(argv) /\ w \in S
      BY <1>1, <1>4, LenProperties
    <3>2. Len(near) = Len(argv)
      BY <1>4, <2>1, <3>1, ExceptSeq
    <3> QED
      BY <1>2, <1>3, <2>2, <3>2
  <2>3. CASE argv # QgroupQuery
    <3>1. Fits(argv, SqueueBuild(<<>>)) \/ Fits(argv, SacctBuild(<<>>))
      BY <2>3
    <3>2. w \in S /\ TakenBy([argv EXCEPT ![i] = w]) # {}
      BY <1>1, <2>1
    <3>3. [argv EXCEPT ![i] = w] = argv
      BY <1>4, <3>1, <3>2, OneWordChanged
    <3> QED
      BY <2>1, <3>3
  <2> QED
    BY <2>2, <2>3
<1>8. CASE \E i \in DOMAIN argv : near = RemoveAt(argv, i)
  <2>1. Len(near) = Len(argv) - 1
    BY <1>1, <1>4, <1>8, OneWordLess
  <2> HIDE DEF m, n
  <2>2. m # n - 1
    BY <1>5
  <2> QED
    BY <2>1, <2>2 DEF m, n
<1>9. CASE near = Append(argv, Lit("-a"))
  <2>1. Len(near) = Len(argv) + 1
    BY <1>1, <1>4, <1>9, AppendProperties
  <2> HIDE DEF m, n
  <2>2. m # n + 1
    BY <1>5
  <2> QED
    BY <2>1, <2>2 DEF m, n
<1> QED
  BY <1>6, <1>7, <1>8, <1>9

LEMMA QueriesAreWords ==
    ASSUME NEW csv
    PROVE  /\ SqueueQuery(csv) \in Seq(NearWords(SqueueQuery(csv)))
           /\ SacctQuery(csv) \in Seq(NearWords(SacctQuery(csv)))
           /\ QgroupQuery \in Seq(NearWords(QgroupQuery))
<1>1. ASSUME NEW argv, NEW n \in Nat, argv = [j \in 1..n |-> argv[j]]
      PROVE  argv \in Seq(NearWords(argv))
  <2> DEFINE S == NearWords(argv)
  <2>1. DOMAIN argv = 1..n
    BY <1>1
  <2>2. \A j \in 1..n : argv[j] \in S
    BY <2>1 DEF NearWords
  <2> HIDE DEF S
  <2>3. argv \in [1..n -> S]
    BY <1>1, <2>2
  <2>4. argv \in Seq(S)
    BY <2>3
  <2> QED
    BY <2>4 DEF S
<1>2. SqueueQuery(csv) = [j \in 1..7 |-> SqueueQuery(csv)[j]]
  BY DEF SqueueQuery
<1>3. SacctQuery(csv) = [j \in 1..7 |-> SacctQuery(csv)[j]]
  BY DEF SacctQuery
<1>4. QgroupQuery = [j \in 1..2 |-> QgroupQuery[j]]
  BY DEF QgroupQuery
<1>5. 7 \in Nat /\ 2 \in Nat
  OBVIOUS
<1> QED
  BY <1>1, <1>2, <1>3, <1>4, <1>5

LEMMA BuildsFit ==
    ASSUME NEW keys
    PROVE  /\ Fits(RunInstead("squeue", keys), SqueueBuild(<<>>))
           /\ RunInstead("squeue", keys)[5] = BuildCsv(keys)
           /\ Fits(RunInstead("sacct", keys), SacctBuild(<<>>))
           /\ RunInstead("sacct", keys)[5] = BuildCsv(keys)
<1>1. RunInstead("squeue", keys) = SqueueBuild(keys) /\ RunInstead("sacct", keys) = SacctBuild(keys)
  BY DEF RunInstead
<1>2. Fits(SqueueBuild(keys), SqueueBuild(<<>>)) /\ SqueueBuild(keys)[5] = BuildCsv(keys)
  <2> DEFINE b == SqueueBuild(keys)
  <2>1. /\ Len(b) = 7 /\ b[5] = BuildCsv(keys)
        /\ b[1] = Lit("squeue") /\ b[2] = Lit("-h") /\ b[3] = Lit("-r")
        /\ b[4] = Lit("-j") /\ b[6] = Lit("-o") /\ b[7] = Lit("%i %T %r")
    BY DEF SqueueBuild
  <2> HIDE DEF b
  <2>2. Fits(b, SqueueBuild(<<>>))
    BY <2>1, Squeues, Zenon
  <2> QED
    BY <2>1, <2>2, Zenon DEF b
<1>3. Fits(SacctBuild(keys), SacctBuild(<<>>)) /\ SacctBuild(keys)[5] = BuildCsv(keys)
  <2> DEFINE b == SacctBuild(keys)
  <2>1. /\ Len(b) = 7 /\ b[5] = BuildCsv(keys)
        /\ b[1] = Lit("sacct") /\ b[2] = Lit("-P") /\ b[3] = Lit("-n")
        /\ b[4] = Lit("-j") /\ b[6] = Lit("-o") /\ b[7] = Lit("JobID,State,Reason,ExitCode")
    BY DEF SacctBuild
  <2> HIDE DEF b
  <2>2. Fits(b, SacctBuild(<<>>))
    BY <2>1, Saccts, Zenon
  <2> QED
    BY <2>1, <2>2, Zenon DEF b
<1> QED
  BY <1>1, <1>2, <1>3

\* A query about jobs and tasks, and only that, is taken by the cache for its command, which
\* asks SLURM about the same jobs and tasks in its place: of every list of at most MaxTyped
\* lexemes that is typed, and every list of KeyValues.  A line that differs from one of the
\* queries in a word, or lacks one, or has one more, is not taken, nor is the query for
\* states without exit codes.
THEOREM QueriesAreCached == Spec => []QueriesReachTheirCache
<1>1. ASSUME ValuesInv, input.part = "text", input.kind = "keys"
      PROVE  QueriesReachTheirCache
  <2> DEFINE csv == input.text
             names == Split(csv, ",")
             squeue == SqueueQuery(csv)
             sacct == SacctQuery(csv)
             states == SacctStateQuery(csv)
  <2>1. /\ Fits(squeue, SqueueBuild(<<>>)) /\ squeue[5] = csv
        /\ Fits(sacct, SacctBuild(<<>>)) /\ sacct[5] = csv
        /\ Len(states) = 7 /\ states[1] = Lit("sacct") /\ states[7] = Lit("JobID,State,Reason")
    BY QueryWords, Zenon
  <2>2. /\ squeue \in Seq(NearWords(squeue)) /\ sacct \in Seq(NearWords(sacct))
        /\ QgroupQuery \in Seq(NearWords(QgroupQuery))
    BY QueriesAreWords
  <2>3. csv \in Seq(Lexemes("keys"))
    BY <1>1 DEF ValuesInv
  <2> HIDE DEF csv, names, squeue, sacct, states
  <2>4. TakenBy(states) = {}
    <3>1. states # QgroupQuery
      <4>1. Len(QgroupQuery) = 2
        BY DEF QgroupQuery
      <4>2. 7 # 2
        OBVIOUS
      <4> QED
        BY <2>1, <4>1, <4>2, Zenon
    <3>2. ~Fits(states, SqueueBuild(<<>>))
      BY <2>1, Squeues, WordsDiffer, Zenon
    <3>3. ~Fits(states, SacctBuild(<<>>))
      BY <2>1, Saccts, WordsDiffer, Zenon
    <3> QED
      BY <3>1, <3>2, <3>3, TakenShapes
  <2>5. TakenBy(QgroupQuery) = {"qgroup"}
    <3> DEFINE q == QgroupQuery
    <3>1. ~Fits(q, SqueueBuild(<<>>)) /\ ~Fits(q, SacctBuild(<<>>))
      <4>1. Len(q) = 2
        BY DEF QgroupQuery
      <4> HIDE DEF q
      <4>2. 7 # 2
        OBVIOUS
      <4> QED
        BY <4>1, <4>2, Squeues, Saccts, Zenon
    <3>2. QgroupParse(q) = {<<>>}
      BY DEF QgroupParse, QgroupQuery
    <3> HIDE DEF q
    <3>3. SqueueParse(q) = {} /\ SacctParse(q) = {}
      BY <3>1 DEF SqueueParse, SacctParse
    <3>4. \A s : s \in TakenBy(q) <=> s = "qgroup"
      BY <3>2, <3>3 DEF TakenBy
    <3> QED
      BY <3>4 DEF q
  <2>6. SqueueParse(squeue) = ParseCsv(csv) /\ SacctParse(sacct) = ParseCsv(csv)
    BY <2>1, TakenShapes, Zenon
  <2>7. ASSUME NEW keys \in ParseCsv(csv)
        PROVE  /\ TakenBy(squeue) = {"squeue"} /\ TakenBy(sacct) = {"sacct"}
               /\ Len(keys) = Len(names)
               /\ \A i \in DOMAIN keys : ParseKey(names[i]) = {keys[i]}
               /\ SqueueParse(RunInstead("squeue", keys)) = {keys}
               /\ SacctParse(RunInstead("sacct", keys)) = {keys}
    <3>1. ParseCsv(csv) # {}
      OBVIOUS
    <3>2. TakenBy(squeue) = {"squeue"} /\ TakenBy(sacct) = {"sacct"}
      BY <2>1, <3>1, TakenShapes, Zenon
    <3>3. /\ keys \in Seq(JobKeys) /\ keys # <<>> /\ Len(keys) = Len(names)
          /\ \A i \in DOMAIN keys : ParseKey(names[i]) = {keys[i]}
      BY <2>3, ParsedCsv, Zenon DEF names
    <3>4. ParseCsv(BuildCsv(keys)) = {keys}
      BY <3>3, BuiltIsRead
    <3>5. SqueueParse(RunInstead("squeue", keys)) = ParseCsv(BuildCsv(keys))
      BY BuildsFit, TakenShapes
    <3>6. SacctParse(RunInstead("sacct", keys)) = ParseCsv(BuildCsv(keys))
      BY BuildsFit, TakenShapes
    <3> QED
      BY <3>2, <3>3, <3>4, <3>5, <3>6
  <2>8. ASSUME NEW near \in Neighbours(squeue) \cup Neighbours(sacct) \cup Neighbours(QgroupQuery),
               TakenBy(near) # {}
        PROVE  near \in {squeue, sacct, QgroupQuery}
    <3>1. near \in Neighbours(squeue) => near = squeue
      BY <2>1, <2>2, <2>8, NearbyIsNotTaken, Zenon
    <3>2. near \in Neighbours(sacct) => near = sacct
      BY <2>1, <2>2, <2>8, NearbyIsNotTaken, Zenon
    <3>3. near \in Neighbours(QgroupQuery) => near = QgroupQuery
      BY <2>2, <2>8, NearbyIsNotTaken
    <3> QED
      BY <3>1, <3>2, <3>3
  <2>9. \A keys \in SqueueParse(squeue) :
            /\ TakenBy(squeue) = {"squeue"} /\ TakenBy(sacct) = {"sacct"}
            /\ Len(keys) = Len(names)
            /\ \A i \in DOMAIN keys : ParseKey(names[i]) = {keys[i]}
            /\ SqueueParse(RunInstead("squeue", keys)) = {keys}
            /\ SacctParse(RunInstead("sacct", keys)) = {keys}
    BY <2>6, <2>7
  <2> QED
    BY <2>4, <2>5, <2>6, <2>8, <2>9, Zenon DEF QueriesReachTheirCache, csv, names, squeue, sacct, states
<1>2. ValuesInv => QueriesReachTheirCache
  BY <1>1, Zenon DEF QueriesReachTheirCache
<1> QED
  BY <1>2, ValuesInvInit, ValuesInvNext, PTL DEF Spec

-----------------------------------------------------------------------------
(* The values that Python builds here are of the forms that are read back. *)

LEMMA SmallNumbers ==
    /\ MaxU32 \in Nat /\ 90061 \in 1..MaxU32 /\ MaxU32 - 2 \in 0..MaxU32
    /\ MaxU32 \in 0..MaxU32
    /\ {0, 1, 2, 4, 5, 7, 8} \subseteq 0..MaxU32 /\ 8 \in 1..MaxU32
    /\ Few \subseteq 0..MaxU32
<1>1. MaxU32 \in Nat
  BY TextAssumption
<1>2. 90061 \in 1..MaxU32
  BY ValuesAssumption DEF TimeValues
<1>3. Few \subseteq 0..MaxU32
  BY ValuesAssumption
<1> QED
  BY <1>1, <1>2, <1>3

\* Lists of up to two.
LEMMA ShortSeqs ==
    ASSUME NEW S
    PROVE  /\ <<>> \in Seq(S)
           /\ \A e \in S : <<e>> \in Seq(S) /\ <<e>> # <<>>
           /\ \A e, f \in S : <<e, f>> \in Seq(S) /\ <<e, f>> # <<>>
OBVIOUS

LEMMA FormsOfPython ==
    /\ \A i \in 0..MaxU32 : Single(i) \in PyForms
    /\ \A a, b \in 0..MaxU32 : Interval(a, b) \in PyForms
    /\ \A a, b, c \in 0..MaxU32 : Stepped(a, b, c) \in PyForms
<1> DEFINE T == 0..MaxU32
           singles == {Single(i) : i \in T}
           intervals == {Interval(a, b) : a \in T, b \in T}
           stepped == {Stepped(a, b, c) : a \in T, b \in T, c \in T}
<1>1. PyForms = singles \cup intervals \cup stepped
  BY DEF PyForms
<1> HIDE DEF T
<1>2. \A i \in T : Single(i) \in singles
  OBVIOUS
<1>3. \A a, b \in T : Interval(a, b) \in intervals
  OBVIOUS
<1>4. \A a, b, c \in T : Stepped(a, b, c) \in stepped
  OBVIOUS
<1> HIDE DEF singles, intervals, stepped
<1>5. /\ \A i \in T : Single(i) \in PyForms
      /\ \A a, b \in T : Interval(a, b) \in PyForms
      /\ \A a, b, c \in T : Stepped(a, b, c) \in PyForms
  BY <1>1, <1>2, <1>3, <1>4
<1> QED
  BY <1>5 DEF T

LEMMA ArraysAreForms == ArrayValues \subseteq PySpecs
<1> DEFINE entries == PythonEntries(Few) \cup {Stepped(MaxU32 - 2, MaxU32, 2)}
           few == {g \in entries : g.step < 3}
           ones == {<<e>> : e \in entries}
           twos == {<<e, f>> : e, f \in few}
           lists == ones \cup twos
           caps == {{}, {0}, {4}}
<1> DEFINE F == Few
<1>1. F \subseteq 0..MaxU32 /\ 2 \in 0..MaxU32
  BY SmallNumbers
<1>9. entries = PythonEntries(F) \cup {Stepped(MaxU32 - 2, MaxU32, 2)}
  OBVIOUS
<1> HIDE DEF F, entries
<1>2. \A n \in F : Single(n) \in PyForms
  BY <1>1, FormsOfPython
<1>3. \A a, b \in F : Interval(a, b) \in PyForms
  BY <1>1, FormsOfPython
<1>4. \A a, b, c \in F : Stepped(a, b, c) \in PyForms
  <2> DEFINE T == 0..MaxU32
  <2>1. F \subseteq T /\ \A a, b, c \in T : Stepped(a, b, c) \in PyForms
    BY <1>1, FormsOfPython
  <2> HIDE DEF T
  <2> QED
    BY <2>1
<1>12. Stepped(MaxU32 - 2, MaxU32, 2) \in PyForms
  <2> DEFINE b == MaxU32 - 2
  <2>1. b \in 0..MaxU32 /\ 2 \in 0..MaxU32 /\ MaxU32 \in 0..MaxU32
    BY <1>1, SmallNumbers
  <2> HIDE DEF b
  <2>2. Stepped(b, MaxU32, 2) \in PyForms
    BY <2>1, FormsOfPython
  <2> QED
    BY <2>2 DEF b
<1>5. entries \subseteq PyForms
  BY <1>2, <1>3, <1>4, <1>9, <1>12 DEF PythonEntries
<1>6. few \subseteq PyForms
  BY <1>5
<1>7. caps \subseteq {{}} \cup {{n} : n \in 0..MaxU32}
  <2>1. 0 \in 0..MaxU32 /\ 4 \in 0..MaxU32
    BY SmallNumbers
  <2> QED
    BY <2>1
<1>8. ArrayValues = {PyArraySpec(is, cap) : is \in lists \cup {<<>>}, cap \in caps}
  BY DEF ArrayValues, entries, F
<1> HIDE DEF few, caps
<1>11. \A is \in lists \cup {<<>>} : is \in Seq(PyForms)
  <2> DEFINE S == Seq(PyForms)
  <2>1. \A e \in entries : <<e>> \in S
    BY <1>5, ShortSeqs
  <2>2. \A e, f \in few : <<e, f>> \in S
    BY <1>6, ShortSeqs
  <2>3. <<>> \in S
    BY ShortSeqs
  <2> HIDE DEF S
  <2>4. \A is \in ones : is \in S
    BY <2>1
  <2>5. \A is \in twos : is \in S
    BY <2>2
  <2> HIDE DEF ones, twos
  <2>6. \A is \in lists \cup {<<>>} : is \in S
    BY <2>3, <2>4, <2>5, Zenon
  <2> QED
    BY <2>6 DEF S
<1> HIDE DEF lists
<1>10. \A is \in Seq(PyForms) : \A cap \in {{}} \cup {{n} : n \in 0..MaxU32} :
            PyArraySpec(is, cap) \in PySpecs
  BY DEF PyArraySpec, PySpecs
<1> QED
  BY <1>7, <1>8, <1>10, <1>11

LEMMA DependenciesAreForms == DependencyValues \subseteq PyDeps
<1> DEFINE refs == {JobRef(7, {}), JobRef(0, {0}), JobRef(8, {5})}
           one == {<<r>> : r \in refs}
           two == {<<q, r>> : q, r \in refs}
           jobs == {<<>>} \cup one \cup two
           clauses == PyClauses(jobs)
           few == {c \in clauses : Len(c.job_refs) < 2 /\ c.dep_type \in {"after", "afterok", "singleton"}}
           ones == {<<c>> : c \in clauses}
           twos == {<<b, c>> : b, c \in few}
           lists == {<<>>} \cup ones \cup twos
<1>1. refs \subseteq PyRefs
  <2>1. 0 \in 0..MaxU32 /\ 5 \in 0..MaxU32 /\ 7 \in 0..MaxU32 /\ 8 \in 0..MaxU32
    BY SmallNumbers
  <2> QED
    BY <2>1 DEF PyRefs, JobRef
<1> HIDE DEF refs
<1>2. jobs \subseteq Seq(PyRefs)
  <2> DEFINE S == Seq(PyRefs)
  <2>1. \A r \in refs : <<r>> \in S
    BY <1>1, ShortSeqs
  <2>2. \A q, r \in refs : <<q, r>> \in S
    BY <1>1, ShortSeqs
  <2>3. <<>> \in S
    BY ShortSeqs
  <2> HIDE DEF S
  <2>4. \A x \in one : x \in S
    BY <2>1
  <2>5. \A x \in two : x \in S
    BY <2>2
  <2> HIDE DEF one, two
  <2>6. \A x \in jobs : x \in S
    BY <2>3, <2>4, <2>5, Zenon
  <2> QED
    BY <2>6 DEF S
<1>3. DependencyValues = {PyDependency(cs, j) : cs \in lists, j \in {"And", "Or"}}
  BY DEF DependencyValues, refs
<1> HIDE DEF jobs
<1>4. clauses \subseteq PyClauseForms
  BY <1>2 DEF PyClauses, PyClauseForms
<1>5. few \subseteq PyClauseForms
  BY <1>4
<1> HIDE DEF clauses, few
<1>6. \A cs \in lists : cs \in Seq(PyClauseForms)
  <2> DEFINE S == Seq(PyClauseForms)
  <2>1. \A c \in clauses : <<c>> \in S
    BY <1>4, ShortSeqs
  <2>2. \A b, c \in few : <<b, c>> \in S
    BY <1>5, ShortSeqs
  <2>3. <<>> \in S
    BY ShortSeqs
  <2> HIDE DEF S
  <2>4. \A x \in ones : x \in S
    BY <2>1
  <2>5. \A x \in twos : x \in S
    BY <2>2
  <2> HIDE DEF ones, twos
  <2>6. \A x \in lists : x \in S
    BY <2>3, <2>4, <2>5, Zenon
  <2> QED
    BY <2>6 DEF S
<1> HIDE DEF lists
<1>7. \A cs \in Seq(PyClauseForms) : \A j \in {"And", "Or"} : PyDependency(cs, j) \in PyDeps
  BY DEF PyDependency, PyDeps
<1> QED
  BY <1>3, <1>6, <1>7

LEMMA SignalsAreForms == SignalValues \subseteq Signals
<1>1. Lit("USR1") \in SignalNames /\ Lit("R") \in SignalNames
  BY ValuesAssumption DEF SignalNames
<1>2. Dec(9) \in SignalNames
  <2>1. 9 \in 1..MaxSignal
    BY DEF MaxSignal
  <2> QED
    BY <2>1 DEF SignalNames
<1>3. {{}, {60}} \subseteq {{}} \cup {{n} : n \in 1..MaxU16}
  <2>1. 60 \in 1..MaxU16
    BY DEF MaxU16
  <2> QED
    BY <2>1
<1> QED
  BY <1>1, <1>2, <1>3 DEF SignalValues, Signals

\* Lists as Python hands them over.
LEMMA BoundedSeqs ==
    ASSUME NEW S, NEW n \in Nat
    PROVE  BoundedSeq(S, n) \subseteq Seq(S)
<1>1. BoundedSeq(S, n) = UNION {[1..m -> S] : m \in 0..n}
  BY DEF BoundedSeq, SeqOf
<1>2. \A m \in 0..n : [1..m -> S] \subseteq Seq(S)
  OBVIOUS
<1> QED
  BY <1>1, <1>2

LEMMA MailsAreForms == \A types \in MailValues : types \in Seq(MailType) /\ types # <<>>
<1>1. \A t \in BoundedSeq(MailType, 2) : t \in Seq(MailType)
  BY BoundedSeqs
<1>2. \A t \in Seq(MailType) : \A types \in PyMailTypes(t) : types = t /\ types # <<>>
  BY MailIsRead DEF PyMailTypes
<1>3. MailValues = UNION {PyMailTypes(t) : t \in BoundedSeq(MailType, 2)}
  BY DEF MailValues
<1> QED
  BY <1>1, <1>2, <1>3

LEMMA KeysAreForms == \A keys \in KeyValues : keys \in Seq(JobKeys) /\ keys # <<>>
<1> DEFINE S == {PlainKey(5), PlainKey(MaxU64), ArrayTask(6, 0), ArrayTask(5, MaxU32)}
           one == {<<k>> : k \in S}
           two == {<<k, l>> : k, l \in S}
<1>1. S \subseteq JobKeys
  <2>1. /\ 5 \in 0..MaxU64 /\ 6 \in 0..MaxU64 /\ MaxU64 \in 0..MaxU64
        /\ 0 \in 0..MaxU32 /\ MaxU32 \in 0..MaxU32
    BY SmallNumbers, TextAssumption
  <2> QED
    BY <2>1 DEF JobKeys
<1>2. KeyValues = one \cup two
  BY DEF KeyValues
<1> HIDE DEF S
<1> DEFINE G == Seq(JobKeys) \ {<<>>}
<1>3. \A k \in S : <<k>> \in G
  BY <1>1, ShortSeqs
<1>4. \A k, l \in S : <<k, l>> \in G
  BY <1>1, ShortSeqs
<1> HIDE DEF G
<1>5. \A x \in one : x \in G
  BY <1>3
<1>6. \A x \in two : x \in G
  BY <1>4
<1> HIDE DEF one, two
<1>7. \A x \in KeyValues : x \in G
  BY <1>2, <1>5, <1>6
<1> QED
  BY <1>7 DEF G

\* The parts that Python may ask for, of which a count may be 0.
PartsForm(parts) ==
    /\ parts = [k \in ResourceKeys |-> parts[k]]
    /\ \A k \in Counts : parts[k] = {} \/ \E n \in 0..MaxU32 : parts[k] = {n}
    /\ parts["m"] = {} \/ \E v \in PyValues("m") : parts["m"] = {v}

LEMMA BuiltResources ==
    ASSUME NEW parts, PartsForm(parts), NEW spec \in PyResourceSpec(parts)
    PROVE  ResourceForm(spec)
<1>1. /\ ResourceKeys = {"p", "t", "c", "m", "g"} /\ CpuKeys = {"p", "t", "c", "m"}
      /\ Counts = {"p", "t", "c", "g"}
      /\ NoResources = [k \in ResourceKeys |-> {}] /\ DOMAIN NoResources = ResourceKeys
  BY DEF ResourceKeys, CpuKeys, Counts, NoResources
<1>2. /\ parts = [k \in ResourceKeys |-> parts[k]] /\ DOMAIN parts = ResourceKeys
      /\ parts["m"] = {} \/ \E v \in PyValues("m") : parts["m"] = {v}
  BY DEF PartsForm
<1>3. \A k \in Counts : parts[k] # {0}
  BY DEF PyResourceSpec
<1>4. ASSUME NEW k \in ResourceKeys
      PROVE  parts[k] = {} \/ \E v \in PyValues(k) : parts[k] = {v}
  <2>1. CASE k = "m"
    BY <1>2, <2>1
  <2>2. CASE k # "m"
    <3>1. k \in Counts /\ PyValues(k) = 1..MaxU32
      BY <1>1, <2>2 DEF PyValues
    <3>2. ASSUME NEW n \in 0..MaxU32, parts[k] = {n} PROVE n \in 1..MaxU32
      BY <1>3, <3>1, <3>2, TextAssumption
    <3>3. parts[k] = {} \/ \E n \in 0..MaxU32 : parts[k] = {n}
      BY <3>1 DEF PartsForm
    <3> QED
      BY <3>1, <3>2, <3>3
  <2> QED
    BY <2>1, <2>2
<1>5. \A k : k \in Given(parts) <=> k \in ResourceKeys /\ parts[k] # {}
  BY <1>2 DEF Given
<1> DEFINE cpu == Given(parts) \cap CpuKeys # {}
<1>6. cpu <=> \E k \in CpuKeys : parts[k] # {}
  BY <1>1, <1>5
<1>7. ~\E k \in Counts : parts[k] = {0}
  BY <1>3
<1>8. \/ ~cpu /\ spec = [NoResources EXCEPT !["g"] = parts["g"]]
      \/ parts["g"] = {} /\ spec = [parts EXCEPT !["g"] = {}]
  BY <1>7 DEF PyResourceSpec
<1> HIDE DEF cpu
<1>9. \A k \in ResourceKeys : k = "g" \/ k \in CpuKeys
  BY <1>1
<1>10. "g" \in ResourceKeys /\ "g" \notin CpuKeys /\ CpuKeys \subseteq ResourceKeys
  BY <1>1
<1>11. spec = [k \in ResourceKeys |-> parts[k]]
  <2>1. CASE ~cpu /\ spec = [NoResources EXCEPT !["g"] = parts["g"]]
    <3>1. \A k \in CpuKeys : parts[k] = {}
      BY <1>6, <2>1
    <3>2. DOMAIN spec = ResourceKeys /\ \A k \in ResourceKeys : spec[k] = parts[k]
      BY <1>1, <1>9, <1>10, <2>1, <3>1
    <3>3. spec = [k \in ResourceKeys |-> spec[k]]
      BY <1>1, <2>1
    <3> QED
      BY <3>2, <3>3
  <2>2. CASE parts["g"] = {} /\ spec = [parts EXCEPT !["g"] = {}]
    <3>1. spec = parts
      BY <1>2, <2>2
    <3> QED
      BY <1>2, <3>1
  <2> QED
    BY <1>8, <2>1, <2>2
<1>12. parts["g"] = {} \/ \A k \in CpuKeys : parts[k] = {}
  BY <1>6, <1>8
<1> QED
  BY <1>2, <1>4, <1>11, <1>12 DEF ResourceForm

\* The parts by their keys.
PartsOf(p, t, m, g) ==
    [k \in DOMAIN NoResources |->
        CASE k = "p" -> p [] k = "t" -> t [] k = "c" -> t [] k = "m" -> m [] k = "g" -> g]

LEMMA ResourcePartsForm == \A parts \in ResourceParts : PartsForm(parts)
<1> DEFINE P == {{}, {0}, {4}}
           T == {{}, {8}}
           M == {{}} \cup {PyMemory(n, u) : n \in {0, 8}, u \in MemoryUnit}
           G == {{}, {0}, {1}}
<1>1. ResourceParts = {PartsOf(p, t, m, g) : p \in P, t \in T, m \in M, g \in G}
  BY DEF ResourceParts, PartsOf
<1>2. /\ ResourceKeys = {"p", "t", "c", "m", "g"} /\ Counts = {"p", "t", "c", "g"}
      /\ DOMAIN NoResources = ResourceKeys
  BY DEF ResourceKeys, CpuKeys, Counts, NoResources
<1> DEFINE Count(x) == x = {} \/ \E n \in 0..MaxU32 : x = {n}
           Mem(x) == x = {} \/ \E v \in PyValues("m") : x = {v}
<1>3. /\ 0 \in 0..MaxU32 /\ 4 \in 0..MaxU32 /\ 8 \in 0..MaxU32 /\ 1 \in 0..MaxU32
      /\ 8 \in 1..MaxU32
  BY SmallNumbers
<1>4. /\ \A x \in P : Count(x)
      /\ \A x \in T : Count(x)
      /\ \A x \in G : Count(x)
  BY <1>3
<1>5. \A x \in M : Mem(x)
  <2>1. ASSUME NEW n \in {0, 8}, NEW u \in MemoryUnit PROVE Mem(PyMemory(n, u))
    <3>1. CASE n = 0
      BY <3>1 DEF PyMemory
    <3>2. CASE n # 0
      <4>1. n = 8 /\ PyMemory(n, u) = {Memory(8, u)}
        BY <3>2 DEF PyMemory
      <4>2. Memory(8, u) \in PyValues("m")
        BY <1>3 DEF PyValues
      <4> QED
        BY <4>1, <4>2
    <3> QED
      BY <3>1, <3>2
  <2> QED
    BY <2>1
<1>6. ASSUME NEW p, NEW t, NEW m, NEW g, Count(p), Count(t), Mem(m), Count(g)
      PROVE  PartsForm(PartsOf(p, t, m, g))
  <2> DEFINE q == PartsOf(p, t, m, g)
  <2>1. /\ q = [k \in ResourceKeys |-> q[k]]
        /\ q["p"] = p /\ q["t"] = t /\ q["c"] = t /\ q["m"] = m /\ q["g"] = g
    BY <1>2 DEF PartsOf
  <2> HIDE DEF q
  <2>2. \A k \in Counts : Count(q[k])
    <3> HIDE DEF Count
    <3> QED
      BY <1>2, <1>6, <2>1
  <2>3. PartsForm(q)
    BY <1>6, <2>1, <2>2 DEF PartsForm
  <2> QED
    BY <2>3 DEF q
<1> HIDE DEF P, T, M, G, Count, Mem
<1> QED
  BY <1>1, <1>4, <1>5, <1>6

LEMMA ResourcesAreForms ==
    ASSUME NEW spec \in UNION {PyResourceSpec(p) : p \in ResourceParts}
    PROVE  ResourceForm(spec)
BY BuiltResources, ResourcePartsForm

-----------------------------------------------------------------------------
(* The constraints that the parsers check. *)

LEMMA ValidIsAccepted ==
    /\ \A spec : Valid("array", spec) <=> SpecAccepted(spec)
    /\ \A d : Valid("dependency", d) <=> DependencyAccepted(d)
    /\ \A spec : Valid("resources", spec) <=> spec # NoResources
    /\ \A k \in Kinds \ {"array", "dependency", "resources"} : \A v : Valid(k, v)
<1>2. \A spec : Valid("array", spec) <=> SpecAccepted(spec)
  BY DEF Valid, SpecAccepted, Accepted, ToSet
<1>3. \A c : ClauseAccepted(c) <=>
                /\ c.dep_type = "singleton" <=> c.job_refs = <<>>
                /\ \A r \in ToSet(c.job_refs) : r.delay_minutes # {} => c.dep_type = "after"
  BY DEF ClauseAccepted, RefAccepted, ToSet
<1>4. \A d : Valid("dependency", d) <=>
                d.clauses # <<>> /\ \A c \in ToSet(d.clauses) : ClauseAccepted(c)
  BY <1>3, Zenon DEF Valid
<1>5. \A d : Valid("dependency", d) <=> DependencyAccepted(d)
  BY <1>4 DEF DependencyAccepted, ToSet
<1>6. \A spec : Valid("resources", spec) <=> spec # NoResources
  BY DEF Valid
<1>7. \A k \in Kinds \ {"array", "dependency", "resources"} : \A v : Valid(k, v)
  BY DEF Valid
<1> QED
  BY <1>2, <1>5, <1>6, <1>7

-----------------------------------------------------------------------------
(* Values of any kind, and texts of any. *)

\* The values of each kind of option that Python may build, of any size.
Form(kind, v) ==
    CASE kind = "array" -> v \in PySpecs
      [] kind = "time" -> v \in 1..MaxU32
      [] kind = "dependency" -> v \in PyDeps
      [] kind = "resources" -> ResourceForm(v)
      [] kind = "signal" -> v \in Signals
      [] kind = "mail" -> v \in Seq(MailType) /\ v # <<>>
      [] kind = "keys" -> v \in Seq(JobKeys) /\ v # <<>>
      [] kind = "template" -> FALSE

LEMMA KindsAre ==
    Kinds = {"array", "time", "dependency", "resources", "signal", "mail", "keys", "template"}
BY DEF Kinds

LEMMA ValuesHaveForm ==
    ASSUME NEW kind \in Kinds, NEW v \in Values(kind)
    PROVE  Form(kind, v)
<1>1. CASE kind = "array"
  <2>1. Values(kind) = ArrayValues
    BY <1>1 DEF Values
  <2> QED
    BY <1>1, <2>1, ArraysAreForms DEF Form
<1>2. CASE kind = "time"
  <2>1. Values(kind) = TimeValues
    BY <1>2 DEF Values
  <2> QED
    BY <1>2, <2>1, ValuesAssumption DEF Form
<1>3. CASE kind = "dependency"
  <2>1. Values(kind) = DependencyValues
    BY <1>3 DEF Values
  <2> QED
    BY <1>3, <2>1, DependenciesAreForms DEF Form
<1>4. CASE kind = "resources"
  <2>1. Values(kind) = UNION {PyResourceSpec(p) : p \in ResourceParts}
    BY <1>4 DEF Values
  <2>2. ResourceForm(v)
    BY <2>1, ResourcesAreForms
  <2> QED
    BY <1>4, <2>2 DEF Form
<1>5. CASE kind = "signal"
  <2>1. Values(kind) = SignalValues
    BY <1>5 DEF Values
  <2> QED
    BY <1>5, <2>1, SignalsAreForms DEF Form
<1>6. CASE kind = "mail"
  <2>1. Values(kind) = MailValues
    BY <1>6 DEF Values
  <2> QED
    BY <1>6, <2>1, MailsAreForms DEF Form
<1>7. CASE kind = "keys"
  <2>1. Values(kind) = KeyValues
    BY <1>7 DEF Values
  <2> QED
    BY <1>7, <2>1, KeysAreForms DEF Form
<1>8. CASE kind = "template"
  <2>1. Values(kind) = {}
    BY <1>8 DEF Values
  <2> QED
    BY <2>1
<1> QED
  BY <1>1, <1>2, <1>3, <1>4, <1>5, <1>6, <1>7, <1>8, KindsAre

\* What is printed of a value that Python may build of an option, whatever its size, is
\* read back in its canonical form, or, if it breaks a constraint of the parser, as nothing
\* (the Display and FromStr of every option, and the lists of job keys).  The canonical form
\* is the value itself, but for a dependency of one clause, which is read as joined by And
\* also if it was built with Or.  A CPU specification that lacks a key, which the docs rule
\* out, breaks no constraint of the parser.
THEOREM FormIsRead ==
    ASSUME NEW kind \in Kinds, NEW v, Form(kind, v)
    PROVE  ParseOf(kind, TextOf(kind, v)) =
               IF Valid(kind, v) THEN {Canonical(kind, v)} ELSE {}
<1>1. CASE kind = "array"
  <2>1. ParseOf(kind, TextOf(kind, v)) = ParseArraySpec(ArrayText(v)) /\ Canonical(kind, v) = v
    BY <1>1 DEF ParseOf, TextOf, Canonical
  <2>2. v \in PySpecs
    BY <1>1 DEF Form
  <2> QED
    BY <1>1, <2>1, <2>2, SpecIsRead, ValidIsAccepted
<1>2. CASE kind = "time"
  <2>1. ParseOf(kind, TextOf(kind, v)) = ParseTimeLimit(TimeText(v)) /\ Canonical(kind, v) = v
    BY <1>2 DEF ParseOf, TextOf, Canonical
  <2>2. v \in 1..MaxU32
    BY <1>2 DEF Form
  <2> QED
    BY <1>2, <2>1, <2>2, LimitIsRead, ValidIsAccepted
<1>3. CASE kind = "dependency"
  <2>1. /\ ParseOf(kind, TextOf(kind, v)) = ParseDependency(DependencyText(v))
        /\ Canonical(kind, v) = CanonicalDependency(v)
    BY <1>3 DEF ParseOf, TextOf, Canonical, CanonicalDependency
  <2>2. v \in PyDeps
    BY <1>3 DEF Form
  <2> QED
    BY <1>3, <2>1, <2>2, DependencyIsRead, ValidIsAccepted
<1>4. CASE kind = "resources"
  <2>1. ParseOf(kind, TextOf(kind, v)) = ParseResourceSpec(ResourceText(v)) /\ Canonical(kind, v) = v
    BY <1>4 DEF ParseOf, TextOf, Canonical
  <2>2. ResourceForm(v)
    BY <1>4 DEF Form
  <2>3. Valid(kind, v) <=> Given(v) # {}
    BY <1>4, <2>2, NothingGivenIsNone, ValidIsAccepted
  <2> QED
    BY <2>1, <2>2, <2>3, ResourcesAreRead
<1>5. CASE kind = "signal"
  <2>1. ParseOf(kind, TextOf(kind, v)) = ParseSignalSpec(SignalText(v)) /\ Canonical(kind, v) = v
    BY <1>5 DEF ParseOf, TextOf, Canonical
  <2>2. v \in Signals
    BY <1>5 DEF Form
  <2> QED
    BY <1>5, <2>1, <2>2, SignalIsRead, ValidIsAccepted
<1>6. CASE kind = "mail"
  <2>1. ParseOf(kind, TextOf(kind, v)) = ParseMailTypes(MailTypesText(v)) /\ Canonical(kind, v) = v
    BY <1>6 DEF ParseOf, TextOf, Canonical
  <2>2. v \in Seq(MailType) /\ v # <<>>
    BY <1>6 DEF Form
  <2> QED
    BY <1>6, <2>1, <2>2, MailIsRead, ValidIsAccepted
<1>7. CASE kind = "keys"
  <2>1. ParseOf(kind, TextOf(kind, v)) = ParseCsv(BuildCsv(v)) /\ Canonical(kind, v) = v
    BY <1>7 DEF ParseOf, TextOf, Canonical
  <2>2. v \in Seq(JobKeys) /\ v # <<>>
    BY <1>7 DEF Form
  <2> QED
    BY <1>7, <2>1, <2>2, BuiltIsRead, ValidIsAccepted
<1>8. CASE kind = "template"
  BY <1>8 DEF Form
<1> QED
  BY <1>1, <1>2, <1>3, <1>4, <1>5, <1>6, <1>7, <1>8, KindsAre

\* What a parser of the options reads of any sequence of lexemes is a value that Python
\* could build, in its canonical form, and one that is read again.  (The docs ask more of a
\* CPU specification than its parser does: p=4 alone is read.)
THEOREM ReadHasForm ==
    ASSUME NEW kind \in Kinds, NEW T, NEW t \in Seq(T), NEW v \in ParseOf(kind, t)
    PROVE  Form(kind, v) /\ Valid(kind, v) /\ Canonical(kind, v) = v
<1>1. CASE kind = "array"
  <2>1. v \in ParseArraySpec(t) /\ Canonical(kind, v) = v
    BY <1>1 DEF ParseOf, Canonical
  <2>2. v \in PySpecs /\ SpecAccepted(v)
    BY <2>1, SpecIsForm
  <2> QED
    BY <1>1, <2>1, <2>2, ValidIsAccepted DEF Form
<1>2. CASE kind = "time"
  <2>1. v \in ParseTimeLimit(t) /\ Canonical(kind, v) = v
    BY <1>2 DEF ParseOf, Canonical
  <2>2. v \in 1..MaxU32
    BY <2>1, LimitIsForm
  <2> QED
    BY <1>2, <2>1, <2>2, ValidIsAccepted DEF Form
<1>3. CASE kind = "dependency"
  <2>1. v \in ParseDependency(t) /\ Canonical(kind, v) = CanonicalDependency(v)
    BY <1>3 DEF ParseOf, Canonical, CanonicalDependency
  <2>2. v \in PyDeps /\ DependencyAccepted(v) /\ CanonicalDependency(v) = v
    BY <2>1, DependencyIsForm
  <2> QED
    BY <1>3, <2>1, <2>2, ValidIsAccepted DEF Form
<1>4. CASE kind = "resources"
  <2>1. v \in ParseResourceSpec(t) /\ Canonical(kind, v) = v
    BY <1>4 DEF ParseOf, Canonical
  <2>2. ResourceForm(v) /\ Given(v) # {}
    BY <2>1, ResourcesAreForm
  <2>3. Valid(kind, v)
    BY <1>4, <2>2, NothingGivenIsNone, ValidIsAccepted
  <2> QED
    BY <1>4, <2>1, <2>2, <2>3 DEF Form
<1>5. CASE kind = "signal"
  <2>1. v \in ParseSignalSpec(t) /\ Canonical(kind, v) = v
    BY <1>5 DEF ParseOf, Canonical
  <2>2. v \in Signals
    BY <2>1, SignalIsForm
  <2> QED
    BY <1>5, <2>1, <2>2, ValidIsAccepted DEF Form
<1>6. CASE kind = "mail"
  <2>1. v \in ParseMailTypes(t) /\ Canonical(kind, v) = v
    BY <1>6 DEF ParseOf, Canonical
  <2>2. v \in Seq(MailType) /\ v # <<>>
    BY <2>1, MailIsForm
  <2> QED
    BY <1>6, <2>1, <2>2, ValidIsAccepted DEF Form
<1>7. CASE kind = "keys"
  <2>1. v \in ParseCsv(t) /\ Canonical(kind, v) = v
    BY <1>7 DEF ParseOf, Canonical
  <2>2. v \in Seq(JobKeys) /\ v # <<>>
    BY <2>1, ParsedCsv, Zenon
  <2> QED
    BY <1>7, <2>1, <2>2, ValidIsAccepted DEF Form
<1>8. CASE kind = "template"
  <2>1. ParseOf(kind, t) = {}
    BY <1>8 DEF ParseOf
  <2> QED
    BY <2>1
<1> QED
  BY <1>1, <1>2, <1>3, <1>4, <1>5, <1>6, <1>7, <1>8, KindsAre

-----------------------------------------------------------------------------
(* Values built anew in Python. *)

\* An entry, of what Python reads off it.
BuiltAgain(w) ==
    CASE w.kind = "single" -> {Single(i) : i \in w.value}
      [] w.kind = "range" -> {Interval(a, b) : a \in w.start, b \in w.end}
      [] w.kind = "stepped" -> {Stepped(a, b, s) : a \in w.start, b \in w.end, s \in w.step}

LEMMA IntervalsOf ==
    ASSUME NEW a, NEW b
    PROVE  {Interval(x, y) : x \in {a}, y \in {b}} = {Interval(a, b)}
OBVIOUS

LEMMA SteppedOf ==
    ASSUME NEW a, NEW b, NEW s
    PROVE  {Stepped(x, y, z) : x \in {a}, y \in {b}, z \in {s}} = {Stepped(a, b, s)}
OBVIOUS

LEMMA EntryIsRebuilt ==
    ASSUME NEW e \in PyForms
    PROVE  BuiltAgain(PyEntryView(e)) = {e}
<1>1. ASSUME NEW i, e = Single(i) PROVE BuiltAgain(PyEntryView(e)) = {e}
  <2> DEFINE w == PyEntryView(e)
  <2>1. w.kind = "single" /\ w.value = {i}
    BY <1>1 DEF PyEntryView, Single
  <2> HIDE DEF w
  <2>2. BuiltAgain(w) = {Single(x) : x \in w.value}
    BY <2>1 DEF BuiltAgain
  <2>3. BuiltAgain(w) = {Single(i)}
    BY <2>1, <2>2
  <2> QED
    BY <1>1, <2>3 DEF w
<1>2. ASSUME NEW a, NEW b, e = Interval(a, b) PROVE BuiltAgain(PyEntryView(e)) = {e}
  <2> DEFINE w == PyEntryView(e)
  <2>1. w.kind = "range" /\ w.start = {a} /\ w.end = {b}
    BY <1>2 DEF PyEntryView, Interval
  <2> HIDE DEF w
  <2>2. BuiltAgain(w) = {Interval(x, y) : x \in w.start, y \in w.end}
    BY <2>1 DEF BuiltAgain
  <2>3. BuiltAgain(w) = {Interval(a, b)}
    BY <2>1, <2>2, IntervalsOf
  <2> QED
    BY <1>2, <2>3 DEF w
<1>3. ASSUME NEW a, NEW b, NEW s, e = Stepped(a, b, s) PROVE BuiltAgain(PyEntryView(e)) = {e}
  <2> DEFINE w == PyEntryView(e)
  <2>1. w.kind = "stepped" /\ w.start = {a} /\ w.end = {b} /\ w.step = {s}
    BY <1>3 DEF PyEntryView, Stepped
  <2> HIDE DEF w
  <2>2. BuiltAgain(w) = {Stepped(x, y, z) : x \in w.start, y \in w.end, z \in w.step}
    BY <2>1 DEF BuiltAgain
  <2>3. BuiltAgain(w) = {Stepped(a, b, s)}
    BY <2>1, <2>2, SteppedOf
  <2> QED
    BY <1>3, <2>3 DEF w
<1> DEFINE T == 0..MaxU32
<1>4. \/ \E i \in T : e = Single(i)
      \/ \E a \in T, b \in T : e = Interval(a, b)
      \/ \E a \in T, b \in T, s \in T : e = Stepped(a, b, s)
  <2> HIDE DEF T
  <2>1. PyForms = {Single(i) : i \in T} \cup {Interval(a, b) : a \in T, b \in T}
                    \cup {Stepped(a, b, s) : a \in T, b \in T, s \in T}
    BY DEF PyForms, T
  <2> QED
    BY <2>1
<1> HIDE DEF T
<1> QED
  BY <1>1, <1>2, <1>3, <1>4

LEMMA ArraysAreRebuilt ==
    ASSUME NEW spec \in PySpecs
    PROVE  PyRebuilt("array", spec) = {{spec}}
<1> DEFINE entries == spec.indices
           cap == spec.max_concurrent
           options == [i \in DOMAIN entries |-> BuiltAgain(PyEntryView(entries[i]))]
<1>1. PyRebuilt("array", spec) = {[indices : Collect(options), max_concurrent : {cap}]}
  BY DEF PyRebuilt, BuiltAgain
<1>2. entries \in Seq(PyForms) /\ spec = [indices |-> entries, max_concurrent |-> cap]
  BY DEF PySpecs
<1>3. DOMAIN entries = 1..Len(entries) /\ \A i \in 1..Len(entries) : entries[i] \in PyForms
  BY <1>2, LenProperties, ElementOfSeq
<1>4. DOMAIN options = 1..Len(entries) /\ \A i \in 1..Len(entries) : options[i] = {entries[i]}
  BY <1>3, EntryIsRebuilt
<1> HIDE DEF entries, cap, options
<1>5. Collect(options) = {entries}
  BY <1>2, <1>4, CollectReads
<1>6. [indices : Collect(options), max_concurrent : {cap}] = {spec}
  BY <1>2, <1>5, OneSpec, ZenonT(30)
<1> QED
  BY <1>1, <1>6

LEMMA ResourcesBuiltAnew ==
    ASSUME NEW spec, ResourceForm(spec)
    PROVE  PyRebuilt("resources", spec) = {{spec}}
<1> DEFINE parts == {OfCpu(c) : c \in PyCpuSpec(spec)} \cup {OfGpu(g) : g \in UNION {PyGpu(n) : n \in PyGpuSpec(spec)}}
           cpu(p, t, c, m) == {OfCpu(x) : x \in PyCpu(p, t, c, m)}
           four == {cpu(p, t, c, m) : p \in spec["p"], t \in spec["t"], c \in spec["c"], m \in spec["m"]}
<1>1. PyRebuilt("resources", spec) = {PyResourceSpec(spec), FromParts(spec), parts} \cup four
  BY DEF PyRebuilt
<1>2. PyResourceSpec(spec) = {spec} /\ FromParts(spec) = {spec} /\ parts = {spec}
  BY ResourcesAreRebuilt
<1>3. \A p \in spec["p"], t \in spec["t"], c \in spec["c"], m \in spec["m"] : cpu(p, t, c, m) = {spec}
  BY ResourcesAreRebuilt
<1> HIDE DEF parts, cpu
<1>4. \A x \in four : x = {spec}
  BY <1>3
<1> HIDE DEF four
<1> QED
  BY <1>1, <1>2, <1>4

LEMMA LimitIsRebuilt ==
    ASSUME NEW s \in 1..MaxU32
    PROVE  PyTimeLimit(s) = {s} /\ FromTimeDelta(ToTimeDelta(s) + 999) = {s}
<1>1. s \in Nat /\ s # 0
  BY TextAssumption
<1>2. ToTimeDelta(s) = s * 1000
  BY DEF ToTimeDelta
<1>3. (s * 1000 + 999) \div 1000 = s
  BY <1>1
<1>4. FromTimeDelta(ToTimeDelta(s) + 999) = Limit(s)
  BY <1>2, <1>3 DEF FromTimeDelta
<1>5. Limit(s) = {s}
  BY DEF Limit
<1> QED
  BY <1>1, <1>4, <1>5 DEF PyTimeLimit

-----------------------------------------------------------------------------
(* Configurations. *)

ConfigForm(config) ==
    /\ config = [f \in ConfigFields |-> config[f]]
    /\ \A f \in ConfigFields : config[f] = {} \/ \E v \in FieldValues(f) : config[f] = {v}

ConfigInv ==
    /\ "part" \in DOMAIN input
    /\ input.part = "config" => "config" \in DOMAIN input /\ ConfigForm(input.config)

LEMMA FirstConfig == ConfigForm(PyConfig("gr1", [nice |-> {3}]))
<1> DEFINE given == [nice |-> {3}]
           config == PyConfig("gr1", given)
<1>1. DOMAIN given = {"nice"} /\ given["nice"] = {3}
  OBVIOUS
<1> HIDE DEF given
<1>2. config = [f \in ConfigFields |-> config[f]]
  BY DEF PyConfig
<1>3. /\ config["partition"] = {"gr1"} /\ config["nice"] = {3}
      /\ \A f \in ConfigFields \ {"partition", "nice"} : config[f] = {}
  BY <1>1 DEF PyConfig, ConfigFields
<1>4. "gr1" \in FieldValues("partition") /\ 3 \in FieldValues("nice")
  BY DEF FieldValues
<1> HIDE DEF config
<1>5. ConfigForm(config)
  BY <1>2, <1>3, <1>4 DEF ConfigForm
<1> QED
  BY <1>5 DEF config, given

LEMMA SetKeepsForm ==
    ASSUME NEW config, ConfigForm(config), NEW f \in ConfigFields, NEW option,
           option = {} \/ \E v \in FieldValues(f) : option = {v}
    PROVE  ConfigForm(PySet(config, f, option))
<1>1. CASE PySet(config, f, option) = config
  BY <1>1
<1>2. CASE PySet(config, f, option) = [config EXCEPT ![f] = option]
  <2> DEFINE after == [config EXCEPT ![f] = option]
  <2>1. DOMAIN config = ConfigFields
    BY DEF ConfigForm
  <2>2. /\ after = [g \in ConfigFields |-> after[g]] /\ after[f] = option
        /\ \A g \in ConfigFields \ {f} : after[g] = config[g]
    BY <2>1
  <2> HIDE DEF after
  <2>3. ASSUME NEW g \in ConfigFields
        PROVE  after[g] = {} \/ \E v \in FieldValues(g) : after[g] = {v}
    <3>1. CASE g = f
      BY <2>2, <3>1
    <3>2. CASE g # f
      BY <2>2, <3>2 DEF ConfigForm
    <3> QED
      BY <3>1, <3>2
  <2>4. ConfigForm(after)
    BY <2>2, <2>3 DEF ConfigForm
  <2> QED
    BY <1>2, <2>4 DEF after
<1> QED
  BY <1>1, <1>2 DEF PySet

LEMMA ConfigInvInit == Init => ConfigInv
<1>1. ASSUME input = [part |-> "config", config |-> PyConfig("gr1", [nice |-> {3}])]
      PROVE  "config" \in DOMAIN input /\ ConfigForm(input.config)
  BY <1>1, FirstConfig
<1> QED
  BY <1>1, PartsOfInit DEF ConfigInv, InitParts

\* Every step but Configure is one on an input of another kind.
LEMMA ConfigStays ==
    ASSUME "part" \in DOMAIN input,
           Type \/ StoreSaves \/ StoreDeletes \/ SinkSteps \/ LogSteps
    PROVE  input'.part # "config" /\ "part" \in DOMAIN input'
<1>1. CASE Type
  BY <1>1, Zenon DEF Type
<1>2. CASE StoreSaves
  BY <1>2, Zenon DEF StoreSaves
<1>3. CASE StoreDeletes
  BY <1>3, Zenon DEF StoreDeletes
<1>4. CASE SinkSteps
  BY <1>4 DEF SinkSteps
<1>5. CASE LogIsRead
  BY <1>5 DEF LogIsRead, BeingRead
<1>6. CASE LogGrows
  BY <1>6 DEF LogGrows, BeingRead
<1>7. CASE LogIsCut
  BY <1>7 DEF LogIsCut, BeingRead
<1> QED
  BY <1>1, <1>2, <1>3, <1>4, <1>5, <1>6, <1>7 DEF LogSteps

LEMMA ConfigInvNext == ConfigInv /\ [Next]_input => ConfigInv'
<1> SUFFICES ASSUME ConfigInv, [Next]_input
             PROVE  ConfigInv'
  OBVIOUS
<1>1. CASE Type \/ StoreSaves \/ StoreDeletes \/ SinkSteps \/ LogSteps
  BY <1>1, ConfigStays DEF ConfigInv
<1>2. CASE Configure
  <2>1. /\ input.part = "config" /\ {"part", "config"} \subseteq DOMAIN input
        /\ ConfigForm(input.config)
    BY <1>2 DEF Configure, ConfigInv
  <2>2. DOMAIN input.config = ConfigFields
    BY <2>1 DEF ConfigForm
  <2>3. PICK f, option :
            /\ f \in ConfigFields
            /\ option = {} \/ \E v \in FieldValues(f) : option = {v}
            /\ input' = [input EXCEPT !.config = PySet(@, f, option)]
    <3>1. PICK f \in ConfigFields :
              \/ input' = [input EXCEPT !.config = PySet(@, f, {})]
              \/ \E v \in FieldValues(f) : input' = [input EXCEPT !.config = PySet(@, f, {v})]
      BY <1>2, <2>2 DEF Configure
    <3> QED
      BY <3>1
  <2>4. /\ DOMAIN input' = DOMAIN input /\ input'.part = input.part
        /\ input'.config = PySet(input.config, f, option)
    BY <2>1, <2>3
  <2>5. ConfigForm(PySet(input.config, f, option))
    BY <2>1, <2>3, SetKeepsForm
  <2> QED
    BY <2>1, <2>4, <2>5 DEF ConfigInv
<1>3. CASE UNCHANGED input
  BY <1>3 DEF ConfigInv
<1> QED
  BY <1>1, <1>2, <1>3 DEF Next, LogSteps

\* A field with a textual form is read back, unless it is a resource spec without any.
LEMMA FieldIsRead ==
    ASSUME NEW f \in TextFields, NEW v \in FieldValues(f)
    PROVE  ParseField(f, FieldText(f, v)) =
               IF f = "resource_spec" /\ v = NoResources THEN {} ELSE {v}
<1>1. CASE f = "time_limit"
  <2>1. ParseField(f, FieldText(f, v)) = ParseTimeLimit(TimeText(v))
    BY <1>1 DEF ParseField, FieldText
  <2>2. v \in 1..MaxU32
    <3>1. FieldValues(f) = {90061}
      BY <1>1 DEF FieldValues
    <3>2. 90061 \in 1..MaxU32
      BY SmallNumbers
    <3> QED
      BY <3>1, <3>2
  <2> QED
    BY <1>1, <2>1, <2>2, LimitIsRead
<1>2. CASE f = "array_spec"
  <2>1. /\ v = [indices |-> <<Stepped(0, 7, 2)>>, max_concurrent |-> {2}]
        /\ ParseField(f, FieldText(f, v)) = ParseArraySpec(ArrayText(v))
    BY <1>2 DEF FieldValues, ParseField, FieldText
  <2>2. 0 \in 0..MaxU32 /\ 7 \in 0..MaxU32 /\ 2 \in 0..MaxU32
    BY SmallNumbers
  <2> DEFINE e == Stepped(0, 7, 2)
             s == <<e>>
  <2>3. e \in PyForms /\ Accepted(e)
    BY <2>2, FormsOfPython DEF Accepted, Stepped
  <2> HIDE DEF e
  <2>4. s \in Seq(PyForms) /\ s # <<>> /\ \A i \in DOMAIN s : s[i] = e
    BY <2>3
  <2>5. v = [indices |-> s, max_concurrent |-> {2}]
    BY <2>1 DEF e
  <2> HIDE DEF s
  <2>6. v \in PySpecs
    BY <2>2, <2>4, <2>5 DEF PySpecs
  <2>7. SpecAccepted(v)
    BY <2>3, <2>4, <2>5 DEF SpecAccepted
  <2> QED
    BY <1>2, <2>1, <2>6, <2>7, SpecIsRead
<1>3. CASE f = "dependency"
  <2> DEFINE r == JobRef(7, {})
             refs == <<r>>
             c == [dep_type |-> "afterok", job_refs |-> refs]
             clauses == <<c>>
  <2>1. /\ v = [clauses |-> clauses, join |-> "And"]
        /\ ParseField(f, FieldText(f, v)) = ParseDependency(DependencyText(v))
    BY <1>3 DEF FieldValues, ParseField, FieldText, PyDependency
  <2>2. r \in PyRefs /\ r.delay_minutes = {}
    <3>1. 7 \in 0..MaxU32
      BY SmallNumbers
    <3> QED
      BY <3>1 DEF PyRefs, JobRef
  <2> HIDE DEF r
  <2>3. refs \in Seq(PyRefs) /\ refs # <<>> /\ \A i \in DOMAIN refs : refs[i] = r
    BY <2>2
  <2> HIDE DEF refs
  <2>4. c \in PyClauseForms
    BY <2>3 DEF PyClauseForms, DependencyType
  <2>5. ClauseAccepted(c)
    BY <2>2, <2>3 DEF ClauseAccepted, RefAccepted
  <2> HIDE DEF c
  <2>6. /\ clauses \in Seq(PyClauseForms) /\ clauses # <<>>
        /\ \A i \in DOMAIN clauses : clauses[i] = c
    BY <2>4
  <2> HIDE DEF clauses
  <2>7. v \in PyDeps
    BY <2>1, <2>6 DEF PyDeps
  <2>8. DependencyAccepted(v)
    BY <2>1, <2>5, <2>6 DEF DependencyAccepted
  <2>9. CanonicalDependency(v) = v
    BY <2>1 DEF CanonicalDependency
  <2> QED
    BY <1>3, <2>1, <2>7, <2>8, <2>9, DependencyIsRead
<1>4. CASE f = "resource_spec"
  <2>1. /\ v \in UNION {PyResourceSpec(p) : p \in ResourceParts}
        /\ ParseField(f, FieldText(f, v)) = ParseResourceSpec(ResourceText(v))
    BY <1>4 DEF FieldValues, ParseField, FieldText
  <2>2. ResourceForm(v)
    BY <2>1, ResourcesAreForms
  <2> QED
    BY <1>4, <2>1, <2>2, ResourcesAreRead, NothingGivenIsNone
<1> QED
  BY <1>1, <1>2, <1>3, <1>4 DEF TextFields

\* What is read of each field of a configuration that is written as JSON.
ReadField(json, f) ==
    IF f \in TextFields THEN UNION {ParseField(f, t) : t \in json[f]} ELSE json[f]

LEMMA ConfigIsRead ==
    ASSUME NEW config, ConfigForm(config)
    PROVE  ConfigFromJson(ConfigToJson(config)) =
               IF config["resource_spec"] = {NoResources} THEN {} ELSE {config}
<1> DEFINE json == ConfigToJson(config)
<1>1. config = [f \in ConfigFields |-> config[f]] /\ DOMAIN config = ConfigFields
  BY DEF ConfigForm
<1>2. /\ DOMAIN json = ConfigFields
      /\ \A f \in ConfigFields :
            json[f] = IF f \in TextFields THEN {FieldText(f, v) : v \in config[f]} ELSE config[f]
  BY <1>1 DEF ConfigToJson
<1> HIDE DEF json
<1>3. ConfigFromJson(json) =
          IF \E f \in ConfigFields : json[f] # {} /\ ReadField(json, f) = {} THEN {}
          ELSE {[f \in ConfigFields |-> ReadField(json, f)]}
  BY <1>2 DEF ConfigFromJson, ReadField
<1>4. "resource_spec" \in ConfigFields /\ "resource_spec" \in TextFields
  BY DEF ConfigFields, TextFields
<1>5. ASSUME NEW f \in ConfigFields
      PROVE  /\ json[f] = {} <=> config[f] = {}
             /\ ReadField(json, f) = IF f = "resource_spec" /\ config[f] = {NoResources} THEN {}
                                     ELSE config[f]
  <2>1. CASE f \notin TextFields
    BY <1>2, <1>4, <2>1 DEF ReadField
  <2>2. CASE f \in TextFields /\ config[f] = {}
    <3>1. json[f] = {}
      BY <1>2, <2>2
    <3> QED
      BY <2>2, <3>1 DEF ReadField
  <2>3. CASE f \in TextFields /\ config[f] # {}
    <3>1. PICK v \in FieldValues(f) : config[f] = {v}
      BY <2>3 DEF ConfigForm
    <3>2. json[f] = {FieldText(f, v)}
      BY <1>2, <2>3, <3>1
    <3>3. ReadField(json, f) = ParseField(f, FieldText(f, v))
      BY <2>3, <3>2 DEF ReadField
    <3>4. config[f] = {NoResources} <=> v = NoResources
      BY <3>1
    <3> QED
      BY <2>3, <3>1, <3>2, <3>3, <3>4, FieldIsRead
  <2> QED
    BY <2>1, <2>2, <2>3
<1>6. CASE config["resource_spec"] = {NoResources}
  <2>1. json["resource_spec"] # {} /\ ReadField(json, "resource_spec") = {}
    BY <1>4, <1>5, <1>6
  <2> QED
    BY <1>3, <1>4, <1>6, <2>1 DEF json
<1>7. CASE config["resource_spec"] # {NoResources}
  <2>1. \A f \in ConfigFields : ReadField(json, f) = config[f]
    BY <1>5, <1>7
  <2>2. ~\E f \in ConfigFields : json[f] # {} /\ ReadField(json, f) = {}
    BY <1>5, <2>1
  <2>3. [f \in ConfigFields |-> ReadField(json, f)] = [f \in ConfigFields |-> config[f]]
    BY <2>1
  <2> QED
    BY <1>1, <1>3, <1>7, <2>2, <2>3 DEF json
<1> QED
  BY <1>6, <1>7

\* The value of an option that is printed is read back as itself, but for the join of a
\* dependency of one clause, or, if it breaks a constraint of the parser, as nothing; what
\* is read of a text that is typed is printed and read again as it is; values that are
\* built anew in Python of their parts are the same; and a configuration comes back from
\* JSON as it was, or, if its resource spec names no resource, not at all.
THEOREM OptionsAreKept == Spec => []OptionsSurvive
<1>1. ASSUME ValuesInv, ConfigInv
      PROVE  OptionsSurvive
  <2>1. ASSUME input.part = "value"
        PROVE  ParseOf(input.kind, TextOf(input.kind, input.value)) =
                 IF Valid(input.kind, input.value) THEN {Canonical(input.kind, input.value)} ELSE {}
    <3>1. input.kind \in Kinds /\ Form(input.kind, input.value)
      BY <1>1, <2>1, ValuesHaveForm DEF ValuesInv
    <3> QED
      BY <3>1, FormIsRead
  <2>2. ASSUME input.part = "value", input.kind = "time"
        PROVE  /\ PyTimeLimit(input.value) = {input.value}
               /\ FromTimeDelta(ToTimeDelta(input.value) + 999) = {input.value}
    <3>1. input.value \in 1..MaxU32
      BY <1>1, <2>2, ValuesHaveForm DEF ValuesInv, Form
    <3> QED
      BY <3>1, LimitIsRebuilt
  <2>3. ASSUME input.part = "value", input.kind \in {"array", "resources"}
        PROVE  PyRebuilt(input.kind, input.value) = {{input.value}}
    <3>1. Form(input.kind, input.value)
      BY <1>1, <2>3, ValuesHaveForm DEF ValuesInv
    <3>2. CASE input.kind = "array"
      BY <3>1, <3>2, ArraysAreRebuilt DEF Form
    <3>3. CASE input.kind = "resources"
      BY <3>1, <3>3, ResourcesBuiltAnew DEF Form
    <3> QED
      BY <2>3, <3>2, <3>3
  <2>4. ASSUME input.part = "text", NEW v \in ParseOf(input.kind, input.text)
        PROVE  Valid(input.kind, v) /\ ParseOf(input.kind, TextOf(input.kind, v)) = {v}
    <3>1. input.kind \in Kinds /\ input.text \in Seq(Lexemes(input.kind))
      BY <1>1, <2>4 DEF ValuesInv
    <3>2. Form(input.kind, v) /\ Valid(input.kind, v) /\ Canonical(input.kind, v) = v
      BY <2>4, <3>1, ReadHasForm
    <3> QED
      BY <3>1, <3>2, FormIsRead
  <2>5. ASSUME input.part = "config"
        PROVE  ConfigFromJson(ConfigToJson(input.config)) =
                 IF input.config.resource_spec = {NoResources} THEN {} ELSE {input.config}
    BY <1>1, <2>5, ConfigIsRead DEF ConfigInv
  <2> QED
    BY <2>1, <2>2, <2>3, <2>4, <2>5 DEF OptionsSurvive
<1>2. ValuesInv /\ ConfigInv => OptionsSurvive
  BY <1>1
<1> QED
  BY <1>2, ValuesInvInit, ValuesInvNext, ConfigInvInit, ConfigInvNext, PTL DEF Spec

-----------------------------------------------------------------------------
(* Where the logs of jobs are. *)

\* What has been put in makes no token of the letters to come.
Puts(T, meaning, later) ==
    /\ MayPut(T, meaning) /\ later \subseteq T /\ Sign("%") \notin later
    /\ DOMAIN meaning \cap later = {} /\ \A d \in DOMAIN meaning : meaning[d][1] \notin later

LEMMA PutsOne ==
    ASSUME NEW T, NEW later, later \subseteq T, Sign("%") \notin later, NEW c \in T, c \notin later,
           c # Sign("%"), NEW v \in Seq(T), v # <<>>, Sign("%") \notin ToSet(v), v[1] \notin later
    PROVE  Puts(T, Only(c, v), later)
BY DEF Puts, MayPut, Means, Only

LEMMA PutsMore ==
    ASSUME NEW T, NEW later, NEW meaning, Puts(T, meaning, later), NEW c \in later,
           NEW v \in Seq(T), v # <<>>, Sign("%") \notin ToSet(v), v[1] \notin later \ {c}
    PROVE  Puts(T, WithToken(meaning, c, v), later \ {c})
<1> DEFINE m == WithToken(meaning, c, v)
<1>1. /\ DOMAIN m = DOMAIN meaning \cup {c} /\ c \notin DOMAIN meaning /\ m[c] = v
      /\ \A d \in DOMAIN meaning : m[d] = meaning[d]
  BY DEF WithToken, Puts
<1> HIDE DEF m
<1>2. Means(T, m) /\ DOMAIN m \subseteq T
  BY <1>1 DEF Puts, MayPut, Means
<1>3. \A d \in DOMAIN m : m[d] # <<>> /\ Sign("%") \notin ToSet(m[d]) /\ m[d][1] \notin later \ {c}
  BY <1>1 DEF Puts, MayPut
<1> QED
  BY <1>1, <1>2, <1>3 DEF Puts, MayPut, m

LEMMA PutsFewer ==
    ASSUME NEW T, NEW later, NEW meaning, Puts(T, meaning, later), NEW c
    PROVE  Puts(T, meaning, later \ {c})
BY DEF Puts

LEMMA PutsNext ==
    ASSUME NEW T, Sign("%") \in T, NEW t \in Seq(T), NEW later, NEW meaning,
           Puts(T, meaning, later), NEW w, Sign(w) \in later, NEW v \in Seq(T)
    PROVE  Replace(Substitute(t, meaning), w, v) = Substitute(t, WithToken(meaning, Sign(w), v))
<1> DEFINE c == Sign(w)
<1>1. /\ MayPut(T, meaning) /\ c \in T /\ c # Sign("%") /\ c \notin DOMAIN meaning
      /\ \A d \in DOMAIN meaning : meaning[d][1] # c
  BY DEF Puts
<1> HIDE DEF c
<1>2. Substitute(Substitute(t, meaning), Only(c, v)) = Substitute(t, WithToken(meaning, c, v))
  BY <1>1, SubstituteTwice
<1> QED
  BY <1>2 DEF Replace, Only, c

\* A text that is put in for the first of some letters.
MayStandFor(T, v, later) == v \in Seq(T) /\ v # <<>> /\ Sign("%") \notin ToSet(v) /\ v[1] \notin later

LettersOf(S) == {Sign(w) : w \in S}
TokenLetters == {"A", "j", "a", "x", "u", "N"}

LEMMA LettersDiffer ==
    /\ \A v, w \in TokenLetters \cup {"%"} : Sign(v) = Sign(w) => v = w
    /\ \A n \in Nat : \A w \in TokenLetters \cup {"%"} : Number(n) # Sign(w)
BY DEF TokenLetters, Sign, Number

LEMMA NumbersMayStand ==
    ASSUME NEW T, NEW n \in Nat, Number(n) \in T, NEW S \in SUBSET TokenLetters
    PROVE  MayStandFor(T, Dec(n), LettersOf(S))
<1>1. Dec(n) \in Seq(T) /\ ToSet(Dec(n)) = {Number(n)} /\ Dec(n) # <<>> /\ Dec(n)[1] = Number(n)
  BY OneLexeme DEF Dec
<1> QED
  BY <1>1, LettersDiffer DEF MayStandFor, LettersOf

\* The tokens one after the other are the tokens all at once.
TokensArePut(template, jobid, task, name, user, host) ==
    ResolveLogPath(template, jobid, task, name, user, host) =
        Substitute(template, Meaning(jobid, task, name, user, host))

IfMeant(option, meaning, c, v) == IF option = {} THEN meaning ELSE WithToken(meaning, c, v)

LEMMA PutIfKnown ==
    ASSUME NEW T, Sign("%") \in T, NEW t \in Seq(T), NEW S \in SUBSET TokenLetters,
           NEW meaning, Puts(T, meaning, LettersOf(S)),
           NEW w \in S, NEW option, NEW v, option \in {{}, {v}}, MayStandFor(T, v, LettersOf(S \ {w}))
    PROVE  /\ ReplaceIfKnown(Substitute(t, meaning), w, option) =
                  Substitute(t, IfMeant(option, meaning, Sign(w), v))
           /\ Puts(T, IfMeant(option, meaning, Sign(w), v), LettersOf(S \ {w}))
<1>1. LettersOf(S \ {w}) = LettersOf(S) \ {Sign(w)} /\ Sign(w) \in LettersOf(S)
  BY LettersDiffer DEF LettersOf
<1>2. v \in Seq(T) /\ v # <<>> /\ Sign("%") \notin ToSet(v) /\ v[1] \notin LettersOf(S) \ {Sign(w)}
  BY <1>1 DEF MayStandFor
<1>3. CASE option = {}
  <2>1. ReplaceIfKnown(Substitute(t, meaning), w, option) = Substitute(t, meaning)
    BY <1>3 DEF ReplaceIfKnown
  <2>2. Puts(T, meaning, LettersOf(S) \ {Sign(w)})
    BY PutsFewer
  <2> QED
    BY <1>1, <1>3, <2>1, <2>2 DEF IfMeant
<1>4. CASE option # {}
  <2>1. (CHOOSE x \in option : TRUE) = v
    BY <1>4
  <2>2. ReplaceIfKnown(Substitute(t, meaning), w, option) = Replace(Substitute(t, meaning), w, v)
    BY <1>4, <2>1 DEF ReplaceIfKnown
  <2>3. Replace(Substitute(t, meaning), w, v) = Substitute(t, WithToken(meaning, Sign(w), v))
    BY <1>1, <1>2, PutsNext
  <2>4. Puts(T, WithToken(meaning, Sign(w), v), LettersOf(S) \ {Sign(w)})
    BY <1>1, <1>2, PutsMore
  <2> QED
    BY <1>1, <1>4, <2>2, <2>3, <2>4 DEF IfMeant
<1> QED
  BY <1>3, <1>4

LEMMA MeaningIs ==
    ASSUME NEW jobid, NEW task, NEW i, task \in {{}, {i}}, NEW name, NEW n, name \in {{}, {n}},
           NEW user, NEW host
    PROVE  LET m1 == WithToken(Only(Sign("A"), Dec(jobid)), Sign("j"), Dec(jobid))
               m2 == IfMeant(task, m1, Sign("a"), Dec(i))
               m3 == IfMeant(name, m2, Sign("x"), n)
           IN  WithToken(WithToken(m3, Sign("u"), user), Sign("N"), host) = Meaning(jobid, task, name, user, host)
<1> DEFINE m1 == WithToken(Only(Sign("A"), Dec(jobid)), Sign("j"), Dec(jobid))
           m2 == IfMeant(task, m1, Sign("a"), Dec(i))
           m3 == IfMeant(name, m2, Sign("x"), n)
           m5 == WithToken(WithToken(m3, Sign("u"), user), Sign("N"), host)
           known == {"A", "j", "u", "N"} \cup (IF task = {} THEN {} ELSE {"a"})
                                         \cup (IF name = {} THEN {} ELSE {"x"})
           all == Meaning(jobid, task, name, user, host)
<1> SUFFICES m5 = all
  OBVIOUS
<1>1. \A v, w : Sign(v) = Sign(w) => v = w
  BY DEF Sign
<1>2. \A v : Sign(v).is = v
  BY DEF Sign
<1>3. known \subseteq TokenLetters /\ known \in SUBSET TokenLetters
  BY DEF TokenLetters
<1>4. /\ DOMAIN m1 = {Sign("A"), Sign("j")} /\ m1[Sign("A")] = Dec(jobid) /\ m1[Sign("j")] = Dec(jobid)
  BY <1>1 DEF WithToken, Only
<1> HIDE DEF m1
<1>5. /\ DOMAIN m2 = {Sign("A"), Sign("j")} \cup (IF task = {} THEN {} ELSE {Sign("a")})
      /\ m2[Sign("A")] = Dec(jobid) /\ m2[Sign("j")] = Dec(jobid)
      /\ task # {} => m2[Sign("a")] = Dec(i)
  BY <1>1, <1>4 DEF WithToken, IfMeant
<1> HIDE DEF m2
<1>6. /\ DOMAIN m3 = DOMAIN m2 \cup (IF name = {} THEN {} ELSE {Sign("x")})
      /\ m3[Sign("A")] = Dec(jobid) /\ m3[Sign("j")] = Dec(jobid)
      /\ task # {} => m3[Sign("a")] = Dec(i)
      /\ name # {} => m3[Sign("x")] = n
  BY <1>1, <1>5 DEF WithToken, IfMeant
<1> HIDE DEF m3
<1>7. /\ DOMAIN m5 = DOMAIN m3 \cup {Sign("u"), Sign("N")}
      /\ m5[Sign("A")] = Dec(jobid) /\ m5[Sign("j")] = Dec(jobid)
      /\ task # {} => m5[Sign("a")] = Dec(i)
      /\ name # {} => m5[Sign("x")] = n
      /\ m5[Sign("u")] = user /\ m5[Sign("N")] = host
  BY <1>1, <1>5, <1>6 DEF WithToken
<1>8. m5 = [d \in DOMAIN m5 |-> m5[d]]
  BY DEF WithToken
<1> HIDE DEF m5
<1>9. DOMAIN m5 = {Sign(w) : w \in known}
  BY <1>5, <1>6, <1>7
<1>10. /\ task # {} => (CHOOSE k \in task : TRUE) = i
       /\ name # {} => (CHOOSE k \in name : TRUE) = n
  OBVIOUS
<1> DEFINE of(c) ==
             CASE c.is \in {"A", "j"} -> Dec(jobid)
                  [] c.is = "a" -> Dec(CHOOSE k \in task : TRUE)
                  [] c.is = "x" -> CHOOSE t \in name : TRUE
                  [] c.is = "u" -> user
                  [] c.is = "N" -> host
<1>11. all = [c \in {Sign(w) : w \in known} |-> of(c)]
  BY DEF Meaning
<1> HIDE DEF all, of
<1>15. DOMAIN all = {Sign(w) : w \in known} /\ all = [d \in DOMAIN all |-> all[d]]
  BY <1>11
<1>12. ASSUME NEW w \in known
       PROVE  all[Sign(w)] = m5[Sign(w)]
  <2> DEFINE c == Sign(w)
  <2>1. c.is = w /\ c \in {Sign(x) : x \in known}
    BY <1>2
  <2>9. all[c] = of(c)
    BY <1>11, <2>1
  <2>2. all[c] = CASE c.is \in {"A", "j"} -> Dec(jobid)
                   [] c.is = "a" -> Dec(CHOOSE k \in task : TRUE)
                   [] c.is = "x" -> CHOOSE t \in name : TRUE
                   [] c.is = "u" -> user
                   [] c.is = "N" -> host
    BY <2>9 DEF of
  <2> HIDE DEF c
  <2>3. CASE w = "A"
    BY <1>7, <2>1, <2>2, <2>3 DEF c
  <2>4. CASE w = "j"
    BY <1>7, <2>1, <2>2, <2>4 DEF c
  <2>5. CASE w = "a" /\ task # {}
    BY <1>7, <1>10, <2>1, <2>2, <2>5 DEF c
  <2>6. CASE w = "x" /\ name # {}
    BY <1>7, <1>10, <2>1, <2>2, <2>6 DEF c
  <2>7. CASE w = "u"
    BY <1>7, <2>1, <2>2, <2>7 DEF c
  <2>8. CASE w = "N"
    BY <1>7, <2>1, <2>2, <2>8 DEF c
  <2> QED
    BY <2>3, <2>4, <2>5, <2>6, <2>7, <2>8 DEF c
<1>13. DOMAIN all = DOMAIN m5 /\ all = [d \in DOMAIN all |-> all[d]]
  BY <1>9, <1>15
<1>14. \A d \in DOMAIN m5 : all[d] = m5[d]
  BY <1>9, <1>12
<1> QED
  BY <1>8, <1>13, <1>14

\* A template and what the tokens stand for, such that no text that is put in makes a token
\* with what is around it: the name starts with neither of the letters that are put in after
\* it, nor the user with the last.
NoTokenArises(T, template, jobid, i, task, name, n, user, host) ==
    /\ LettersOf(TokenLetters \cup {"%"}) \subseteq T /\ template \in Seq(T)
    /\ jobid \in Nat /\ Number(jobid) \in T
    /\ i \in Nat /\ Number(i) \in T /\ task \in {{}, {i}}
    /\ name \in {{}, {n}} /\ MayStandFor(T, n, LettersOf({"u", "N"}))
    /\ MayStandFor(T, user, LettersOf({"N"})) /\ host \in Seq(T)

\* The tokens of a template that are known are put in one after the other, as parse.rs
\* (resolve_log_path()) does, or all at once, with the same result: whatever the template, if
\* no text that is put in makes a token with what is around it.
THEOREM TokensAtOnce ==
    ASSUME NEW T, NEW template, NEW jobid, NEW i, NEW task, NEW name, NEW n, NEW user, NEW host,
           NoTokenArises(T, template, jobid, i, task, name, n, user, host)
    PROVE  TokensArePut(template, jobid, task, name, user, host)
<1>0. /\ LettersOf(TokenLetters \cup {"%"}) \subseteq T /\ template \in Seq(T)
      /\ jobid \in Nat /\ Number(jobid) \in T
      /\ i \in Nat /\ Number(i) \in T /\ task \in {{}, {i}}
      /\ name \in {{}, {n}} /\ MayStandFor(T, n, LettersOf({"u", "N"}))
      /\ MayStandFor(T, user, LettersOf({"N"})) /\ host \in Seq(T)
  BY DEF NoTokenArises
<1> DEFINE S0 == {"j", "a", "x", "u", "N"}
           S1 == {"a", "x", "u", "N"}
           S2 == {"x", "u", "N"}
           S3 == {"u", "N"}
           S4 == {"N"}
           m0 == Only(Sign("A"), Dec(jobid))
           m1 == WithToken(m0, Sign("j"), Dec(jobid))
           m2 == IfMeant(task, m1, Sign("a"), Dec(i))
           m3 == IfMeant(name, m2, Sign("x"), n)
           m4 == WithToken(m3, Sign("u"), user)
           m5 == WithToken(m4, Sign("N"), host)
           r(m) == Substitute(template, m)
<1>1. /\ Sign("%") \in T /\ \A w \in TokenLetters : Sign(w) \in T
      /\ LettersOf(S0) \subseteq T /\ Sign("%") \notin LettersOf(S0) /\ Sign("A") \notin LettersOf(S0)
      /\ Sign("A") # Sign("%") /\ Sign("A") \in T
  BY <1>0, LettersDiffer DEF LettersOf, TokenLetters
<1>2. /\ S0 \in SUBSET TokenLetters /\ S1 = S0 \ {"j"} /\ S2 = S1 \ {"a"} /\ S3 = S2 \ {"x"} /\ S4 = S3 \ {"u"}
      /\ S1 \in SUBSET TokenLetters /\ S2 \in SUBSET TokenLetters /\ S3 \in SUBSET TokenLetters
      /\ S4 \in SUBSET TokenLetters
  BY DEF TokenLetters
<1>3. Replace(template, "A", Dec(jobid)) = r(m0)
  BY DEF Replace, Only
<1>4. Puts(T, m0, LettersOf(S0))
  <2>1. MayStandFor(T, Dec(jobid), LettersOf(S0))
    BY <1>0, <1>2, NumbersMayStand
  <2> HIDE DEF S0
  <2>2. /\ Dec(jobid) \in Seq(T) /\ Dec(jobid) # <<>> /\ Sign("%") \notin ToSet(Dec(jobid))
        /\ Dec(jobid)[1] \notin LettersOf(S0)
    BY <2>1 DEF MayStandFor
  <2> QED
    BY <1>1, <2>2, PutsOne
<1>5. Replace(r(m0), "j", Dec(jobid)) = r(m1) /\ Puts(T, m1, LettersOf(S1))
  <2>1. MayStandFor(T, Dec(jobid), LettersOf(S1)) /\ Dec(jobid) \in Seq(T)
    BY <1>0, <1>2, NumbersMayStand DEF MayStandFor
  <2>2. LettersOf(S1) = LettersOf(S0) \ {Sign("j")} /\ Sign("j") \in LettersOf(S0)
    BY LettersDiffer DEF LettersOf, TokenLetters
  <2> HIDE DEF m0, S0, S1
  <2>3. Replace(r(m0), "j", Dec(jobid)) = r(m1)
    BY <1>0, <1>1, <1>4, <2>1, <2>2, PutsNext
  <2>4. Puts(T, m1, LettersOf(S1))
    BY <1>0, <1>1, <1>4, <2>1, <2>2, PutsMore DEF MayStandFor
  <2> QED
    BY <2>3, <2>4
<1>6. ReplaceIfKnown(r(m1), "a", {Dec(k) : k \in task}) = r(m2) /\ Puts(T, m2, LettersOf(S2))
  <2> DEFINE o == {Dec(k) : k \in task}
             v == Dec(i)
  <2>1. MayStandFor(T, v, LettersOf(S1 \ {"a"}))
    BY <1>0, <1>2, NumbersMayStand
  <2>2. o \in {{}, {v}} /\ (o = {} <=> task = {})
    BY <1>0
  <2>3. "a" \in S1
    OBVIOUS
  <2> HIDE DEF m1, S1, S2, o, v
  <2>4. /\ ReplaceIfKnown(r(m1), "a", o) = r(IfMeant(o, m1, Sign("a"), v))
        /\ Puts(T, IfMeant(o, m1, Sign("a"), v), LettersOf(S1 \ {"a"}))
    BY <1>0, <1>1, <1>2, <1>5, <2>1, <2>2, <2>3, PutIfKnown
  <2> QED
    BY <1>2, <2>2, <2>4 DEF o, v, IfMeant
<1>7. ReplaceIfKnown(r(m2), "x", name) = r(m3) /\ Puts(T, m3, LettersOf(S3))
  <2>1. "x" \in S2 /\ MayStandFor(T, n, LettersOf(S2 \ {"x"}))
    BY <1>0, <1>2
  <2> HIDE DEF m2, S2
  <2>2. /\ ReplaceIfKnown(r(m2), "x", name) = r(IfMeant(name, m2, Sign("x"), n))
        /\ Puts(T, IfMeant(name, m2, Sign("x"), n), LettersOf(S2 \ {"x"}))
    BY <1>0, <1>1, <1>2, <1>6, <2>1, PutIfKnown
  <2> QED
    BY <1>2, <2>2
<1>8. Replace(r(m3), "u", user) = r(m4) /\ Puts(T, m4, LettersOf(S4))
  <2>1. LettersOf(S4) = LettersOf(S3) \ {Sign("u")} /\ Sign("u") \in LettersOf(S3)
    BY LettersDiffer DEF LettersOf, TokenLetters
  <2> HIDE DEF m3, S3, S4
  <2>2. MayStandFor(T, user, LettersOf(S4)) /\ user \in Seq(T)
    BY <1>0 DEF S4, MayStandFor
  <2>3. Replace(r(m3), "u", user) = r(m4)
    BY <1>0, <1>1, <1>7, <2>1, <2>2, PutsNext
  <2>4. Puts(T, m4, LettersOf(S4))
    BY <1>0, <1>1, <1>7, <2>1, <2>2, PutsMore DEF MayStandFor
  <2> QED
    BY <2>3, <2>4
<1>9. Replace(r(m4), "N", host) = r(m5)
  <2>1. Sign("N") \in LettersOf(S4)
    BY DEF LettersOf
  <2> HIDE DEF m4, S4
  <2> QED
    BY <1>0, <1>1, <1>8, <2>1, PutsNext
<1>10. m5 = Meaning(jobid, task, name, user, host)
  BY <1>0, MeaningIs
<1> HIDE DEF m0, m1, m2, m3, m4, m5, r
<1>11. ResolveLogPath(template, jobid, task, name, user, host) = r(m5)
  BY <1>3, <1>5, <1>6, <1>7, <1>8, <1>9, Zenon DEF ResolveLogPath
<1> QED
  BY <1>10, <1>11, Zenon DEF TokensArePut, r

LEMMA PlainFields ==
    /\ {"output", "error", "job_name", "script", "array_spec"} \subseteq DOMAIN PlainCmd
    /\ PlainCmd.output = {} /\ PlainCmd.error = {} /\ PlainCmd.job_name = {}
<1> DEFINE o == [x \in DOMAIN Options |-> {}]
<1>1. {"output", "error", "job_name", "array_spec"} \subseteq DOMAIN o
  BY DEF Options
<1>2. o["output"] = {} /\ o["error"] = {} /\ o["job_name"] = {}
  BY <1>1
<1> HIDE DEF o
<1>3. PlainCmd = WithOptions(o, <<>>, FALSE, Lit("run"), <<>>)
  BY DEF PlainCmd, o
<1> QED
  BY <1>1, <1>2, <1>3 DEF WithOptions

TaskLog == Lit("%") \o Lit("a") \o Lit(".out")
JobLog == Lit("%") \o Lit("j")

\* What the commands that are submitted say of their logs.
LEMMA LogsOfCommands ==
    ASSUME NEW c \in SubmittedCommands
    PROVE  /\ {"output", "error", "job_name", "script", "array_spec"} \subseteq DOMAIN c
           /\ c.job_name = {}
           /\ \/ c.output = {TaskLog} /\ c.error = {}
              \/ c.output = {JobLog} /\ c.error = {Lit("err")}
              \/ c.script = <<>>
BY PlainFields DEF SubmittedCommands, TaskLog, JobLog

\* The handles of an array, if there are any.
ArrayHandles(cmd, argv, job, indices) ==
    [i \in DOMAIN indices |-> SnapshotOf([cmd EXCEPT !.array_spec = {TaskSpec}], argv, job, {indices[i]})]

LEMMA JobidIsNumber ==
    ASSUME NEW stdout
    PROVE  \A j \in SubmittedJobid(stdout) : j \in Nat
<1> DEFINE idOf(line) == LET words == Trim(line)
                         IN  IF Len(words) > 1 /\ Head(words) = Submitted THEN U64(<<words[2]>>) ELSE {}
           said == {i \in DOMAIN stdout : idOf(stdout[i]) # {}}
<1>1. \A line : \A j \in idOf(line) : j \in Nat
  <2>1. \A t : \A j \in U64(t) : j \in Nat
    BY TextAssumption DEF U64, ParseUnsigned
  <2> QED
    BY <2>1, Zenon
<1>2. SubmittedJobid(stdout) = IF said = {} THEN {} ELSE idOf(stdout[Min(said)])
  BY DEF SubmittedJobid
<1> HIDE DEF idOf, said
<1> QED
  BY <1>1, <1>2

LEMMA HandlesOfArray ==
    ASSUME NEW cmd, NEW p, NEW saves
    PROVE  LET tasks == SpawnArray(cmd, TaskSpec, p, saves).handles
           IN  \/ tasks = <<>>
               \/ \E argv : \E job \in Nat :
                      tasks = ArrayHandles(cmd, argv, job, ExpandArrayIndices(TaskSpec))
<1> DEFINE indices == ExpandArrayIndices(TaskSpec)
           c == [cmd EXCEPT !.array_spec = {TaskSpec}]
           of == [i \in DOMAIN indices |-> {indices[i]}]
           argvs == SbatchArgv(c)
           argv == CHOOSE a \in argvs : TRUE
           out == CHOOSE o \in Capture(argv, p) : TRUE
           jobid == SubmittedJobid(out.stdout)
           job == CHOOSE j \in jobid : TRUE
           handles == [i \in DOMAIN of |-> SnapshotOf(c, argv, job, of[i])]
<1>1. \A why, code, output : Failed(why, code, output).handles = <<>>
  BY DEF Failed
<1>2. \/ SpawnArray(cmd, TaskSpec, p, saves).handles = <<>>
      \/ SpawnArray(cmd, TaskSpec, p, saves) = Answered(c, argv, out, p.gone, of, saves)
  <2>1. \/ SpawnArray(cmd, TaskSpec, p, saves).handles = <<>>
        \/ SpawnArray(cmd, TaskSpec, p, saves) = Submit(c, p, of, saves)
    BY <1>1, Zenon DEF SpawnArray
  <2> HIDE DEF c, of
  <2>2. Submit(c, p, of, saves) = Start(c, argvs, p, of, saves)
    BY DEF Submit
  <2> HIDE DEF argvs
  <2>3. \/ Start(c, argvs, p, of, saves).handles = <<>>
        \/ Start(c, argvs, p, of, saves) = Answered(c, argv, out, p.gone, of, saves)
    BY <1>1, Zenon DEF Start
  <2> QED
    BY <2>1, <2>2, <2>3, Zenon
<1>3. \/ Answered(c, argv, out, p.gone, of, saves).handles = <<>>
      \/ jobid # {} /\ Answered(c, argv, out, p.gone, of, saves).handles = handles
  <2> HIDE DEF argv, out, of, c
  <2> QED
    BY <1>1, Zenon DEF Answered, Failed
<1>4. handles = ArrayHandles(cmd, argv, job, indices)
  <2>1. DOMAIN of = DOMAIN indices /\ \A i \in DOMAIN indices : of[i] = {indices[i]}
    OBVIOUS
  <2> HIDE DEF of, indices, argv, job
  <2> QED
    BY <2>1 DEF ArrayHandles
<1>5. jobid # {} => job \in Nat
  BY JobidIsNumber
<1> HIDE DEF argv, out, of, c, job, jobid, handles
<1> QED
  BY <1>2, <1>3, <1>4, <1>5
LEMMA NoHandleWithoutScript ==
    ASSUME NEW cmd, {"script", "array_spec"} \subseteq DOMAIN cmd, cmd.script = <<>>, NEW p, NEW saves
    PROVE  SpawnArray(cmd, TaskSpec, p, saves).handles = <<>>
<1> DEFINE indices == ExpandArrayIndices(TaskSpec)
           c == [cmd EXCEPT !.array_spec = {TaskSpec}]
           of == [i \in DOMAIN indices |-> {indices[i]}]
<1>1. \A why, code, output : Failed(why, code, output).handles = <<>>
  BY DEF Failed
<1>2. c.script = <<>>
  OBVIOUS
<1> HIDE DEF c
<1>3. Absolutize(c.script) = {}
  BY <1>2 DEF Absolutize
<1>4. SbatchArgv(c) = {}
  <2>1. {s \in Absolutize(c.script) : Exportable(c.env) /\ \A q \in c.chdir : Absolutize(q) # {}} = {}
    BY <1>3, Zenon
  <2> QED
    BY <2>1, Zenon DEF SbatchArgv
<1>5. \/ SpawnArray(cmd, TaskSpec, p, saves).handles = <<>>
      \/ SpawnArray(cmd, TaskSpec, p, saves) = Submit(c, p, of, saves)
  BY <1>1, Zenon DEF SpawnArray, c
<1> HIDE DEF of
<1>6. Submit(c, p, of, saves) = Failed("Argv", {}, <<>>)
  BY <1>4, Zenon DEF Submit, Start
<1> QED
  BY <1>1, <1>5, <1>6, Zenon

\* Where the logs of a task are: each task's own, if the template tells them apart.
TaskTexts(job, k) ==
    LettersOf(TokenLetters \cup {"%"}) \cup {Number(job), Number(k), Sign(".out"), Sign("err")}

LEMMA TaskLogsAre ==
    ASSUME NEW job \in Nat, NEW k \in Nat
    PROVE  /\ ResolveLogPath(TaskLog, job, {k}, {}, Lit("j"), Lit("a")) = <<Number(k), Sign(".out")>>
           /\ ResolveLogPath(Lit("err"), job, {k}, {}, Lit("j"), Lit("a")) = Lit("err")
<1> DEFINE T == TaskTexts(job, k)
           meaning == Meaning(job, {k}, {}, Lit("j"), Lit("a"))
<1>1. /\ LettersOf(TokenLetters \cup {"%"}) \subseteq T /\ Number(job) \in T /\ Number(k) \in T
      /\ Sign(".out") \in T /\ Sign("err") \in T
      /\ Sign("%") \in T /\ Sign("a") \in T /\ Sign("j") \in T
  BY DEF TaskTexts, LettersOf, TokenLetters
<1> HIDE DEF T
<1>2. TaskLog = <<Sign("%"), Sign("a"), Sign(".out")>>
  <2>1. ASSUME NEW x \in T, NEW y \in T, NEW z \in T
        PROVE  (<<x>> \o <<y>>) \o <<z>> = <<x, y, z>>
    BY AppendedOnes, Zenon
  <2> QED
    BY <1>1, <2>1, Zenon DEF TaskLog, Lit
<1>3. TaskLog \in Seq(T) /\ Lit("err") \in Seq(T) /\ Lit("a") \in Seq(T) /\ Lit("j") \in Seq(T)
  BY <1>1, <1>2 DEF Lit
<1>4. MayStandFor(T, Lit("j"), LettersOf({"u", "N"})) /\ MayStandFor(T, Lit("j"), LettersOf({"N"}))
  <2>1. Lit("j") # <<>> /\ Lit("j")[1] = Sign("j") /\ ToSet(Lit("j")) = {Sign("j")}
    BY <1>1, OneLexeme DEF Lit
  <2>2. Sign("j") \notin LettersOf({"u", "N"}) /\ Sign("j") \notin LettersOf({"N"}) /\ Sign("%") # Sign("j")
    BY DEF LettersOf, Sign
  <2> QED
    BY <1>3, <2>1, <2>2 DEF MayStandFor
<1>5. /\ TokensArePut(TaskLog, job, {k}, {}, Lit("j"), Lit("a"))
      /\ TokensArePut(Lit("err"), job, {k}, {}, Lit("j"), Lit("a"))
  <2> DEFINE task == {k}
             name == {}
             user == Lit("j")
             host == Lit("a")
  <2>1. task \in {{}, {k}} /\ name \in {{}, {user}}
    OBVIOUS
  <2>2. /\ MayStandFor(T, user, LettersOf({"u", "N"})) /\ MayStandFor(T, user, LettersOf({"N"}))
        /\ host \in Seq(T)
    BY <1>3, <1>4
  <2> HIDE DEF meaning, task, name, user, host
  <2>3. \A t \in Seq(T) : NoTokenArises(T, t, job, k, task, name, user, user, host)
    BY <1>1, <2>1, <2>2 DEF NoTokenArises
  <2>4. \A t \in Seq(T) : TokensArePut(t, job, task, name, user, host)
    BY <2>3, TokensAtOnce
  <2> QED
    BY <1>3, <2>4 DEF task, name, user, host
<1>6. /\ Sign("a") \in DOMAIN meaning /\ meaning[Sign("a")] = Dec(k)
      /\ DOMAIN meaning \subseteq LettersOf(TokenLetters)
      /\ \A d \in DOMAIN meaning : meaning[d] \in {Dec(job), Dec(k), Lit("j"), Lit("a")}
  <2>1. (CHOOSE i \in {k} : TRUE) = k
    OBVIOUS
  <2>2. \A w : Sign(w).is = w
    BY DEF Sign
  <2> QED
    BY <2>1, <2>2 DEF Meaning, LettersOf, TokenLetters
<1> HIDE DEF meaning
<1>7. Means(T, meaning) /\ DOMAIN meaning \subseteq T
  <2>1. Dec(job) \in Seq(T) /\ Dec(k) \in Seq(T)
    BY <1>1 DEF Dec
  <2>2. Sign("%") \notin LettersOf(TokenLetters) /\ LettersOf(TokenLetters) \subseteq T
    BY <1>1 DEF LettersOf, TokenLetters, Sign
  <2> QED
    BY <1>3, <1>6, <2>1, <2>2 DEF Means
<1>8. Substitute(TaskLog, meaning) = <<Number(k), Sign(".out")>>
  <2>1. /\ Begun(TaskLog, 0, meaning) = <<>> /\ Begun(TaskLog, Len(TaskLog), meaning) = Substitute(TaskLog, meaning)
        /\ \A n \in 1..Len(TaskLog) : GrowsBy(TaskLog, n, meaning)
    BY <1>1, <1>3, <1>7, SubstituteSteps
  <2>2. /\ Len(TaskLog) = 3 /\ TaskLog[1] = Sign("%") /\ TaskLog[2] = Sign("a") /\ TaskLog[3] = Sign(".out")
    BY <1>2
  <2>3. TokenAt(TaskLog, DOMAIN meaning, 1) /\ ~TokenAt(TaskLog, DOMAIN meaning, 2)
    BY <1>6, <2>2 DEF TokenAt, Sign
  <2>4. GrowsBy(TaskLog, 2, meaning) /\ GrowsBy(TaskLog, 3, meaning)
    BY <2>1, <2>2
  <2>5. Begun(TaskLog, 2, meaning) = Then(<<>>, Dec(k))
    BY <1>6, <2>1, <2>2, <2>3, <2>4 DEF GrowsBy
  <2>6. Begun(TaskLog, 3, meaning) = Append(Begun(TaskLog, 2, meaning), Sign(".out"))
    BY <2>2, <2>3, <2>4 DEF GrowsBy
  <2>7. Append(Then(<<>>, Dec(k)), Sign(".out")) = <<Number(k), Sign(".out")>>
    <3>1. ASSUME NEW x \in T, NEW y \in T
          PROVE  Append(<<>> \o <<x>>, y) = <<x, y>>
      BY AppendedOnes, Zenon
    <3> QED
      BY <1>1, <3>1, Zenon DEF Then, Dec
  <2> QED
    BY <2>1, <2>2, <2>5, <2>6, <2>7
<1>9. Substitute(Lit("err"), meaning) = Lit("err")
  <2>1. /\ Begun(Lit("err"), 0, meaning) = <<>>
        /\ Begun(Lit("err"), Len(Lit("err")), meaning) = Substitute(Lit("err"), meaning)
        /\ \A n \in 1..Len(Lit("err")) : GrowsBy(Lit("err"), n, meaning)
    BY <1>1, <1>3, <1>7, SubstituteSteps
  <2>2. Len(Lit("err")) = 1 /\ Lit("err")[1] = Sign("err")
    BY DEF Lit
  <2>3. GrowsBy(Lit("err"), 1, meaning) /\ ~TokenAt(Lit("err"), DOMAIN meaning, 1 - 1)
    BY <2>1, <2>2 DEF TokenAt
  <2>4. Begun(Lit("err"), 1, meaning) = Append(<<>>, Sign("err"))
    <3>1. Begun(Lit("err"), 1, meaning) = Append(Begun(Lit("err"), 1 - 1, meaning), Lit("err")[1])
      BY <2>3, Zenon DEF GrowsBy
    <3>2. 1 - 1 = 0
      OBVIOUS
    <3> QED
      BY <2>1, <2>2, <3>1, <3>2, Zenon
  <2> QED
    BY <2>1, <2>2, <2>4 DEF Lit
<1> QED
  BY <1>5, <1>8, <1>9 DEF TokensArePut, meaning

\* Two tasks.
LEMMA TasksAreTwo ==
    ExpandArrayIndices(TaskSpec) \in Seq(Nat) /\ IsInjective(ExpandArrayIndices(TaskSpec))
<1> DEFINE made == ExpandArrayIndices(TaskSpec)
           entries == TaskSpec.indices
<1>1. Interval(0, 1) \in ArrayEntry
  BY TextAssumption, ValuesAssumption DEF Interval, ArrayEntry, EntryKind, Few
<1>2. entries = <<Interval(0, 1)>>
  BY DEF TaskSpec
<1>3. entries \in Seq(ArrayEntry) /\ DOMAIN entries = {1}
  BY <1>1, <1>2
<1>4. \A i, j \in DOMAIN entries : i < j => TasksOf(entries[i]) \cap TasksOf(entries[j]) = {}
  BY <1>3
<1>5. /\ made \in Seq(Nat)
      /\ IsInjective(made) <=>
             \A i, j \in DOMAIN entries : i < j => TasksOf(entries[i]) \cap TasksOf(entries[j]) = {}
  BY <1>3, ArrayIsItsTasks
<1> QED
  BY <1>4, <1>5

LEMMA SnapshotLogs ==
    ASSUME NEW cmd, {"output", "error", "job_name", "script", "array_spec"} \subseteq DOMAIN cmd,
           cmd.job_name = {}, NEW argv, NEW job, NEW k
    PROVE  LET s == SnapshotOf([cmd EXCEPT !.array_spec = {TaskSpec}], argv, job, {k})
           IN  /\ LogPath(s, 0) = {ResolveLogPath(t, job, {k}, {}, Lit("j"), Lit("a")) : t \in cmd.output}
               /\ LogPath(s, 1) = {ResolveLogPath(t, job, {k}, {}, Lit("j"), Lit("a")) : t \in cmd.error}
               /\ LogPath(s, 2) = {}
<1> DEFINE c == [cmd EXCEPT !.array_spec = {TaskSpec}]
           s == SnapshotOf(c, argv, job, {k})
           path(t) == ResolveLogPath(t, job, {k}, {}, Lit("j"), Lit("a"))
<1>1. c.output = cmd.output /\ c.error = cmd.error /\ c.job_name = {}
  OBVIOUS
<1> HIDE DEF c
<1>2. /\ s.output_template = cmd.output /\ s.error_template = cmd.error
      /\ s.job_name = {} /\ s.jobid = job /\ s.task = {k}
  BY <1>1 DEF SnapshotOf
<1> HIDE DEF s
<1> DEFINE template == [Stdout |-> s.output_template, Stderr |-> s.error_template]
<1>3. template["Stdout"] = cmd.output /\ template["Stderr"] = cmd.error
  BY <1>2
<1> HIDE DEF template
<1>4. \A stream : LogPath(s, stream) =
          UNION {{ResolveLogPath(t, s.jobid, s.task, s.job_name, Lit("j"), Lit("a")) : t \in template[x]}
                    : x \in LogStream(stream)}
  BY DEF LogPath, template
<1>5. \A stream : LogPath(s, stream) = UNION {{path(t) : t \in template[x]} : x \in LogStream(stream)}
  <2> DEFINE at(t) == ResolveLogPath(t, s.jobid, s.task, s.job_name, Lit("j"), Lit("a"))
  <2>1. \A t : at(t) = path(t)
    BY <1>2, Zenon
  <2>2. \A stream : LogPath(s, stream) = UNION {{at(t) : t \in template[x]} : x \in LogStream(stream)}
    BY <1>4, Zenon
  <2> HIDE DEF at, path
  <2>3. \A x : {at(t) : t \in template[x]} = {path(t) : t \in template[x]}
    BY <2>1
  <2> DEFINE ats(x) == {at(t) : t \in template[x]}
             paths(x) == {path(t) : t \in template[x]}
  <2>4. \A x : ats(x) = paths(x)
    BY <2>3
  <2>5. \A stream : LogPath(s, stream) = UNION {ats(x) : x \in LogStream(stream)}
    BY <2>2
  <2> HIDE DEF ats, paths
  <2>6. \A stream : LogPath(s, stream) = UNION {paths(x) : x \in LogStream(stream)}
    <3>1. \A stream : {ats(x) : x \in LogStream(stream)} = {paths(x) : x \in LogStream(stream)}
      BY <2>4
    <3> QED
      BY <2>5, <3>1, Zenon
  <2> QED
    BY <2>6, Zenon DEF paths
<1>6. LogStream(0) = {"Stdout"} /\ LogStream(1) = {"Stderr"} /\ LogStream(2) = {}
  BY DEF LogStream
<1> HIDE DEF path
<1>7. LogPath(s, 0) = {path(t) : t \in cmd.output} /\ LogPath(s, 1) = {path(t) : t \in cmd.error}
  BY <1>3, <1>5, <1>6
<1>8. LogPath(s, 2) = {}
  BY <1>5, <1>6
<1> QED
  BY <1>7, <1>8 DEF s, c, path

\* What a command that ended is.
ProcessInv ==
    /\ "part" \in DOMAIN input
    /\ input.part = "process" => input \in CommandEnds

LEMMA CommandsOfEnds == \A i \in CommandEnds : i.cmd \in SubmittedCommands
BY DEF CommandEnds

LEMMA ProcessInvInit == Init => ProcessInv
BY PartsOfInit DEF ProcessInv, InitParts

\* A command that ended has ended: no step is one of such an input.
LEMMA ProcessInvNext == ProcessInv /\ [Next]_input => ProcessInv'
<1> SUFFICES ASSUME ProcessInv, [Next]_input
             PROVE  ProcessInv'
  OBVIOUS
<1>1. CASE Apart
  <2>1. input.part # "process"
    <3>1. CASE Type
      BY <3>1 DEF Type
    <3>2. CASE Configure
      BY <3>2 DEF Configure
    <3>3. CASE LogSteps
      BY <3>3 DEF LogSteps, LogIsRead, LogGrows, LogIsCut, BeingRead
    <3> QED
      BY <1>1, <3>1, <3>2, <3>3 DEF Apart
  <2> QED
    BY <1>1, <2>1, PartsStay DEF ProcessInv
<1>2. CASE StoreSaves
  <2>1. input.part = "store" /\ DOMAIN input' = DOMAIN input /\ input'.part = input.part
    BY <1>2, Zenon DEF StoreSaves, ProcessInv
  <2> QED
    BY <2>1 DEF ProcessInv
<1>3. CASE StoreDeletes
  <2>1. input.part = "store" /\ DOMAIN input' = DOMAIN input /\ input'.part = input.part
    BY <1>3, Zenon DEF StoreDeletes, ProcessInv
  <2> QED
    BY <2>1 DEF ProcessInv
<1>4. CASE SinkSteps
  <2>1. input.part = "sink" /\ "part" \in DOMAIN input' /\ input'.part = input.part
    BY <1>4 DEF SinkSteps, ProcessInv
  <2> QED
    BY <2>1 DEF ProcessInv
<1>5. CASE UNCHANGED input
  BY <1>5 DEF ProcessInv
<1> QED
  BY <1>1, <1>2, <1>3, <1>4, <1>5 DEF Next, Apart, LogSteps

\* The log of a job is sought where its template says, with the tokens that are known put
\* in and the others left alone, whatever the order in which the code puts them in, for
\* every template of at most four lexemes, and a job, user and host of which no token
\* arises (parse.rs, resolve_log_path(); TokensAtOnce says it of any template); and the
\* tasks of an array have logs of their own if the template tells them apart
\* (sbatch/manager.rs, spawn_array()).
THEOREM LogPathsAreResolved == Spec => []LogPathIsResolved
<1>1. ASSUME ProcessInv, input.part = "process"
      PROVE  LET tasks == SpawnArray(input.cmd, TaskSpec, input.process, input.saves).handles
                 logs == [i \in DOMAIN tasks |-> LogPath(tasks[i], 0)]
             IN  /\ IsInjective(logs) \/ \A t \in input.cmd.output : Sign("a") \notin ToSet(t)
                 /\ \A i \in DOMAIN tasks : Cardinality(logs[i]) = 1 /\ LogPath(tasks[i], 1) = input.cmd.error
                 /\ \A i \in DOMAIN tasks : LogPath(tasks[i], 2) = {}
  <2> DEFINE cmd == input.cmd
             tasks == SpawnArray(cmd, TaskSpec, input.process, input.saves).handles
             logs == [i \in DOMAIN tasks |-> LogPath(tasks[i], 0)]
             made == ExpandArrayIndices(TaskSpec)
             path(t, job, k) == ResolveLogPath(t, job, {k}, {}, Lit("j"), Lit("a"))
             All == /\ IsInjective(logs) \/ \A t \in cmd.output : Sign("a") \notin ToSet(t)
                    /\ \A i \in DOMAIN tasks : Cardinality(logs[i]) = 1 /\ LogPath(tasks[i], 1) = cmd.error
                    /\ \A i \in DOMAIN tasks : LogPath(tasks[i], 2) = {}
  <2> SUFFICES All
    OBVIOUS
  <2>1. /\ {"output", "error", "job_name", "script", "array_spec"} \subseteq DOMAIN cmd
        /\ cmd.job_name = {}
        /\ \/ cmd.output = {TaskLog} /\ cmd.error = {}
           \/ cmd.output = {JobLog} /\ cmd.error = {Lit("err")}
           \/ cmd.script = <<>>
    BY <1>1, CommandsOfEnds, LogsOfCommands DEF ProcessInv
  <2>2. cmd.script = <<>> => tasks = <<>>
    BY <2>1, NoHandleWithoutScript
  <2>3. \/ tasks = <<>>
        \/ \E argv : \E job \in Nat : tasks = ArrayHandles(cmd, argv, job, made)
    BY HandlesOfArray
  <2> HIDE DEF cmd, tasks, made
  <2>4. CASE tasks = <<>>
    <3>1. DOMAIN tasks = {}
      BY <2>4
    <3>2. IsInjective(logs)
      BY <3>1 DEF IsInjective
    <3> QED
      BY <3>1, <3>2
  <2>5. CASE tasks # <<>>
    <3>1. PICK argv : \E job \in Nat : tasks = ArrayHandles(cmd, argv, job, made)
      BY <2>3, <2>5
    <3>2. PICK job \in Nat : tasks = ArrayHandles(cmd, argv, job, made)
      BY <3>1
    <3>3. /\ DOMAIN tasks = DOMAIN made
          /\ \A i \in DOMAIN made :
                tasks[i] = SnapshotOf([cmd EXCEPT !.array_spec = {TaskSpec}], argv, job, {made[i]})
      BY <3>2 DEF ArrayHandles
    <3>4. \A i \in DOMAIN made : made[i] \in Nat
      BY TasksAreTwo, ElementOfSeq, LenProperties DEF made
    <3>5. \A i, j \in DOMAIN made : made[i] = made[j] => i = j
      BY TasksAreTwo DEF IsInjective, made
    <3> HIDE DEF path
    <3>6. \A i \in DOMAIN made :
              /\ LogPath(tasks[i], 0) = {path(t, job, made[i]) : t \in cmd.output}
              /\ LogPath(tasks[i], 1) = {path(t, job, made[i]) : t \in cmd.error}
              /\ LogPath(tasks[i], 2) = {}
      <4> SUFFICES ASSUME NEW i \in DOMAIN made
                   PROVE  /\ LogPath(tasks[i], 0) = {path(t, job, made[i]) : t \in cmd.output}
                          /\ LogPath(tasks[i], 1) = {path(t, job, made[i]) : t \in cmd.error}
                          /\ LogPath(tasks[i], 2) = {}
        OBVIOUS
      <4> DEFINE s == SnapshotOf([cmd EXCEPT !.array_spec = {TaskSpec}], argv, job, {made[i]})
      <4>1. /\ LogPath(s, 0) = {path(t, job, made[i]) : t \in cmd.output}
            /\ LogPath(s, 1) = {path(t, job, made[i]) : t \in cmd.error}
            /\ LogPath(s, 2) = {}
        BY <2>1, SnapshotLogs DEF path
      <4>2. tasks[i] = s
        BY <3>3
      <4> HIDE DEF s
      <4> QED
        BY <4>1, <4>2
    <3>7. \A i \in DOMAIN made : path(TaskLog, job, made[i]) = <<Number(made[i]), Sign(".out")>>
                                /\ path(Lit("err"), job, made[i]) = Lit("err")
      BY <3>4, TaskLogsAre DEF path
    <3>8. CASE cmd.output = {TaskLog} /\ cmd.error = {}
      <4>1. \A i \in DOMAIN tasks : logs[i] = {<<Number(made[i]), Sign(".out")>>} /\ LogPath(tasks[i], 1) = {}
        BY <3>3, <3>6, <3>7, <3>8
      <4>2. \A m, n : <<Number(m), Sign(".out")>> = <<Number(n), Sign(".out")>> => m = n
        BY DEF Number
      <4>3. ASSUME NEW i \in DOMAIN tasks, NEW j \in DOMAIN tasks, logs[i] = logs[j]
            PROVE  i = j
        <5>1. <<Number(made[i]), Sign(".out")>> = <<Number(made[j]), Sign(".out")>>
          BY <4>1, <4>3, Zenon
        <5>2. made[i] = made[j]
          BY <4>2, <5>1, Zenon
        <5> QED
          BY <3>3, <3>5, <5>2
      <4>4. DOMAIN logs = DOMAIN tasks
        OBVIOUS
      <4>5. \A i \in DOMAIN tasks : Cardinality(logs[i]) = 1
        BY <4>1, FS_Singleton, ZenonT(30)
      <4> HIDE DEF logs
      <4> QED
        BY <3>3, <3>6, <3>8, <4>1, <4>3, <4>4, <4>5 DEF IsInjective
    <3>9. CASE cmd.output = {JobLog} /\ cmd.error = {Lit("err")}
      <4>1. \A i \in DOMAIN tasks : logs[i] = {path(JobLog, job, made[i])} /\ LogPath(tasks[i], 1) = {Lit("err")}
        BY <3>3, <3>6, <3>7, <3>9
      <4>2. ASSUME NEW i \in DOMAIN tasks PROVE Cardinality(logs[i]) = 1
        <5> DEFINE x == path(JobLog, job, made[i])
        <5>1. logs[i] = {x}
          BY <4>1, Zenon
        <5> HIDE DEF x, logs
        <5> QED
          BY <5>1, FS_Singleton
      <4>3. Sign("a") \notin ToSet(JobLog)
        <5>1. Sign("%") \in {Sign("%"), Sign("j")} /\ Sign("j") \in {Sign("%"), Sign("j")}
          OBVIOUS
        <5>2. ToSet(JobLog) \subseteq {Sign("%"), Sign("j")}
          <6> DEFINE L == {Sign("%"), Sign("j")}
          <6>1. Lit("%") \in Seq(L) /\ Lit("j") \in Seq(L)
            BY <5>1 DEF Lit
          <6> HIDE DEF L
          <6>2. JobLog \in Seq(L)
            BY <6>1, ConcatProperties DEF JobLog
          <6>3. ToSet(JobLog) \subseteq L
            BY <6>2, LexemesIn
          <6> QED
            BY <6>3 DEF L
        <5> QED
          BY <5>2 DEF Sign
      <4> HIDE DEF logs
      <4> QED
        BY <3>3, <3>6, <3>9, <4>1, <4>2, <4>3
    <3> QED
      BY <2>1, <2>2, <2>5, <3>8, <3>9
  <2> QED
    BY <2>4, <2>5
<1>2. ASSUME ValuesInv, input.part = "text", input.kind = "template",
             NEW task \in {{}, {4}}, NEW name \in {{}, {Lit("job")}}
      PROVE  ResolveLogPath(input.text, 12, task, name, Lit("j"), Lit("a")) =
                 Substitute(input.text, Meaning(12, task, name, Lit("j"), Lit("a")))
  <2> DEFINE t == input.text
             T == Lexemes("template") \cup {Number(12), Number(4), Sign("job")}
             n == Lit("job")
             user == Lit("j")
             host == Lit("a")
  <2>1. Lexemes("template") = {Sign(c) : c \in {"%", "j", "A", "a", "x", "u", "N", "/"}}
    BY DEF Lexemes
  <2>2. t \in Seq(Lexemes("template"))
    BY <1>2 DEF ValuesInv
  <2>3. LettersOf(TokenLetters \cup {"%"}) \subseteq T
    BY <2>1 DEF LettersOf, TokenLetters
  <2>4. Number(12) \in T /\ Number(4) \in T /\ Sign("job") \in T /\ Sign("j") \in T /\ Sign("a") \in T
    BY <2>1
  <2>5. t \in Seq(T)
    <3>1. Lexemes("template") \subseteq T
      OBVIOUS
    <3> HIDE DEF T, t
    <3> QED
      BY <2>2, <3>1, LexemesIn
  <2> HIDE DEF T
  <2>6. MayStandFor(T, n, LettersOf({"u", "N"})) /\ MayStandFor(T, user, LettersOf({"N"}))
    <3>1. ASSUME NEW w, Sign(w) \in T, w \notin {"%", "u", "N"}
          PROVE  MayStandFor(T, Lit(w), LettersOf({"u", "N"})) /\ MayStandFor(T, Lit(w), LettersOf({"N"}))
      <4>1. /\ Lit(w) \in Seq(T) /\ Lit(w) # <<>> /\ Lit(w)[1] = Sign(w) /\ ToSet(Lit(w)) = {Sign(w)}
        BY <3>1, OneLexeme DEF Lit
      <4>2. Sign(w) \notin LettersOf({"u", "N"}) /\ Sign(w) \notin LettersOf({"N"}) /\ Sign("%") # Sign(w)
        BY <3>1 DEF LettersOf, Sign
      <4> QED
        BY <4>1, <4>2 DEF MayStandFor
    <3> QED
      BY <2>4, <3>1
  <2>7. host \in Seq(T)
    BY <2>4 DEF Lit
  <2> HIDE DEF t, n, user, host
  <2>8. NoTokenArises(T, t, 12, 4, task, name, n, user, host)
    BY <1>2, <2>3, <2>4, <2>5, <2>6, <2>7 DEF NoTokenArises, n
  <2>9. TokensArePut(t, 12, task, name, user, host)
    BY <2>8, TokensAtOnce
  <2> QED
    BY <2>9 DEF TokensArePut, t, user, host
<1>3. ValuesInv /\ ProcessInv => LogPathIsResolved
  BY <1>1, <1>2, Zenon DEF LogPathIsResolved
<1> QED
  BY <1>3, ValuesInvInit, ValuesInvNext, ProcessInvInit, ProcessInvNext, PTL DEF Spec

-----------------------------------------------------------------------------
(* What command lines say. *)

\* The values of a command that sbatch can be told: Python may build arrays and dependencies
\* that no text stands for.
CanBeTold(cmd) ==
    /\ \A spec \in cmd.array_spec : SpecAccepted(spec)
    /\ \A d \in cmd.dependency : DependencyAccepted(d) /\ CanonicalDependency(d) = d

\* What Python makes of the texts of a command's limit and resources.
LEMMA PyLimitIs ==
    ASSUME NEW limits, limits \subseteq 1..MaxU32, \A x, y \in limits : x = y
    PROVE  (IF TimeWords(limits) = {} THEN {{}}
            ELSE {{s} : s \in UNION {ParseTimeLimit(w) : w \in TimeWords(limits)}}) = {limits}
<1>1. UNION {ParseTimeLimit(w) : w \in TimeWords(limits)} = limits
  BY LimitsAreRead
<1>2. TimeWords(limits) = {} <=> limits = {}
  BY DEF TimeWords
<1>3. limits = {} \/ \E v \in limits : limits = {v}
  BY MissingOrOne
<1>4. ASSUME NEW v \in limits, limits = {v}
      PROVE  {{s} : s \in limits} = {limits}
  BY <1>4
<1> DEFINE words == TimeWords(limits)
           read == UNION {ParseTimeLimit(w) : w \in words}
<1> HIDE DEF words, read
<1>5. (IF words = {} THEN {{}} ELSE {{s} : s \in read}) = {limits}
  <2>1. read = limits /\ (words = {} <=> limits = {})
    BY <1>1, <1>2 DEF read, words
  <2>2. CASE limits = {}
    BY <2>1, <2>2
  <2>3. CASE limits # {}
    <3>1. {{s} : s \in limits} = {limits}
      BY <1>3, <1>4, <2>3
    <3> QED
      BY <2>1, <2>3, <3>1
  <2> QED
    BY <2>2, <2>3
<1> QED
  BY <1>5 DEF words, read

LEMMA PyResourcesIs ==
    ASSUME NEW specs, \A x, y \in specs : x = y, \A spec \in specs : ResourceForm(spec)
    PROVE  LET texts == {ResourceText(r) : r \in specs}
           IN  (IF texts = {} THEN {{}} ELSE {{s} : s \in UNION {ParseResourceSpec(w) : w \in texts}})
                   = IF specs = {NoResources} THEN {} ELSE {specs}
<1> DEFINE texts == {ResourceText(r) : r \in specs}
           read == UNION {ParseResourceSpec(w) : w \in texts}
<1>1. CASE specs = {}
  BY <1>1
<1>2. CASE specs # {}
  <2>1. PICK v \in specs : specs = {v}
    BY <1>2, MissingOrOne
  <2>2. ResourceForm(v)
    OBVIOUS
  <2>3. ParseResourceSpec(ResourceText(v)) = IF v = NoResources THEN {} ELSE {v}
    BY <2>2, ResourcesAreRead, NothingGivenIsNone
  <2>4. texts = {ResourceText(v)}
    BY <2>1, Zenon
  <2>5. UNION {ParseResourceSpec(w) : w \in {ResourceText(v)}} = ParseResourceSpec(ResourceText(v))
    BY Zenon
  <2>6. read = ParseResourceSpec(ResourceText(v))
    BY <2>4, <2>5, Zenon
  <2> HIDE DEF texts, read
  <2>7. texts # {}
    BY <2>4
  <2>8. CASE v = NoResources
    <3>1. read = {}
      BY <2>3, <2>6, <2>8
    <3> QED
      BY <2>1, <2>7, <2>8, <3>1 DEF texts, read
  <2>9. CASE v # NoResources
    <3>1. read = {v}
      BY <2>3, <2>6, <2>9
    <3>2. {{s} : s \in read} = {specs}
      BY <2>1, <3>1
    <3>3. specs # {NoResources}
      BY <2>1, <2>9
    <3> QED
      BY <2>7, <3>2, <3>3 DEF texts, read
  <2> QED
    BY <2>8, <2>9
<1> QED
  BY <1>1, <1>2

\* A command with its limit and resources, by Python's way to give them.
Regiven(cmd, t, r) == [cmd EXCEPT !.time_limit = t, !.rsc = r]

LEMMA RegivenIs ==
    ASSUME NEW T, NEW cmd, SbatchForm(T, cmd), NEW t, NEW r, NEW u, NEW s
    PROVE  /\ Regiven(cmd, t, r).time_limit = t /\ Regiven(cmd, t, r).rsc = r
           /\ Regiven(Regiven(cmd, t, r), u, s) = Regiven(cmd, u, s)
           /\ Regiven(cmd, cmd.time_limit, cmd.rsc) = cmd
<1>1. cmd = [f \in SbatchFields |-> cmd[f]]
  BY DEF SbatchForm
<1>2. "time_limit" \in SbatchFields /\ "rsc" \in SbatchFields
  BY DEF SbatchFields, ValueOptions
<1>3. DOMAIN cmd = SbatchFields
  BY <1>1
<1> HIDE DEF SbatchFields
<1>4. \A x, y : Regiven(cmd, x, y) =
                    [f \in SbatchFields |-> IF f = "rsc" THEN y ELSE IF f = "time_limit" THEN x ELSE cmd[f]]
  BY <1>1, <1>2, <1>3 DEF Regiven
<1>5. Regiven(cmd, t, r).time_limit = t /\ Regiven(cmd, t, r).rsc = r
  BY <1>2, <1>4
<1>6. Regiven(Regiven(cmd, t, r), u, s) = Regiven(cmd, u, s)
  BY <1>2, <1>3 DEF Regiven
<1>7. Regiven(cmd, cmd.time_limit, cmd.rsc) = cmd
  BY <1>1, <1>2, <1>3 DEF Regiven
<1> QED
  BY <1>5, <1>6, <1>7

LEMMA PythonBuildsIt ==
    ASSUME NEW T, NEW cmd, SbatchForm(T, cmd)
    PROVE  PySbatchCmd([cmd EXCEPT !.time_limit = TimeWords(@), !.rsc = {ResourceText(r) : r \in @}]) =
               {cmd} \ {c \in {cmd} : c.rsc = {NoResources}}
<1> DEFINE limits == cmd.time_limit
           specs == cmd.rsc
           words == TimeWords(limits)
           texts == {ResourceText(r) : r \in specs}
           py == Regiven(cmd, words, texts)
           ts == IF py.time_limit = {} THEN {{}}
                 ELSE {{s} : s \in UNION {ParseTimeLimit(w) : w \in py.time_limit}}
           rs == IF py.rsc = {} THEN {{}} ELSE {{s} : s \in UNION {ParseResourceSpec(w) : w \in py.rsc}}
<1>1. [cmd EXCEPT !.time_limit = TimeWords(@), !.rsc = {ResourceText(r) : r \in @}] = py
  <2>1. "time_limit" \in DOMAIN cmd /\ "rsc" \in DOMAIN cmd
    BY DEF SbatchForm, SbatchFields, ValueOptions
  <2> QED
    BY <2>1 DEF Regiven
<1> HIDE DEF py
<1>2. PySbatchCmd(py) = {Regiven(py, t, r) : t \in ts, r \in rs}
  BY DEF PySbatchCmd, Regiven
<1>3. limits \subseteq 1..MaxU32 /\ \A x, y \in limits : x = y
  BY DEF SbatchForm, ValueOptions
<1>4. /\ \A x, y \in specs : x = y
      /\ \A spec \in specs : ResourceForm(spec)
  BY DEF SbatchForm, ValueOptions
<1>5. py.time_limit = words /\ py.rsc = texts
  <2> HIDE DEF words, texts
  <2> QED
    BY RegivenIs DEF py
<1> HIDE DEF limits, specs
<1>6. ts = {limits}
  BY <1>3, <1>5, PyLimitIs, Zenon
<1>7. rs = IF specs = {NoResources} THEN {} ELSE {specs}
  BY <1>4, <1>5, PyResourcesIs, Zenon
<1> HIDE DEF words, texts, ts, rs
<1>8. \A t, r : Regiven(py, t, r) = Regiven(cmd, t, r)
  BY RegivenIs DEF py
<1>9. Regiven(cmd, limits, specs) = cmd
  BY RegivenIs, Zenon DEF limits, specs
<1>10. CASE specs = {NoResources}
  <2>1. PySbatchCmd(py) = {}
    BY <1>2, <1>7, <1>10
  <2>2. {cmd} \ {c \in {cmd} : c.rsc = {NoResources}} = {}
    BY <1>10 DEF specs
  <2> QED
    BY <1>1, <2>1, <2>2
<1>11. CASE specs # {NoResources}
  <2>1. PySbatchCmd(py) = {Regiven(py, limits, specs)}
    <3>1. rs = {specs}
      BY <1>7, <1>11
    <3>2. \A x : x \in {Regiven(py, t, r) : t \in ts, r \in rs} <=> x = Regiven(py, limits, specs)
      BY <1>6, <3>1
    <3> QED
      BY <1>2, <3>2
  <2>2. Regiven(py, limits, specs) = cmd
    BY <1>8, <1>9, Zenon
  <2>3. {cmd} \ {c \in {cmd} : c.rsc = {NoResources}} = {cmd}
    BY <1>11 DEF specs
  <2> QED
    BY <1>1, <2>1, <2>2, <2>3
<1> QED
  BY <1>10, <1>11

-----------------------------------------------------------------------------
(* The commands that are looked at. *)

CommandWords ==
    {"job", "gr1", "%j.out", "-e", "/", "home", "runs", "me", "-J", "--nice", "=", "run", "A", "1x",
     "B", "x", ",", "y", "--x11"}
CommandLexemes == {Sign(w) : w \in CommandWords} \cup {Number(1)}

\* The form of the value of one option.
OptionFits(o, v) ==
    /\ o \in TextOptions => v \in Seq(CommandLexemes)
    /\ o = "time_limit" => v \in 1..MaxU32
    /\ o = "rsc" => ResourceForm(v)
    /\ o = "array_spec" => v \in PySpecs /\ SpecAccepted(v)
    /\ o = "dependency" => v \in PyDeps /\ DependencyAccepted(v) /\ CanonicalDependency(v) = v
    /\ o = "mail_types" => v \in Seq(MailType) /\ v # <<>>
    /\ o = "signal" => v \in Signals
    /\ o = "nice" => v \in Int

LEMMA TextsFit ==
    /\ <<>> \in Seq(CommandLexemes)
    /\ \A w \in CommandWords : Lit(w) \in Seq(CommandLexemes)
    /\ \A t, u \in Seq(CommandLexemes) : t \o u \in Seq(CommandLexemes)
    /\ Dec(1) \in Seq(CommandLexemes)
<1>1. \A w \in CommandWords : Sign(w) \in CommandLexemes
  BY DEF CommandLexemes
<1>2. Number(1) \in CommandLexemes
  BY DEF CommandLexemes
<1> DEFINE T == CommandLexemes
<1> HIDE DEF T
<1>3. \A e \in T : <<e>> \in Seq(T)
  OBVIOUS
<1>4. <<>> \in Seq(T) /\ \A t, u \in Seq(T) : t \o u \in Seq(T)
  OBVIOUS
<1> QED
  BY <1>1, <1>2, <1>3, <1>4 DEF T, Lit, Dec

LEMMA FirstResources == ResourceForm([NoResources EXCEPT !["p"] = {2}, !["m"] = {Memory(4, "G")}])
<1> DEFINE spec == [NoResources EXCEPT !["p"] = {2}, !["m"] = {Memory(4, "G")}]
<1>1. /\ spec = [k \in ResourceKeys |-> spec[k]]
      /\ \A k \in ResourceKeys : spec[k] = IF k = "m" THEN {Memory(4, "G")} ELSE IF k = "p" THEN {2} ELSE {}
  BY DEF NoResources, ResourceKeys, CpuKeys
<1> HIDE DEF spec
<1>2. 2 \in 1..MaxU32 /\ 4 \in 1..MaxU32
  BY SmallNumbers
<1>3. 2 \in PyValues("p") /\ Memory(4, "G") \in PyValues("m")
  <2>1. "G" \in MemoryUnit
    BY DEF MemoryUnit
  <2>2. "p" # "m"
    OBVIOUS
  <2>3. Memory(4, "G") \in {Memory(n, u) : n \in 1..MaxU32, u \in MemoryUnit}
    BY <1>2, <2>1
  <2> QED
    BY <1>2, <2>2, <2>3 DEF PyValues
<1>4. \A k \in ResourceKeys : spec[k] = {} \/ \E v \in PyValues(k) : spec[k] = {v}
  BY <1>1, <1>3
<1>5. spec["g"] = {}
  BY <1>1 DEF ResourceKeys
<1> QED
  BY <1>1, <1>4, <1>5 DEF ResourceForm, spec

LEMMA NoResourcesFit == ResourceForm(NoResources)
<1>1. NoResources = [k \in ResourceKeys |-> {}] /\ "g" \in ResourceKeys
  BY DEF NoResources, ResourceKeys
<1>2. \A k \in ResourceKeys : NoResources[k] = {}
  BY <1>1
<1>3. NoResources = [k \in ResourceKeys |-> NoResources[k]]
  BY <1>1
<1> QED
  BY <1>1, <1>2, <1>3 DEF ResourceForm

LEMMA FirstSpec ==
    LET spec == [indices |-> <<Stepped(0, 7, 2), Single(9)>>, max_concurrent |-> {2}]
    IN  spec \in PySpecs /\ SpecAccepted(spec)
<1> DEFINE e == Stepped(0, 7, 2)
           f == Single(9)
           list == <<e, f>>
           spec == [indices |-> list, max_concurrent |-> {2}]
<1>1. {0, 2, 7, 9} \subseteq 0..MaxU32
  BY SmallNumbers
<1>2. e \in PyForms /\ f \in PyForms
  <2> DEFINE N == 0..MaxU32
  <2>1. \A i \in N : Single(i) \in PyForms
    BY FormsOfPython
  <2>2. \A a, b, c \in N : Stepped(a, b, c) \in PyForms
    BY FormsOfPython
  <2> HIDE DEF N
  <2> QED
    BY <1>1, <2>1, <2>2 DEF N
<1>3. Accepted(e) /\ Accepted(f)
  BY DEF Accepted, Stepped, Single
<1> HIDE DEF e, f
<1>4. list \in Seq(PyForms) /\ list # <<>> /\ \A i \in DOMAIN list : list[i] = e \/ list[i] = f
  BY <1>2
<1>5. {2} \in {{}} \cup {{n} : n \in 0..MaxU32} /\ {2} # {0}
  BY <1>1
<1> HIDE DEF list
<1>6. spec \in PySpecs /\ SpecAccepted(spec)
  BY <1>3, <1>4, <1>5 DEF PySpecs, SpecAccepted
<1> QED
  BY <1>6 DEF e, f, list

LEMMA FirstDependency ==
    LET d == PyDependency(<<[dep_type |-> "after", job_refs |-> <<JobRef(7, {5})>>],
                            [dep_type |-> "singleton", job_refs |-> <<>>]>>, "Or")
    IN  d \in PyDeps /\ DependencyAccepted(d) /\ CanonicalDependency(d) = d
<1> DEFINE r == JobRef(7, {5})
           rs == <<r>>
           b == [dep_type |-> "after", job_refs |-> rs]
           c == [dep_type |-> "singleton", job_refs |-> <<>>]
           list == <<b, c>>
           d == PyDependency(list, "Or")
<1>1. r \in PyRefs
  <2>1. 5 \in 0..MaxU32 /\ 7 \in 0..MaxU32
    BY SmallNumbers
  <2> QED
    BY <2>1 DEF PyRefs, JobRef
<1> HIDE DEF r
<1>2. rs \in Seq(PyRefs) /\ rs # <<>> /\ <<>> \in Seq(PyRefs)
  BY <1>1
<1> HIDE DEF rs
<1>3. b \in PyClauseForms /\ c \in PyClauseForms
  <2>1. "after" \in DependencyType /\ "singleton" \in DependencyType
    BY DEF DependencyType
  <2> QED
    BY <1>2, <2>1 DEF PyClauseForms
<1>4. ClauseAccepted(b) /\ ClauseAccepted(c)
  BY <1>2 DEF ClauseAccepted, RefAccepted
<1> HIDE DEF b, c
<1>5. /\ list \in Seq(PyClauseForms) /\ list # <<>> /\ Len(list) = 2
      /\ \A i \in DOMAIN list : list[i] = b \/ list[i] = c
  BY <1>3
<1> HIDE DEF list
<1>6. d.clauses = list /\ d \in PyDeps
  BY <1>5 DEF PyDependency, PyDeps
<1> HIDE DEF d
<1>7. DependencyAccepted(d) /\ CanonicalDependency(d) = d
  BY <1>4, <1>5, <1>6 DEF DependencyAccepted, CanonicalDependency
<1> QED
  BY <1>6, <1>7 DEF d, list, b, c, rs, r

LEMMA MailsFit == <<"END", "FAIL">> \in Seq(MailType) /\ <<"END", "FAIL">> # <<>>
BY DEF MailType

LEMMA SignalFits == UsrSignal \in Signals
<1>1. Lit("USR1") \in SignalNames
  BY ValuesAssumption DEF SignalNames
<1>2. {60} \in {{}} \cup {{n} : n \in 1..MaxU16}
  <2>1. 60 \in 1..MaxU16
    BY DEF MaxU16
  <2> QED
    BY <2>1
<1> QED
  BY <1>1, <1>2 DEF Signals, UsrSignal

LEMMA ResourceOptions ==
    Options["rsc"] = <<NoResources, [NoResources EXCEPT !["p"] = {2}, !["m"] = {Memory(4, "G")}]>>
BY DEF Options

\* Each value that an option is given has the form of its option.
LEMMA OptionsFit ==
    /\ DOMAIN Options = TextOptions \cup ValueOptions
    /\ \A o \in DOMAIN Options :
          Len(Options[o]) \in Nat /\ \A i \in 1..Len(Options[o]) : OptionFits(o, Options[o][i])
<1>1. DOMAIN Options = TextOptions \cup ValueOptions
  BY DEF Options, TextOptions, ValueOptions
<1>2. /\ Len(Options["job_name"]) \in Nat
      /\ \A i \in 1..Len(Options["job_name"]) : OptionFits("job_name", Options["job_name"][i])
  <2> DEFINE v1 == Lit("job")
  <2>1. Options["job_name"] = <<v1>>
    BY DEF Options
  <2>2. v1 \in Seq(CommandLexemes)
    BY TextsFit DEF CommandWords
  <2> HIDE DEF v1
  <2>3. OptionFits("job_name", v1)
    BY <2>2 DEF OptionFits, TextOptions
  <2> QED
    BY <2>1, <2>3
<1>3. /\ Len(Options["partition"]) \in Nat
      /\ \A i \in 1..Len(Options["partition"]) : OptionFits("partition", Options["partition"][i])
  <2> DEFINE v1 == Lit("gr1")
  <2>1. Options["partition"] = <<v1>>
    BY DEF Options
  <2>2. v1 \in Seq(CommandLexemes)
    BY TextsFit DEF CommandWords
  <2> HIDE DEF v1
  <2>3. OptionFits("partition", v1)
    BY <2>2 DEF OptionFits, TextOptions
  <2> QED
    BY <2>1, <2>3
<1>4. /\ Len(Options["time_limit"]) \in Nat
      /\ \A i \in 1..Len(Options["time_limit"]) : OptionFits("time_limit", Options["time_limit"][i])
  <2> DEFINE v1 == 90061
  <2>1. Options["time_limit"] = <<v1>>
    BY DEF Options
  <2>2. v1 \in 1..MaxU32
    BY SmallNumbers
  <2> HIDE DEF v1
  <2>3. OptionFits("time_limit", v1)
    BY <2>2 DEF OptionFits, TextOptions
  <2> QED
    BY <2>1, <2>3
<1>5. /\ Len(Options["rsc"]) \in Nat
      /\ \A i \in 1..Len(Options["rsc"]) : OptionFits("rsc", Options["rsc"][i])
  <2> DEFINE v1 == NoResources
  <2> DEFINE v2 == [NoResources EXCEPT !["p"] = {2}, !["m"] = {Memory(4, "G")}]
  <2>1. Options["rsc"] = <<v1, v2>>
    BY DEF Options
  <2>2. ResourceForm(v1) /\ ResourceForm(v2)
    BY NoResourcesFit, FirstResources
  <2> HIDE DEF v1, v2
  <2>3. OptionFits("rsc", v1) /\ OptionFits("rsc", v2)
    BY <2>2 DEF OptionFits, TextOptions
  <2> QED
    BY <2>1, <2>3
<1>6. /\ Len(Options["output"]) \in Nat
      /\ \A i \in 1..Len(Options["output"]) : OptionFits("output", Options["output"][i])
  <2> DEFINE v1 == Lit("%j.out")
  <2>1. Options["output"] = <<v1>>
    BY DEF Options
  <2>2. v1 \in Seq(CommandLexemes)
    BY TextsFit DEF CommandWords
  <2> HIDE DEF v1
  <2>3. OptionFits("output", v1)
    BY <2>2 DEF OptionFits, TextOptions
  <2> QED
    BY <2>1, <2>3
<1>7. /\ Len(Options["error"]) \in Nat
      /\ \A i \in 1..Len(Options["error"]) : OptionFits("error", Options["error"][i])
  <2> DEFINE v1 == Lit("-e")
  <2>1. Options["error"] = <<v1>>
    BY DEF Options
  <2>2. v1 \in Seq(CommandLexemes)
    BY TextsFit DEF CommandWords
  <2> HIDE DEF v1
  <2>3. OptionFits("error", v1)
    BY <2>2 DEF OptionFits, TextOptions
  <2> QED
    BY <2>1, <2>3
<1>8. /\ Len(Options["chdir"]) \in Nat
      /\ \A i \in 1..Len(Options["chdir"]) : OptionFits("chdir", Options["chdir"][i])
  <2> DEFINE v1 == Lit("/") \o Lit("home")
  <2> DEFINE v2 == Lit("runs")
  <2> DEFINE v3 == <<>>
  <2>1. Options["chdir"] = <<v1, v2, v3>>
    BY DEF Options
  <2>2. v1 \in Seq(CommandLexemes) /\ v2 \in Seq(CommandLexemes) /\ v3 \in Seq(CommandLexemes)
    BY TextsFit DEF CommandWords
  <2> HIDE DEF v1, v2, v3
  <2>3. OptionFits("chdir", v1) /\ OptionFits("chdir", v2) /\ OptionFits("chdir", v3)
    BY <2>2 DEF OptionFits, TextOptions
  <2> QED
    BY <2>1, <2>3
<1>9. /\ Len(Options["array_spec"]) \in Nat
      /\ \A i \in 1..Len(Options["array_spec"]) : OptionFits("array_spec", Options["array_spec"][i])
  <2> DEFINE v1 == [indices |-> <<Stepped(0, 7, 2), Single(9)>>, max_concurrent |-> {2}]
  <2>1. Options["array_spec"] = <<v1>>
    BY DEF Options
  <2>2. v1 \in PySpecs /\ SpecAccepted(v1)
    BY FirstSpec
  <2> HIDE DEF v1
  <2>3. OptionFits("array_spec", v1)
    BY <2>2 DEF OptionFits, TextOptions
  <2> QED
    BY <2>1, <2>3
<1>10. /\ Len(Options["dependency"]) \in Nat
      /\ \A i \in 1..Len(Options["dependency"]) : OptionFits("dependency", Options["dependency"][i])
  <2> DEFINE v1 == PyDependency(<<[dep_type |-> "after", job_refs |-> <<JobRef(7, {5})>>],
                        [dep_type |-> "singleton", job_refs |-> <<>>]>>, "Or")
  <2>1. Options["dependency"] = <<v1>>
    BY DEF Options
  <2>2. v1 \in PyDeps /\ DependencyAccepted(v1) /\ CanonicalDependency(v1) = v1
    BY FirstDependency
  <2> HIDE DEF v1
  <2>3. OptionFits("dependency", v1)
    BY <2>2 DEF OptionFits, TextOptions
  <2> QED
    BY <2>1, <2>3
<1>11. /\ Len(Options["mail_user"]) \in Nat
      /\ \A i \in 1..Len(Options["mail_user"]) : OptionFits("mail_user", Options["mail_user"][i])
  <2> DEFINE v1 == Lit("me")
  <2>1. Options["mail_user"] = <<v1>>
    BY DEF Options
  <2>2. v1 \in Seq(CommandLexemes)
    BY TextsFit DEF CommandWords
  <2> HIDE DEF v1
  <2>3. OptionFits("mail_user", v1)
    BY <2>2 DEF OptionFits, TextOptions
  <2> QED
    BY <2>1, <2>3
<1>12. /\ Len(Options["mail_types"]) \in Nat
      /\ \A i \in 1..Len(Options["mail_types"]) : OptionFits("mail_types", Options["mail_types"][i])
  <2> DEFINE v1 == <<"END", "FAIL">>
  <2>1. Options["mail_types"] = <<v1>>
    BY DEF Options
  <2>2. v1 \in Seq(MailType) /\ v1 # <<>>
    BY MailsFit
  <2> HIDE DEF v1
  <2>3. OptionFits("mail_types", v1)
    BY <2>2 DEF OptionFits, TextOptions
  <2> QED
    BY <2>1, <2>3
<1>13. /\ Len(Options["signal"]) \in Nat
      /\ \A i \in 1..Len(Options["signal"]) : OptionFits("signal", Options["signal"][i])
  <2> DEFINE v1 == UsrSignal
  <2>1. Options["signal"] = <<v1>>
    BY DEF Options
  <2>2. v1 \in Signals
    BY SignalFits
  <2> HIDE DEF v1
  <2>3. OptionFits("signal", v1)
    BY <2>2 DEF OptionFits, TextOptions
  <2> QED
    BY <2>1, <2>3
<1>14. /\ Len(Options["comment"]) \in Nat
      /\ \A i \in 1..Len(Options["comment"]) : OptionFits("comment", Options["comment"][i])
  <2> DEFINE v1 == Lit("-J")
  <2> DEFINE v2 == Lit("--nice") \o Lit("=") \o Dec(1)
  <2>1. Options["comment"] = <<v1, v2>>
    BY DEF Options
  <2>2. v1 \in Seq(CommandLexemes) /\ v2 \in Seq(CommandLexemes)
    <3>1. /\ Lit("-J") \in Seq(CommandLexemes) /\ Lit("--nice") \in Seq(CommandLexemes)
          /\ Lit("=") \in Seq(CommandLexemes) /\ Dec(1) \in Seq(CommandLexemes)
      BY TextsFit DEF CommandWords
    <3> QED
      BY <3>1, TextsFit
  <2> HIDE DEF v1, v2
  <2>3. OptionFits("comment", v1) /\ OptionFits("comment", v2)
    BY <2>2 DEF OptionFits, TextOptions
  <2> QED
    BY <2>1, <2>3
<1>15. /\ Len(Options["nice"]) \in Nat
      /\ \A i \in 1..Len(Options["nice"]) : OptionFits("nice", Options["nice"][i])
  <2> DEFINE v1 == -3
  <2> DEFINE v2 == 3
  <2>1. Options["nice"] = <<v1, v2>>
    BY DEF Options
  <2>2. v1 \in Int /\ v2 \in Int
    OBVIOUS
  <2> HIDE DEF v1, v2
  <2>3. OptionFits("nice", v1) /\ OptionFits("nice", v2)
    BY <2>2 DEF OptionFits, TextOptions
  <2> QED
    BY <2>1, <2>3
<1> QED
  BY <1>1, <1>2, <1>3, <1>4, <1>5, <1>6, <1>7, <1>8, <1>9, <1>10, <1>11, <1>12, <1>13, <1>14, <1>15 DEF TextOptions, ValueOptions

\* An option that is set is set to one value of its form.
LEMMA SettingsFit ==
    ASSUME NEW o \in SettingsInUse
    PROVE  /\ DOMAIN o = TextOptions \cup ValueOptions
           /\ \A p \in DOMAIN o : o[p] = {} \/ \E v : o[p] = {v} /\ OptionFits(p, v)
<1>1. PICK S : S \subseteq DOMAIN Options /\ o \in Settings(S)
  BY DEF SettingsInUse
<1>2. PICK pick \in [S -> 1..3] :
          /\ \A p \in S : pick[p] <= Len(Options[p])
          /\ o = [p \in DOMAIN Options |-> IF p \in S THEN {Options[p][pick[p]]} ELSE {}]
  BY <1>1 DEF Settings
<1>3. ASSUME NEW p \in DOMAIN Options
      PROVE  o[p] = {} \/ \E v : o[p] = {v} /\ OptionFits(p, v)
  <2>1. CASE p \in S
    <3> DEFINE v == Options[p][pick[p]]
    <3>1. pick[p] \in 1..3 /\ pick[p] <= Len(Options[p])
      BY <1>2, <2>1
    <3>2. pick[p] \in 1..Len(Options[p])
      BY <3>1, OptionsFit
    <3>3. OptionFits(p, v)
      BY <3>2, OptionsFit
    <3>4. o[p] = {v}
      BY <1>2, <2>1
    <3> QED
      BY <3>3, <3>4
  <2>2. CASE p \notin S
    BY <1>2, <2>2
  <2> QED
    BY <2>1, <2>2
<1>4. DOMAIN o = DOMAIN Options
  BY <1>2
<1> QED
  BY <1>3, <1>4, OptionsFit

LEMMA EnvironmentsFit == Environments \subseteq Seq(Variables(CommandLexemes))
<1> DEFINE T == CommandLexemes
           var(n, v) == [name |-> n, value |-> v]
           V == Variables(T)
<1>1. \A n, v \in Seq(T) : var(n, v) \in V
  BY DEF Variables
<1>2. /\ Lit("A") \in Seq(T) /\ Lit("B") \in Seq(T) /\ Lit("1x") \in Seq(T) /\ Lit("x") \in Seq(T)
      /\ Lit(",") \in Seq(T) /\ Lit("=") \in Seq(T) /\ Lit("y") \in Seq(T) /\ <<>> \in Seq(T)
  BY TextsFit DEF CommandWords
<1>3. \A t, u \in Seq(T) : t \o u \in Seq(T)
  BY TextsFit
<1>4. Environments = {<<>>, <<var(Lit("A"), Lit("1x")), var(Lit("B"), <<>>)>>,
                      <<var(Lit("A"), Lit("x") \o Lit(",") \o Lit("B") \o Lit("=") \o Lit("y"))>>,
                      <<var(Lit("A") \o Lit("=") \o Lit("B"), Lit("x"))>>}
  BY DEF Environments
<1> DEFINE a == var(Lit("A"), Lit("1x"))
           b == var(Lit("B"), <<>>)
           c == var(Lit("A"), Lit("x") \o Lit(",") \o Lit("B") \o Lit("=") \o Lit("y"))
           d == var(Lit("A") \o Lit("=") \o Lit("B"), Lit("x"))
<1> HIDE DEF T, V, var
<1>5. a \in V /\ b \in V
  BY <1>1, <1>2
<1>6. c \in V
  <2>1. Lit("x") \o Lit(",") \in Seq(T)
    BY <1>2, <1>3
  <2>2. Lit("x") \o Lit(",") \o Lit("B") \in Seq(T)
    BY <1>2, <1>3, <2>1
  <2>3. Lit("x") \o Lit(",") \o Lit("B") \o Lit("=") \in Seq(T)
    BY <1>2, <1>3, <2>2
  <2>4. Lit("x") \o Lit(",") \o Lit("B") \o Lit("=") \o Lit("y") \in Seq(T)
    BY <1>2, <1>3, <2>3
  <2> QED
    BY <1>1, <1>2, <2>4
<1>7. d \in V
  <2>1. Lit("A") \o Lit("=") \in Seq(T)
    BY <1>2, <1>3
  <2>2. Lit("A") \o Lit("=") \o Lit("B") \in Seq(T)
    BY <1>2, <1>3, <2>1
  <2> QED
    BY <1>1, <1>2, <2>2
<1>8. Environments = {<<>>, <<a, b>>, <<c>>, <<d>>}
  BY <1>4
<1> HIDE DEF a, b, c, d
<1>9. <<>> \in Seq(V) /\ <<a, b>> \in Seq(V) /\ <<c>> \in Seq(V) /\ <<d>> \in Seq(V)
  BY <1>5, <1>6, <1>7
<1> QED
  BY <1>8, <1>9 DEF V, T

\* What the fields of a command are set to.
FieldsSet(cmd, o, e, b, s, a) ==
    /\ DOMAIN cmd = SbatchFields /\ cmd = [f \in SbatchFields |-> cmd[f]]
    /\ \A p \in TextOptions \cup ValueOptions : cmd[p] = o[p]
    /\ cmd["env"] = e /\ cmd["no_requeue"] = b /\ cmd["script"] = s /\ cmd["args"] = a

LEMMA FieldsWithOptions ==
    ASSUME NEW o, DOMAIN o = TextOptions \cup ValueOptions, NEW e, NEW b, NEW s, NEW a
    PROVE  FieldsSet(WithOptions(o, e, b, s, a), o, e, b, s, a)
<1> DEFINE cmd == WithOptions(o, e, b, s, a)
           extra == {"env", "no_requeue", "script", "args"}
           value(f) == CASE f = "env" -> e [] f = "no_requeue" -> b [] f = "script" -> s [] f = "args" -> a
                         [] f \in DOMAIN o -> o[f]
<1>1. \A p \in TextOptions \cup ValueOptions : p \notin extra
  BY DEF TextOptions, ValueOptions
<1>2. DOMAIN o \cup extra = SbatchFields
  BY DEF SbatchFields
<1>3. cmd = [f \in SbatchFields |-> value(f)]
  BY <1>2 DEF WithOptions
<1>4. "env" \in SbatchFields /\ "no_requeue" \in SbatchFields /\ "script" \in SbatchFields /\ "args" \in SbatchFields
  BY DEF SbatchFields
<1>5. \A p \in TextOptions \cup ValueOptions : p \in SbatchFields
  BY DEF SbatchFields
<1> HIDE DEF cmd, SbatchFields, value
<1>6. DOMAIN cmd = SbatchFields /\ cmd = [f \in SbatchFields |-> cmd[f]]
  BY <1>3
<1>7. cmd["env"] = e /\ cmd["no_requeue"] = b /\ cmd["script"] = s /\ cmd["args"] = a
  <2>1. /\ cmd["env"] = value("env") /\ cmd["no_requeue"] = value("no_requeue")
        /\ cmd["script"] = value("script") /\ cmd["args"] = value("args")
    BY <1>3, <1>4
  <2>2. value("env") = e
    BY <1>1 DEF value, TextOptions, ValueOptions
  <2>3. value("no_requeue") = b
    BY <1>1 DEF value, TextOptions, ValueOptions
  <2>4. value("script") = s
    BY <1>1 DEF value, TextOptions, ValueOptions
  <2>5. value("args") = a
    BY <1>1 DEF value, TextOptions, ValueOptions
  <2> QED
    BY <2>1, <2>2, <2>3, <2>4, <2>5
<1>8. ASSUME NEW p \in TextOptions \cup ValueOptions
      PROVE  cmd[p] = o[p]
  <2>1. p # "env" /\ p # "no_requeue" /\ p # "script" /\ p # "args" /\ p \in DOMAIN o /\ p \in SbatchFields
    BY <1>1, <1>5
  <2>2. value(p) = o[p]
    BY <2>1 DEF value
  <2> QED
    BY <1>3, <2>1, <2>2
<1> QED
  BY <1>6, <1>7, <1>8 DEF cmd, FieldsSet

LEMMA SbatchCommandsFit ==
    ASSUME NEW i \in SbatchCommands
    PROVE  SbatchForm(CommandLexemes, i.cmd) /\ CanBeTold(i.cmd)
<1>1. PICK o \in SettingsInUse, e \in Environments, b \in BOOLEAN, s \in {Lit("run"), <<>>} :
          i = [part |-> "sbatch",
               cmd |-> WithOptions(o, e, b, s, IF b THEN <<Lit("-J"), Lit("x")>> ELSE <<>>)]
  BY DEF SbatchCommands
<1> DEFINE a == IF b THEN <<Lit("-J"), Lit("x")>> ELSE <<>>
           cmd == WithOptions(o, e, b, s, a)
<1>2. i.cmd = cmd
  BY <1>1
<1>3. s \in Seq(CommandLexemes) /\ a \in Seq(Seq(CommandLexemes))
  <2> DEFINE W == Seq(CommandLexemes)
  <2>1. Lit("-J") \in W /\ Lit("x") \in W /\ Lit("run") \in W /\ <<>> \in W
    BY TextsFit DEF CommandWords
  <2> DEFINE j == Lit("-J")
             x == Lit("x")
  <2> HIDE DEF W, j, x
  <2>2. j \in W /\ x \in W
    BY <2>1 DEF j, x
  <2>3. <<j, x>> \in Seq(W) /\ <<>> \in Seq(W)
    BY <2>2
  <2> QED
    BY <2>1, <2>3 DEF W, j, x
<1>4. e \in Seq(Variables(CommandLexemes))
  BY EnvironmentsFit
<1>5. DOMAIN o = TextOptions \cup ValueOptions
  BY SettingsFit
<1> HIDE DEF a
<1>6. /\ cmd = [f \in SbatchFields |-> cmd[f]]
      /\ \A p \in TextOptions \cup ValueOptions : cmd[p] = o[p]
      /\ cmd["env"] = e /\ cmd["no_requeue"] = b /\ cmd["script"] = s /\ cmd["args"] = a
  <2>1. FieldsSet(WithOptions(o, e, b, s, a), o, e, b, s, a)
    BY <1>5, FieldsWithOptions
  <2>2. FieldsSet(cmd, o, e, b, s, a)
    BY <2>1
  <2> HIDE DEF cmd
  <2> QED
    BY <2>2 DEF FieldsSet
<1> HIDE DEF cmd
<1>7. \A p \in TextOptions \cup ValueOptions : cmd[p] = {} \/ \E v : cmd[p] = {v} /\ OptionFits(p, v)
  BY <1>5, <1>6, SettingsFit
<1>8. \A p \in TextOptions \cup ValueOptions : \A v \in cmd[p] : OptionFits(p, v)
  BY <1>7
<1>9. \A f \in TextOptions \cup ValueOptions : \A x, y \in cmd[f] : x = y
  BY <1>7
<1>10. \A f \in TextOptions : cmd[f] \subseteq Seq(CommandLexemes)
  BY <1>8 DEF OptionFits
<1>11. /\ \A v \in cmd["time_limit"] : v \in 1..MaxU32
       /\ \A v \in cmd["rsc"] : ResourceForm(v)
  BY <1>8 DEF OptionFits, ValueOptions
<1>12. /\ \A v \in cmd["array_spec"] : v \in PySpecs /\ SpecAccepted(v)
       /\ \A v \in cmd["dependency"] : v \in PyDeps /\ DependencyAccepted(v) /\ CanonicalDependency(v) = v
  BY <1>8 DEF OptionFits, ValueOptions
<1>13. /\ \A v \in cmd["mail_types"] : v \in Seq(MailType) /\ v # <<>>
       /\ \A v \in cmd["signal"] : v \in Signals
       /\ \A v \in cmd["nice"] : v \in Int
  BY <1>8 DEF OptionFits, ValueOptions
<1>14. CanBeTold(cmd)
  BY <1>12 DEF CanBeTold
<1>15. /\ cmd["time_limit"] \subseteq 1..MaxU32 /\ cmd["array_spec"] \subseteq PySpecs
       /\ cmd["dependency"] \subseteq PyDeps /\ cmd["signal"] \subseteq Signals /\ cmd["nice"] \subseteq Int
  BY <1>11, <1>12, <1>13
<1>16. /\ cmd["env"] \in Seq(Variables(CommandLexemes)) /\ cmd["no_requeue"] \in BOOLEAN
       /\ cmd["script"] \in Seq(CommandLexemes) /\ cmd["args"] \in Seq(Seq(CommandLexemes))
  BY <1>3, <1>4, <1>6
<1>17. SbatchForm(CommandLexemes, cmd)
  BY <1>6, <1>9, <1>10, <1>11, <1>13, <1>15, <1>16 DEF SbatchForm
<1> QED
  BY <1>2, <1>14, <1>17

LEMMA TssrunCommandsFit ==
    ASSUME NEW i \in TssrunCommands
    PROVE  TssrunForm(CommandLexemes, i.cmd)
<1> DEFINE T == CommandLexemes
           specs == {{}} \cup {{Options.rsc[k]} : k \in {1, 2}}
<1>1. PICK p \in {{}, {Lit("gr1")}}, t \in {{}, {60}}, r \in specs, x \in BOOLEAN,
           s \in Programs, a \in Arguments :
          i = [part |-> "tssrun",
               cmd |-> [partition |-> p, time_limit |-> t, rsc |-> r, x11 |-> x, program |-> s, args |-> a]]
  BY DEF TssrunCommands
<1>2. /\ i.cmd.partition = p /\ i.cmd.time_limit = t /\ i.cmd.rsc = r
      /\ i.cmd.x11 = x /\ i.cmd.program = s /\ i.cmd.args = a
  BY <1>1
<1>3. /\ Lit("gr1") \in Seq(T) /\ Lit("run") \in Seq(T) /\ Lit("--x11") \in Seq(T) /\ <<>> \in Seq(T)
      /\ Lit("-J") \in Seq(T) /\ Lit("x") \in Seq(T)
  BY TextsFit DEF CommandWords
<1>4. 60 \in 1..MaxU32
  BY SmallNumbers
<1>5. \A spec \in r : ResourceForm(spec)
  <2>1. Len(Options["rsc"]) = 2
    BY ResourceOptions
  <2>2. ResourceForm(Options.rsc[1]) /\ ResourceForm(Options.rsc[2])
    BY <2>1, ResourceOptions, NoResourcesFit, FirstResources
  <2> QED
    BY <2>2
<1>6. \A v, w \in r : v = w
  OBVIOUS
<1>7. /\ p \subseteq Seq(T)
      /\ \A v, w \in p : v = w
  BY <1>3
<1>8. /\ t \subseteq 1..MaxU32
      /\ \A v, w \in t : v = w
  BY <1>4
<1>9. s \in Seq(T)
  BY <1>3 DEF Programs
<1>10. a \in Seq(Seq(T))
  <2> DEFINE W == Seq(T)
             j == Lit("-J")
             y == Lit("x")
  <2>1. j \in W /\ y \in W
    BY <1>3
  <2>2. a = <<>> \/ a = <<j, y>>
    BY DEF Arguments
  <2> HIDE DEF W, j, y
  <2>3. <<j, y>> \in Seq(W) /\ <<>> \in Seq(W)
    BY <2>1
  <2> QED
    BY <2>2, <2>3 DEF W
<1> HIDE DEF T, specs
<1> QED
  BY <1>2, <1>5, <1>6, <1>7, <1>8, <1>9, <1>10 DEF TssrunForm, T

\* What tssrun makes of a command line is what the command object says, whatever texts
\* its options, its arguments and its program are (tssrun/cmd.rs, build_argv()).
THEOREM TssrunIsSaid ==
    ASSUME NEW T, NEW cmd, TssrunForm(T, cmd)
    PROVE  TssrunSays(cmd)
<1>1. TssrunArgv(cmd) = {} <=> cmd.program = <<>>
  BY TssrunArgvIs
<1>2. ASSUME NEW argv \in TssrunArgv(cmd)
      PROVE  LET line == ReadArgv(argv) IN
             /\ ValueOf(line, "-p") = cmd.partition
             /\ UNION {ParseTimeLimit(t) : t \in ValueOf(line, "-t")} = cmd.time_limit
             /\ {ParseResourceSpec(t) : t \in ValueOf(line, "--rsc")} = {{r} : r \in cmd.rsc \ {NoResources}}
             /\ ValueOf(line, "--x11") # {} <=> cmd.x11
             /\ Head(line.rest) \in Absolutize(cmd.program)
             /\ Tail(line.rest) = cmd.args /\ line.open = {}
  <2> DEFINE line == ReadArgv(argv)
             given == TssrunGives(cmd)
  <2>1. /\ \A f \in TssrunFlags : ValueOf(line, f) = given[f]
        /\ Head(line.rest) \in Absolutize(cmd.program) /\ Tail(line.rest) = cmd.args
        /\ line.open = {}
    BY TssrunReads
  <2> HIDE DEF line, given
  <2>2. /\ ValueOf(line, "-p") = given["-p"] /\ ValueOf(line, "-t") = given["-t"]
        /\ ValueOf(line, "--rsc") = given["--rsc"] /\ ValueOf(line, "--x11") = given["--x11"]
    BY <2>1 DEF TssrunFlags
  <2>3. ValueOf(line, "-p") = cmd.partition
    BY <2>2, TssrunGivesEach DEF given
  <2>4. ValueOf(line, "-t") = TimeWords(cmd.time_limit)
    BY <2>2, TssrunGivesEach DEF given
  <2>5. ValueOf(line, "--rsc") = ResourceWords(cmd.rsc)
    BY <2>2, TssrunGivesEach DEF given
  <2>6. ValueOf(line, "--x11") = IF cmd.x11 THEN {<<>>} ELSE {}
    BY <2>2, TssrunGivesEach DEF given
  <2>7. ValueOf(line, "--x11") # {} <=> cmd.x11
    BY <2>6 DEF TssrunForm
  <2>8. UNION {ParseTimeLimit(t) : t \in ValueOf(line, "-t")} = cmd.time_limit
    <3>1. UNION {ParseTimeLimit(t) : t \in TimeWords(cmd.time_limit)} = cmd.time_limit
      BY LimitsAreRead DEF TssrunForm
    <3> QED
      BY <2>4, <3>1, Zenon
  <2>9. {ParseResourceSpec(t) : t \in ValueOf(line, "--rsc")} = {{r} : r \in cmd.rsc \ {NoResources}}
    <3>1. {ParseResourceSpec(t) : t \in ResourceWords(cmd.rsc)} = {{r} : r \in cmd.rsc \ {NoResources}}
      BY ResourceWordsAreRead DEF TssrunForm
    <3> QED
      BY <2>5, <3>1, Zenon
  <2> QED
    BY <2>1, <2>3, <2>7, <2>8, <2>9, Zenon DEF line
<1> QED
  BY <1>1, <1>2, Zenon DEF TssrunSays

\* What sbatch reads of one command line, if it says what the command object says.
LineSays(cmd, line) ==
    /\ ValueOf(line, "-J") = cmd.job_name /\ ValueOf(line, "-p") = cmd.partition
    /\ ValueOf(line, "-o") = cmd.output /\ ValueOf(line, "-e") = cmd.error
    /\ ValueOf(line, "--mail-user") = cmd.mail_user /\ ValueOf(line, "--comment") = cmd.comment
    /\ UNION {ParseTimeLimit(t) : t \in ValueOf(line, "-t")} = cmd.time_limit
    /\ {ParseResourceSpec(t) : t \in ValueOf(line, "--rsc")} = {{r} : r \in cmd.rsc \ {NoResources}}
    /\ UNION {ParseArraySpec(t) : t \in ValueOf(line, "-a")} = cmd.array_spec
    /\ UNION {ParseDependency(t) : t \in ValueOf(line, "-d")} = cmd.dependency
    /\ UNION {ParseMailTypes(t) : t \in ValueOf(line, "--mail-type")} = cmd.mail_types
    /\ UNION {ParseSignalSpec(t) : t \in ValueOf(line, "--signal")} = cmd.signal
    /\ ValueOf(line, "--nice") = {SignedText(n) : n \in cmd.nice}
    /\ ValueOf(line, "--no-requeue") # {} <=> cmd.no_requeue
    /\ {ExportedIn(t) : t \in ValueOf(line, "--export")} = {cmd.env} \ {<<>>}
    /\ Head(line.rest) \in Absolutize(cmd.script)
    /\ \A p \in cmd.chdir : ValueOf(line, "--chdir") = Absolutize(p)
    /\ Tail(line.rest) = cmd.args /\ line.open = {}

LEMMA SbatchLineSays ==
    ASSUME NEW T, NEW cmd, SbatchForm(T, cmd), CanBeTold(cmd), NEW argv \in SbatchArgv(cmd)
    PROVE  LineSays(cmd, ReadArgv(argv))
<1> DEFINE line == ReadArgv(argv)
           given == SbatchGives(cmd)
<1>1. /\ \A f \in SbatchFlags : ValueOf(line, f) = given[f]
      /\ Head(line.rest) \in Absolutize(cmd.script) /\ Tail(line.rest) = cmd.args
      /\ line.open = {}
  BY SbatchReads
<1>2. /\ \A f \in TextOptions \cup ValueOptions : \A x, y \in cmd[f] : x = y
      /\ cmd.time_limit \subseteq 1..MaxU32 /\ cmd.array_spec \subseteq PySpecs
      /\ cmd.dependency \subseteq PyDeps /\ cmd.signal \subseteq Signals
      /\ \A spec \in cmd.rsc : ResourceForm(spec)
      /\ \A types \in cmd.mail_types : types \in Seq(MailType) /\ types # <<>>
      /\ cmd.env \in Seq(Variables(T)) /\ cmd.no_requeue \in BOOLEAN
  BY DEF SbatchForm
<1>3. /\ \A x, y \in cmd.time_limit : x = y
      /\ \A x, y \in cmd.rsc : x = y
      /\ \A x, y \in cmd.array_spec : x = y
      /\ \A x, y \in cmd.dependency : x = y
      /\ \A x, y \in cmd.mail_types : x = y
      /\ \A x, y \in cmd.signal : x = y
      /\ \A x, y \in cmd.chdir : x = y
  BY <1>2 DEF TextOptions, ValueOptions
<1> HIDE DEF line, given
<1>4. \A f \in {"-J", "-p", "-t", "--rsc", "-o", "-e", "--chdir", "-a", "-d", "--mail-user", "--mail-type",
                "--signal", "--comment", "--export", "--nice", "--no-requeue"} : ValueOf(line, f) = given[f]
  BY <1>1 DEF SbatchFlags, TakesValue, MayTakeValue
<1>5. /\ ValueOf(line, "-J") = cmd.job_name /\ ValueOf(line, "-p") = cmd.partition
      /\ ValueOf(line, "-o") = cmd.output /\ ValueOf(line, "-e") = cmd.error
      /\ ValueOf(line, "--mail-user") = cmd.mail_user /\ ValueOf(line, "--comment") = cmd.comment
  <2>1. /\ given["-J"] = cmd.job_name /\ given["-p"] = cmd.partition
        /\ given["-o"] = cmd.output /\ given["-e"] = cmd.error
        /\ given["--mail-user"] = cmd.mail_user /\ given["--comment"] = cmd.comment
    BY GivesEach DEF given
  <2> QED
    BY <1>4, <2>1
<1>6. UNION {ParseTimeLimit(t) : t \in ValueOf(line, "-t")} = cmd.time_limit
  <2>1. ValueOf(line, "-t") = given["-t"]
    BY <1>4
  <2>2. given["-t"] = TimeWords(cmd.time_limit)
    BY GivesEach DEF given
  <2>3. UNION {ParseTimeLimit(t) : t \in TimeWords(cmd.time_limit)} = cmd.time_limit
    BY <1>2, <1>3, LimitsAreRead
  <2> QED
    BY <2>1, <2>2, <2>3, Zenon
<1>7. {ParseResourceSpec(t) : t \in ValueOf(line, "--rsc")} = {{r} : r \in cmd.rsc \ {NoResources}}
  <2>1. ValueOf(line, "--rsc") = given["--rsc"]
    BY <1>4
  <2>2. given["--rsc"] = ResourceWords(cmd.rsc)
    BY GivesEach DEF given
  <2>3. {ParseResourceSpec(t) : t \in ResourceWords(cmd.rsc)} = {{r} : r \in cmd.rsc \ {NoResources}}
    BY <1>2, <1>3, ResourceWordsAreRead
  <2> QED
    BY <2>1, <2>2, <2>3, Zenon
<1>8. UNION {ParseArraySpec(t) : t \in ValueOf(line, "-a")} = cmd.array_spec
  <2>1. ValueOf(line, "-a") = given["-a"]
    BY <1>4
  <2>2. given["-a"] = {ArrayText(v) : v \in cmd.array_spec}
    BY GivesEach DEF given
  <2>3. UNION {ParseArraySpec(t) : t \in {ArrayText(v) : v \in cmd.array_spec}} = cmd.array_spec
    BY <1>2, <1>3, ArraysAreRead DEF CanBeTold
  <2> QED
    BY <2>1, <2>2, <2>3, Zenon
<1>9. UNION {ParseDependency(t) : t \in ValueOf(line, "-d")} = cmd.dependency
  <2>1. ValueOf(line, "-d") = given["-d"]
    BY <1>4
  <2>2. given["-d"] = {DependencyText(v) : v \in cmd.dependency}
    BY GivesEach DEF given
  <2>3. UNION {ParseDependency(t) : t \in {DependencyText(v) : v \in cmd.dependency}} = cmd.dependency
    BY <1>2, <1>3, DependenciesAreRead DEF CanBeTold
  <2> QED
    BY <2>1, <2>2, <2>3, Zenon
<1>10. UNION {ParseMailTypes(t) : t \in ValueOf(line, "--mail-type")} = cmd.mail_types
  <2>1. ValueOf(line, "--mail-type") = given["--mail-type"]
    BY <1>4
  <2>2. given["--mail-type"] = {MailTypesText(v) : v \in cmd.mail_types}
    BY GivesEach DEF given
  <2>3. UNION {ParseMailTypes(t) : t \in {MailTypesText(v) : v \in cmd.mail_types}} = cmd.mail_types
    BY <1>2, <1>3, MailsAreRead
  <2> QED
    BY <2>1, <2>2, <2>3, Zenon
<1>11. UNION {ParseSignalSpec(t) : t \in ValueOf(line, "--signal")} = cmd.signal
  <2>1. ValueOf(line, "--signal") = given["--signal"]
    BY <1>4
  <2>2. given["--signal"] = {SignalText(v) : v \in cmd.signal}
    BY GivesEach DEF given
  <2>3. UNION {ParseSignalSpec(t) : t \in {SignalText(v) : v \in cmd.signal}} = cmd.signal
    BY <1>2, <1>3, SignalsAreRead
  <2> QED
    BY <2>1, <2>2, <2>3, Zenon
<1>12. ValueOf(line, "--nice") = {SignedText(n) : n \in cmd.nice}
  <2>1. ValueOf(line, "--nice") = given["--nice"]
    BY <1>4
  <2>2. given["--nice"] = {SignedText(n) : n \in cmd.nice}
    BY GivesEach DEF given
  <2> QED
    BY <2>1, <2>2, Zenon
<1>13. ValueOf(line, "--no-requeue") # {} <=> cmd.no_requeue
  <2>1. ValueOf(line, "--no-requeue") = given["--no-requeue"]
    BY <1>4
  <2>2. given["--no-requeue"] = IF cmd.no_requeue THEN {<<>>} ELSE {}
    BY GivesEach DEF given
  <2> QED
    BY <1>2, <2>1, <2>2
<1>14. {ExportedIn(t) : t \in ValueOf(line, "--export")} = {cmd.env} \ {<<>>}
  <2>1. ValueOf(line, "--export") = given["--export"]
    BY <1>4
  <2>2. given["--export"] = IF cmd.env = <<>> THEN {} ELSE {RenderExport(cmd.env)}
    BY GivesEach DEF given
  <2>3. Exportable(cmd.env)
    BY SbatchReads
  <2>4. {ExportedIn(t) : t \in IF cmd.env = <<>> THEN {} ELSE {RenderExport(cmd.env)}} = {cmd.env} \ {<<>>}
    BY <1>2, <2>3, ExportsAreRead
  <2> QED
    BY <2>1, <2>2, <2>4, Zenon
<1>15. \A p \in cmd.chdir : ValueOf(line, "--chdir") = Absolutize(p)
  <2> TAKE p \in cmd.chdir
  <2>1. ValueOf(line, "--chdir") = given["--chdir"]
    BY <1>4
  <2>2. given["--chdir"] = UNION {Absolutize(q) : q \in cmd.chdir}
    BY GivesEach DEF given
  <2>3. cmd.chdir = {p}
    BY <1>3
  <2>4. UNION {Absolutize(q) : q \in {p}} = Absolutize(p)
    BY Zenon
  <2> QED
    BY <2>1, <2>2, <2>3, <2>4, Zenon
<1>16. LineSays(cmd, line)
  BY <1>1, <1>5, <1>6, <1>7, <1>8, <1>9, <1>10, <1>11, <1>12, <1>13, <1>14, <1>15, Zenon DEF LineSays
<1> QED
  BY <1>16 DEF line

\* What sbatch makes of a command line is what the command object says, whatever texts its
\* options, its arguments, its variables and its script are, and however many of them
\* there are; there is no command line if a variable cannot be listed, or the script or the
\* directory has no name (sbatch/cmd.rs, build_argv()).  And Python builds the object
\* from the texts of its limit and resources (py_export/sbatch.rs).
THEOREM SbatchIsSaid ==
    ASSUME NEW T, NEW cmd, SbatchForm(T, cmd), CanBeTold(cmd)
    PROVE  SbatchSays(cmd)
<1> DEFINE held == \E v \in ToSet(cmd.env) :
                      (ToSet(v.name) \cup ToSet(v.value)) \cap {Sign(","), Sign("=")} # {}
<1>1. SbatchArgv(cmd) = {} <=> \/ cmd.script = <<>> \/ ~Exportable(cmd.env) \/ cmd.chdir = {<<>>}
  BY SbatchArgvIs
<1>2. ~Exportable(cmd.env) <=> held
  <2>1. cmd.env \in Seq(Variables(T))
    BY DEF SbatchForm
  <2> QED
    BY DEF Exportable, Separators, ToSet
<1>3. SbatchArgv(cmd) = {} <=> \/ cmd.script = <<>> \/ cmd.chdir = {<<>>} \/ held
  BY <1>1, <1>2, Zenon
<1>4. PySbatchCmd([cmd EXCEPT !.time_limit = TimeWords(@), !.rsc = {ResourceText(r) : r \in @}]) =
          {cmd} \ {c \in {cmd} : c.rsc = {NoResources}}
  BY PythonBuildsIt
<1> DEFINE texts == {"-J", "-p", "-o", "-e", "--mail-user", "--comment"}
<1>5. ASSUME NEW argv \in SbatchArgv(cmd)
      PROVE  LET line == ReadArgv(argv)
             IN  [f \in texts |-> ValueOf(line, f)] =
                     [f \in texts |->
                         CASE f = "-J" -> cmd.job_name [] f = "-p" -> cmd.partition
                           [] f = "-o" -> cmd.output [] f = "-e" -> cmd.error
                           [] f = "--mail-user" -> cmd.mail_user [] f = "--comment" -> cmd.comment]
  <2> DEFINE line == ReadArgv(argv)
             said(f) == CASE f = "-J" -> cmd.job_name [] f = "-p" -> cmd.partition
                          [] f = "-o" -> cmd.output [] f = "-e" -> cmd.error
                          [] f = "--mail-user" -> cmd.mail_user [] f = "--comment" -> cmd.comment
  <2>1. LineSays(cmd, line)
    BY SbatchLineSays
  <2> HIDE DEF line
  <2>2. /\ ValueOf(line, "-J") = cmd.job_name /\ ValueOf(line, "-p") = cmd.partition
        /\ ValueOf(line, "-o") = cmd.output /\ ValueOf(line, "-e") = cmd.error
        /\ ValueOf(line, "--mail-user") = cmd.mail_user /\ ValueOf(line, "--comment") = cmd.comment
    BY <2>1, Zenon DEF LineSays
  <2>3. \A f \in texts : ValueOf(line, f) = said(f)
    BY <2>2
  <2> HIDE DEF said, texts
  <2>4. [f \in texts |-> ValueOf(line, f)] = [f \in texts |-> said(f)]
    BY <2>3
  <2> QED
    BY <2>4 DEF line, said
<1>6. \A argv \in SbatchArgv(cmd) : LineSays(cmd, ReadArgv(argv))
  BY SbatchLineSays
<1> QED
  BY <1>3, <1>4, <1>5, <1>6, Zenon DEF SbatchSays, LineSays

\* What a command that is looked at is.
CommandInv ==
    /\ "part" \in DOMAIN input
    /\ input.part = "sbatch" => SbatchForm(CommandLexemes, input.cmd) /\ CanBeTold(input.cmd)
    /\ input.part = "tssrun" => TssrunForm(CommandLexemes, input.cmd)

LEMMA CommandInvInit == Init => CommandInv
<1>1. ASSUME input \in SbatchCommands
      PROVE  SbatchForm(CommandLexemes, input.cmd) /\ CanBeTold(input.cmd)
  BY <1>1, SbatchCommandsFit
<1>2. ASSUME input \in TssrunCommands
      PROVE  TssrunForm(CommandLexemes, input.cmd)
  BY <1>2, TssrunCommandsFit
<1> QED
  BY <1>1, <1>2, PartsOfInit DEF CommandInv, InitParts

\* A command that is looked at stays as it is.
LEMMA CommandInvNext == CommandInv /\ [Next]_input => CommandInv'
<1> SUFFICES ASSUME CommandInv, [Next]_input
             PROVE  CommandInv'
  OBVIOUS
<1>1. CASE Apart
  <2>1. input.part # "sbatch" /\ input.part # "tssrun"
    <3>1. CASE Type
      BY <3>1 DEF Type
    <3>2. CASE Configure
      BY <3>2 DEF Configure
    <3>3. CASE LogSteps
      BY <3>3 DEF LogSteps, LogIsRead, LogGrows, LogIsCut, BeingRead
    <3> QED
      BY <1>1, <3>1, <3>2, <3>3 DEF Apart
  <2> QED
    BY <1>1, <2>1, PartsStay DEF CommandInv
<1>2. CASE StoreSaves
  <2>1. input.part = "store" /\ DOMAIN input' = DOMAIN input /\ input'.part = input.part
    BY <1>2, Zenon DEF StoreSaves, CommandInv
  <2> QED
    BY <2>1 DEF CommandInv
<1>3. CASE StoreDeletes
  <2>1. input.part = "store" /\ DOMAIN input' = DOMAIN input /\ input'.part = input.part
    BY <1>3, Zenon DEF StoreDeletes, CommandInv
  <2> QED
    BY <2>1 DEF CommandInv
<1>4. CASE SinkSteps
  <2>1. input.part = "sink" /\ "part" \in DOMAIN input' /\ input'.part = input.part
    BY <1>4 DEF SinkSteps, CommandInv
  <2> QED
    BY <2>1 DEF CommandInv
<1>5. CASE UNCHANGED input
  BY <1>5 DEF CommandInv
<1> QED
  BY <1>1, <1>2, <1>3, <1>4, <1>5 DEF Next, Apart, LogSteps

\* What sbatch and tssrun make of their command line is what the command object says, and
\* every value with a form of its own is read as it was written (sbatch/cmd.rs and
\* tssrun/cmd.rs, build_argv()): for options, arguments and variables of any texts, those
\* that look like options included, because a flag takes the next word whatever it is and
\* the script, being absolute, is no option.
THEOREM CommandsSayTheirOptions == Spec => []CommandSaysItsOptions
<1>1. CommandInv => CommandSaysItsOptions
  BY SbatchIsSaid, TssrunIsSaid DEF CommandInv, CommandSaysItsOptions
<1> QED
  BY <1>1, CommandInvInit, CommandInvNext, PTL DEF Spec

-----------------------------------------------------------------------------
(* What is made of the end of a command. *)

\* The lexeme that str::trim() takes away, and the one between a job and its task.
Space == Sign(" ")
Low == Sign("_")

\* A text of n lexemes.
Spelled(t, n) == Len(t) = n /\ \E T : t \in Seq(T)

\* What a text is without the space around it: what there is from a to b.
LEMMA TrimIs ==
    ASSUME NEW t, NEW n \in Nat, Spelled(t, n), NEW a \in 1..n, NEW b \in a..n,
           t[a] # Space, t[b] # Space,
           \A i \in 1..n : t[i] # Space => a <= i /\ i <= b
    PROVE  /\ Trim(t) = SubSeq(t, a, b)
           /\ Len(Trim(t)) = b - a + 1
           /\ \A i \in 1..(b - a + 1) : Trim(t)[i] = t[a + i - 1]
<1> DEFINE solid == {i \in 1..n : t[i] # Space}
<1>1. PICK T : t \in Seq(T)
  BY DEF Spelled
<1>2. Len(t) = n /\ DOMAIN t = 1..n /\ \A i \in 1..n : t[i] \in T
  BY <1>1, LenProperties, ElementOfSeq DEF Spelled
<1>3. Trim(t) = IF solid = {} THEN <<>> ELSE SubSeq(t, Min(solid), Max(solid))
  <2>1. DOMAIN t = 1..n
    BY <1>2
  <2> QED
    BY <2>1, Zenon DEF Trim, Space
<1>4. a \in solid /\ b \in solid /\ \A i \in solid : i \in 1..n /\ a <= i /\ i <= b
  OBVIOUS
<1> HIDE DEF solid
<1>5. Min(solid) = a
  <2>1. \A x \in solid : (\A y \in solid : x <= y) => x = a
    BY <1>4
  <2>2. \A y \in solid : a <= y
    BY <1>4
  <2> QED
    BY <1>4, <2>1, <2>2 DEF Min
<1>6. Max(solid) = b
  <2>1. \A x \in solid : (\A y \in solid : x >= y) => x = b
    BY <1>4
  <2>2. \A y \in solid : b >= y
    BY <1>4
  <2> QED
    BY <1>4, <2>1, <2>2 DEF Max
<1>7. Trim(t) = SubSeq(t, a, b)
  BY <1>3, <1>4, <1>5, <1>6
<1>8. \A i \in a..b : t[i] \in T
  BY <1>2
<1> QED
  BY <1>1, <1>2, <1>7, <1>8, SubSeqProperties

\* The number that a line of sbatch says, for the code and for its reader.
IdOf(line) ==
    LET words == Trim(line)
    IN  IF Len(words) > 1 /\ Head(words) = Submitted THEN U64(<<words[2]>>) ELSE {}
SaidIn(line) ==
    {n \in {5, 6} : \E k \in 1..(Len(line) - 1) : line[k] = Submitted /\ line[k + 1] = Number(n)}

LEMMA LexemesOfLines ==
    /\ Submitted # Space /\ \A n : Number(n) # Space /\ Number(n) # Submitted
    /\ \A n : Number(n) # Low /\ Number(n) # Sign("x")
    /\ Sign("warning") # Space /\ Sign("x") # Space /\ Low # Submitted /\ Sign("x") # Submitted
    /\ \A n, m : Number(n) = Number(m) => n = m
<1> DEFINE s == "Submitted batch job "
           d == "number"
           e == " "
           l == "_"
<1>1. \A v, w : Sign(v) = Sign(w) => v = w
  BY DEF Sign
<1>2. \A n, w : Number(n) = Sign(w) => d = w
  BY DEF Sign, Number
<1>3. \A n, m : Number(n) = Number(m) => n = m
  BY DEF Number
<1>4. /\ s # e /\ d # s /\ d # e /\ d # l /\ d # "x" /\ l # s /\ "x" # s
      /\ "warning" # e /\ "x" # e
  OBVIOUS
<1>5. Submitted = Sign(s) /\ Space = Sign(e) /\ Low = Sign(l)
  BY DEF Submitted, Space, Low
<1> HIDE DEF s, d, e, l
<1> QED
  BY <1>1, <1>2, <1>3, <1>4, <1>5

\* What a number reads as.
LEMMA NumberFits ==
    ASSUME NEW n \in Nat
    PROVE  /\ n <= MaxU64 => U64(<<Number(n)>>) = {n}
           /\ n > MaxU64 => U64(<<Number(n)>>) = {}
<1>1. MaxU64 \in Nat
  BY TextAssumption
<1>2. ASSUME n <= MaxU64
      PROVE  U64(<<Number(n)>>) = {n}
  <2>1. n \in 0..MaxU64
    BY <1>1, <1>2
  <2> QED
    BY <2>1, DecIsRead, Zenon DEF U64, Dec
<1>3. ASSUME n > MaxU64
      PROVE  U64(<<Number(n)>>) = {}
  <2> DEFINE t == <<Number(n)>>
  <2>1. DOMAIN t = {1} /\ t[1].of = n
    BY DEF Number
  <2>2. \A i \in DOMAIN t : t[i].of = n
    BY <2>1
  <2>3. n \notin 0..MaxU64
    BY <1>1, <1>3
  <2> HIDE DEF t
  <2>4. U64(t) = {}
    BY <2>2, <2>3 DEF U64, ParseUnsigned
  <2> QED
    BY <2>4 DEF t
<1> QED
  BY <1>2, <1>3

LEMMA WordIsNoNumber == U64(<<Sign("x")>>) = {}
<1> DEFINE t == <<Sign("x")>>
<1>1. DOMAIN t = {1} /\ t[1] = Sign("x") /\ Len(t) = 1
  OBVIOUS
<1>2. \A n : t # Dec(n)
  BY <1>1, LexemesOfLines DEF Dec
<1>3. \A n : t # Lit("+") \o Dec(n)
  <2>1. \A n : Lit("+") \o Dec(n) = <<Sign("+"), Number(n)>>
    BY OneAndOne, Zenon DEF Lit, Dec
  <2>2. \A n : Len(<<Sign("+"), Number(n)>>) = 2
    OBVIOUS
  <2> HIDE DEF t
  <2> QED
    BY <1>1, <2>1, <2>2
<1> HIDE DEF t
<1>4. U64(t) = {}
  BY <1>2, <1>3 DEF U64, ParseUnsigned
<1> QED
  BY <1>4 DEF t

LEMMA OneBehind ==
    ASSUME NEW T, NEW s \in Seq(T), NEW u \in Seq(T), Len(u) = 1
    PROVE  /\ s \o u \in Seq(T) /\ Len(s \o u) = Len(s) + 1
           /\ (s \o u)[Len(s) + 1] = u[1]
           /\ \A i \in 1..Len(s) : (s \o u)[i] = s[i]
<1> DEFINE m == Len(s)
           n == Len(u)
           t == s \o u
<1>1. /\ m \in Nat /\ n = 1 /\ t \in Seq(T) /\ Len(t) = m + n
      /\ \A i \in 1..(m + n) : t[i] = IF i <= m THEN s[i] ELSE u[i - m]
  BY ConcatProperties, LenProperties
<1> HIDE DEF m, n, t
<1>2. t[m + 1] = u[1]
  <2>1. m + 1 \in 1..(m + n) /\ ~(m + 1 <= m) /\ (m + 1) - m = 1
    BY <1>1
  <2> QED
    BY <1>1, <2>1
<1>3. \A i \in 1..m : t[i] = s[i]
  BY <1>1
<1>4. Len(t) = m + 1
  BY <1>1
<1> QED
  BY <1>1, <1>2, <1>3, <1>4 DEF m, n, t

\* The lexemes of short texts.
LEMMA OneText ==
    ASSUME NEW x
    PROVE  Spelled(<<x>>, 1) /\ <<x>>[1] = x
<1> DEFINE t == <<x>>
<1>1. t \in Seq({x}) /\ Len(t) = 1 /\ t[1] = x
  OBVIOUS
<1> HIDE DEF t
<1> QED
  BY <1>1 DEF Spelled, t

\* A text with a lexeme behind it.
Longer(v, t, n, m, x) == Spelled(v, m) /\ v[m] = x /\ \A i \in 1..n : v[i] = t[i]

LEMMA LongerText ==
    ASSUME NEW t, NEW n \in Nat, Spelled(t, n), NEW m, m = n + 1, NEW x
    PROVE  Longer(t \o <<x>>, t, n, m, x)
<1> DEFINE u == <<x>>
           v == t \o u
<1>1. PICK S : t \in Seq(S)
  BY DEF Spelled
<1> DEFINE T == S \cup {x}
<1>2. t \in Seq(T) /\ u \in Seq(T) /\ Len(u) = 1 /\ u[1] = x /\ Len(t) = n
  <2>1. u \in Seq({x}) /\ Len(u) = 1 /\ u[1] = x
    OBVIOUS
  <2> HIDE DEF u
  <2> QED
    BY <1>1, <2>1, LexemesIn DEF Spelled
<1> HIDE DEF T, u
<1>3. /\ t \o u \in Seq(T) /\ Len(t \o u) = Len(t) + 1
      /\ (t \o u)[Len(t) + 1] = u[1]
      /\ \A i \in 1..Len(t) : (t \o u)[i] = t[i]
  BY <1>2, OneBehind, Zenon
<1> HIDE DEF v
<1>4. Longer(v, t, n, m, x)
  BY <1>2, <1>3 DEF Spelled, Longer, v
<1> QED
  BY <1>4, Zenon DEF v, u

LEMMA TwoText ==
    ASSUME NEW x, NEW y
    PROVE  LET t == <<x>> \o <<y>>
           IN  Spelled(t, 2) /\ t[1] = x /\ t[2] = y
<1> DEFINE s == <<x>>
           t == s \o <<y>>
<1>1. Spelled(s, 1) /\ s[1] = x
  BY OneText
<1> HIDE DEF s
<1>2. Longer(t, s, 1, 2, y)
  <2>1. 1 \in Nat /\ 2 = 1 + 1
    OBVIOUS
  <2> QED
    BY <1>1, <2>1, LongerText, Zenon
<1> HIDE DEF t
<1>3. Spelled(t, 2) /\ t[2] = y /\ \A i \in 1..1 : t[i] = s[i]
  BY <1>2 DEF Longer
<1>4. Spelled(t, 2) /\ t[1] = x /\ t[2] = y
  BY <1>1, <1>3
<1> QED
  BY <1>4, Zenon DEF t, s

LEMMA ThreeText ==
    ASSUME NEW x, NEW y, NEW z
    PROVE  LET t == <<x>> \o <<y>> \o <<z>>
           IN  Spelled(t, 3) /\ t[1] = x /\ t[2] = y /\ t[3] = z
<1> DEFINE s == <<x>> \o <<y>>
           t == s \o <<z>>
<1>1. Spelled(s, 2) /\ s[1] = x /\ s[2] = y
  BY TwoText
<1> HIDE DEF s
<1>2. Longer(t, s, 2, 3, z)
  <2>1. 2 \in Nat /\ 3 = 2 + 1
    OBVIOUS
  <2> QED
    BY <1>1, <2>1, LongerText, Zenon
<1> HIDE DEF t
<1>3. Spelled(t, 3) /\ t[3] = z /\ \A i \in 1..2 : t[i] = s[i]
  BY <1>2 DEF Longer
<1>4. Spelled(t, 3) /\ t[1] = x /\ t[2] = y /\ t[3] = z
  BY <1>1, <1>3
<1> QED
  BY <1>4, Zenon DEF t, s

LEMMA FourText ==
    ASSUME NEW x, NEW y, NEW z, NEW w
    PROVE  LET t == <<x>> \o <<y>> \o <<z>> \o <<w>>
           IN  Spelled(t, 4) /\ t[1] = x /\ t[2] = y /\ t[3] = z /\ t[4] = w
<1> DEFINE s == <<x>> \o <<y>> \o <<z>>
           t == s \o <<w>>
<1>1. Spelled(s, 3) /\ s[1] = x /\ s[2] = y /\ s[3] = z
  BY ThreeText
<1> HIDE DEF s
<1>2. Longer(t, s, 3, 4, w)
  <2>1. 3 \in Nat /\ 4 = 3 + 1
    OBVIOUS
  <2> QED
    BY <1>1, <2>1, LongerText, Zenon
<1> HIDE DEF t
<1>3. Spelled(t, 4) /\ t[4] = w /\ \A i \in 1..3 : t[i] = s[i]
  BY <1>2 DEF Longer
<1>4. Spelled(t, 4) /\ t[1] = x /\ t[2] = y /\ t[3] = z /\ t[4] = w
  BY <1>1, <1>3
<1> QED
  BY <1>4, Zenon DEF t, s

\* A line with a number behind the words of sbatch, and one without them.
LEMMA NumberIsRead ==
    ASSUME NEW t, NEW n \in Nat, Spelled(t, n), NEW a \in 1..n, a < n,
           t[a] = Submitted, t[n] # Space, \A i \in 1..n : i < a => t[i] = Space
    PROVE  IdOf(t) = U64(<<t[a + 1]>>)
<1>0. n \in a..n
  OBVIOUS
<1>1. t[a] # Space
  BY LexemesOfLines, Zenon
<1>2. \A i \in 1..n : t[i] # Space => a <= i /\ i <= n
  OBVIOUS
<1>3. /\ Len(Trim(t)) = n - a + 1
      /\ \A i \in 1..(n - a + 1) : Trim(t)[i] = t[a + i - 1]
  BY <1>0, <1>1, <1>2, TrimIs
<1>4. Len(Trim(t)) > 1 /\ Trim(t)[1] = t[a] /\ Trim(t)[2] = t[a + 1]
  <2>1. 1 \in 1..(n - a + 1) /\ 2 \in 1..(n - a + 1) /\ a + 1 - 1 = a /\ a + 2 - 1 = a + 1
    OBVIOUS
  <2> QED
    BY <1>3, <2>1
<1>5. Head(Trim(t)) = Trim(t)[1]
  OBVIOUS
<1> QED
  BY <1>4, <1>5, Zenon DEF IdOf

LEMMA NoNumberIsRead ==
    ASSUME NEW x, x # Space
    PROVE  IdOf(<<x>>) = {}
<1> DEFINE t == <<x>>
<1>1. Spelled(t, 1) /\ t[1] = x
  BY OneText
<1> HIDE DEF t
<1>2. Len(Trim(t)) = 1 - 1 + 1
  <2>1. /\ 1 \in Nat /\ 1 \in 1..1 /\ t[1] # Space
        /\ \A i \in 1..1 : t[i] # Space => 1 <= i /\ i <= 1
    BY <1>1
  <2> QED
    BY <1>1, <2>1, TrimIs
<1>3. ~(Len(Trim(t)) > 1)
  BY <1>2
<1> QED
  BY <1>3, Zenon DEF IdOf, t

LEMMA SaidIs ==
    ASSUME NEW t, NEW n \in Nat, Spelled(t, n), NEW a \in 1..n, a < n, t[a] = Submitted,
           \A i \in 1..n : i # a => t[i] # Submitted
    PROVE  \A m : m \in SaidIn(t) <=> m \in {5, 6} /\ t[a + 1] = Number(m)
BY DEF SaidIn, Spelled

\* The lines that sbatch may print here are read as they say.
LEMMA LinesAreRead ==
    ASSUME NEW line \in SubmitLines
    PROVE  /\ IdOf(line) = SaidIn(line)
           /\ \A n \in SaidIn(line) : Number(n) \in ToSet(line)
<1> DEFINE l1 == <<Sign("warning")>>
           l2 == <<Space>> \o <<Submitted>> \o <<Number(5)>>
           l3 == <<Submitted>> \o <<Number(6)>> \o <<Low>> \o <<Number(0)>>
           l4 == <<Submitted>> \o <<Number(MaxU64 + 1)>>
           l5 == <<Submitted>> \o <<Sign("x")>>
<1>1. line \in {l1, l2, l3, l4, l5}
  BY Zenon DEF SubmitLines, Lit, Dec, Space, Low
<1>2. MaxU64 \in Nat /\ 6 <= MaxU64
  BY TextAssumption, SmallNumbers
<1>3. CASE line = l1
  <2>1. Spelled(line, 1) /\ line[1] = Sign("warning")
    BY <1>3, OneText
  <2>2. IdOf(line) = {}
    BY <1>3, NoNumberIsRead, LexemesOfLines
  <2>3. SaidIn(line) = {}
    BY <2>1 DEF SaidIn, Spelled
  <2> QED
    BY <2>2, <2>3
<1>4. CASE line = l2
  <2>1. Spelled(line, 3) /\ line[1] = Space /\ line[2] = Submitted /\ line[3] = Number(5)
    BY <1>4, ThreeText
  <2> HIDE DEF l2
  <2>2. \A i \in 1..3 : i = 1 \/ i = 2 \/ i = 3
    OBVIOUS
  <2>3. IdOf(line) = U64(<<line[2 + 1]>>)
    BY <2>1, <2>2, LexemesOfLines, NumberIsRead
  <2>4. IdOf(line) = {5}
    BY <1>2, <2>1, <2>3, NumberFits
  <2>5. SaidIn(line) = {5}
    <3>1. \A m : m \in SaidIn(line) <=> m \in {5, 6} /\ line[2 + 1] = Number(m)
      <4>1. \A i \in 1..3 : i # 2 => line[i] # Submitted
        BY <2>1, LexemesOfLines
      <4>2. 3 \in Nat /\ 2 \in 1..3 /\ 2 < 3
        OBVIOUS
      <4> QED
        BY <2>1, <4>1, <4>2, SaidIs
    <3> QED
      BY <2>1, <3>1, LexemesOfLines
  <2>6. Number(5) \in ToSet(line)
    <3>1. 3 \in DOMAIN line
      BY <2>1, LenProperties DEF Spelled
    <3> QED
      BY <2>1, <3>1 DEF ToSet
  <2> QED
    BY <2>4, <2>5, <2>6
<1>5. CASE line = l3
  <2>1. /\ Spelled(line, 4) /\ line[1] = Submitted /\ line[2] = Number(6) /\ line[3] = Low
        /\ line[4] = Number(0)
    BY <1>5, FourText
  <2> HIDE DEF l3
  <2>3. IdOf(line) = U64(<<line[1 + 1]>>)
    BY <2>1, LexemesOfLines, NumberIsRead
  <2>4. IdOf(line) = {6}
    BY <1>2, <2>1, <2>3, NumberFits
  <2>5. SaidIn(line) = {6}
    <3>1. \A m : m \in SaidIn(line) <=> m \in {5, 6} /\ line[1 + 1] = Number(m)
      <4>1. \A i \in 1..4 : i # 1 => line[i] # Submitted
        BY <2>1, LexemesOfLines
      <4>2. 4 \in Nat /\ 1 \in 1..4 /\ 1 < 4
        OBVIOUS
      <4> QED
        BY <2>1, <4>1, <4>2, SaidIs
    <3> QED
      BY <2>1, <3>1, LexemesOfLines
  <2>6. Number(6) \in ToSet(line)
    <3>1. 2 \in DOMAIN line
      BY <2>1, LenProperties DEF Spelled
    <3> QED
      BY <2>1, <3>1 DEF ToSet
  <2> QED
    BY <2>4, <2>5, <2>6
<1>6. CASE line = l4
  <2>1. Spelled(line, 2) /\ line[1] = Submitted /\ line[2] = Number(MaxU64 + 1)
    BY <1>6, TwoText
  <2> HIDE DEF l4
  <2>3. IdOf(line) = U64(<<line[1 + 1]>>)
    BY <2>1, LexemesOfLines, NumberIsRead
  <2>4. IdOf(line) = {}
    BY <1>2, <2>1, <2>3, NumberFits
  <2>5. SaidIn(line) = {}
    <3>1. \A m : m \in SaidIn(line) <=> m \in {5, 6} /\ line[1 + 1] = Number(m)
      <4>1. \A i \in 1..2 : i # 1 => line[i] # Submitted
        BY <2>1, LexemesOfLines
      <4>2. 2 \in Nat /\ 1 \in 1..2 /\ 1 < 2
        OBVIOUS
      <4> QED
        BY <2>1, <4>1, <4>2, SaidIs
    <3>2. MaxU64 + 1 # 5 /\ MaxU64 + 1 # 6
      BY <1>2
    <3> QED
      BY <2>1, <3>1, <3>2, LexemesOfLines
  <2> QED
    BY <2>4, <2>5
<1>7. CASE line = l5
  <2>1. Spelled(line, 2) /\ line[1] = Submitted /\ line[2] = Sign("x")
    BY <1>7, TwoText
  <2> HIDE DEF l5
  <2>3. IdOf(line) = U64(<<line[1 + 1]>>)
    BY <2>1, LexemesOfLines, NumberIsRead
  <2>4. IdOf(line) = {}
    BY <2>1, <2>3, WordIsNoNumber
  <2>5. SaidIn(line) = {}
    <3>1. \A m : m \in SaidIn(line) <=> m \in {5, 6} /\ line[1 + 1] = Number(m)
      <4>1. \A i \in 1..2 : i # 1 => line[i] # Submitted
        BY <2>1, LexemesOfLines
      <4>2. 2 \in Nat /\ 1 \in 1..2 /\ 1 < 2
        OBVIOUS
      <4> QED
        BY <2>1, <4>1, <4>2, SaidIs
    <3> QED
      BY <2>1, <3>1, LexemesOfLines
  <2> QED
    BY <2>4, <2>5
<1> QED
  BY <1>1, <1>3, <1>4, <1>5, <1>6, <1>7

\* The jobs that are announced, as the code reads them: the first of them is taken, and
\* none only if there is none.
TellsJobs(stdout) ==
    /\ SubmittedJobid(stdout) \subseteq Announced(stdout)
    /\ SubmittedJobid(stdout) = {} => Announced(stdout) = {}
    /\ \A n \in Announced(stdout) : \E line \in ToSet(stdout) : Number(n) \in ToSet(line)

LEMMA JobsAreTold ==
    ASSUME NEW stdout \in Seq(SubmitLines)
    PROVE  TellsJobs(stdout)
<1> DEFINE said == {i \in DOMAIN stdout : IdOf(stdout[i]) # {}}
<1>1. \A i \in DOMAIN stdout : stdout[i] \in SubmitLines /\ i \in Nat
  BY ElementOfSeq, LenProperties
<1>2. SubmittedJobid(stdout) = IF said = {} THEN {} ELSE IdOf(stdout[Min(said)])
  BY DEF SubmittedJobid, IdOf
<1>3. \A n : n \in Announced(stdout) <=> \E i \in DOMAIN stdout : n \in SaidIn(stdout[i])
  BY DEF Announced, SaidIn
<1>4. \A i \in DOMAIN stdout :
          /\ IdOf(stdout[i]) = SaidIn(stdout[i])
          /\ \A n \in SaidIn(stdout[i]) : Number(n) \in ToSet(stdout[i])
  BY <1>1, LinesAreRead
<1>5. said # {} => Min(said) \in DOMAIN stdout /\ IdOf(stdout[Min(said)]) # {}
  <2>1. said \subseteq Nat /\ IsFiniteSet(said)
    <3>1. DOMAIN stdout = 1..Len(stdout) /\ Len(stdout) \in Nat
      BY LenProperties
    <3>2. IsFiniteSet(DOMAIN stdout)
      BY <3>1, FS_Interval
    <3> QED
      BY <1>1, <3>2, FS_Subset
  <2> HIDE DEF said
  <2>2. ASSUME said # {} PROVE Min(said) \in said
    <3>1. \E i \in said : \A j \in said : i <= j
      BY <2>1, <2>2, Smallest
    <3> QED
      BY <3>1, Zenon DEF Min
  <2> QED
    BY <2>2 DEF said
<1>6. said = {} => Announced(stdout) = {}
  BY <1>3, <1>4
<1>7. \A i \in DOMAIN stdout : stdout[i] \in ToSet(stdout)
  BY DEF ToSet
<1> HIDE DEF said
<1> QED
  BY <1>2, <1>3, <1>4, <1>5, <1>6, <1>7 DEF TellsJobs

\* A report holds the lines that are put into it.
LEMMA BehindHead ==
    ASSUME NEW T, NEW s \in Seq(T), NEW head
    PROVE  /\ ToSet(<<head>> \o s) = {head} \cup ToSet(s)
           /\ \E S : <<head>> \o s \in Seq(S)
<1> DEFINE S == T \cup {head}
           one == <<head>>
<1>1. one \in Seq(S) /\ ToSet(one) = {head}
  BY OneLexeme
<1>2. s \in Seq(S)
  BY LexemesIn
<1> HIDE DEF S, one
<1>3. one \o s \in Seq(S) /\ ToSet(one \o s) = {head} \cup ToSet(s)
  BY <1>1, <1>2, ConcatIsBoth
<1> QED
  BY <1>3, Zenon DEF one

LEMMA DiagnosticShows ==
    ASSUME NEW T, NEW out, out.stdout \in Seq(T), out.stderr \in Seq(T)
    PROVE  /\ \E S : Diagnostic(out) \in Seq(S)
           /\ ToSet(out.stdout) \subseteq ToSet(Diagnostic(out))
           /\ \A line \in ToSet(out.stderr) : Trim(line) # <<>> => line \in ToSet(Diagnostic(out))
<1> DEFINE mark == Lit("[stderr]")
           S == T \cup {mark}
           a == out.stdout
           b == out.stderr
           one == <<mark>>
<1>1. Diagnostic(out) = IF Blank(b) THEN a ELSE a \o one \o b
  BY Zenon DEF Diagnostic
<1>2. one \in Seq(S)
  BY OneLexeme
<1>3. a \in Seq(S) /\ b \in Seq(S)
  BY LexemesIn
<1> HIDE DEF mark, S, one
<1>4. a \o one \in Seq(S) /\ ToSet(a) \subseteq ToSet(a \o one)
  BY <1>2, <1>3, ConcatIsBoth
<1> DEFINE c == a \o one
<1> HIDE DEF c
<1>5. c \o b \in Seq(S) /\ ToSet(c \o b) = ToSet(c) \cup ToSet(b)
  BY <1>3, <1>4, ConcatIsBoth DEF c
<1>6. Blank(b) => \A line \in ToSet(b) : Trim(line) = <<>>
  BY Zenon DEF Blank, ToSet
<1>7. Diagnostic(out) = IF Blank(b) THEN a ELSE c \o b
  BY <1>1 DEF c
<1> HIDE DEF a, b
<1>8. ToSet(a) \subseteq ToSet(c)
  BY <1>4 DEF c
<1>9. CASE Blank(b)
  BY <1>3, <1>6, <1>7, <1>9 DEF a, b
<1>10. CASE ~Blank(b)
  BY <1>5, <1>7, <1>8, <1>10 DEF a, b
<1> QED
  BY <1>9, <1>10

-----------------------------------------------------------------------------
(* How a submission ends. *)

\* What a dispatcher captures of a process that ran: one that a signal killed has code 0.
OutputOf(p) == [exit_code |-> p.code, stdout |-> p.stdout, stderr |-> p.stderr]

LEMMA CaptureIs ==
    ASSUME NEW argv, argv # <<>>, NEW p, p.end = "signal" => p.code = 0
    PROVE  Capture(argv, p) = IF p.end = "missing" THEN {} ELSE {OutputOf(p)}
BY DEF Capture, OutputOf

EndsAs(r, is, output, jobid) ==
    /\ r.is = is /\ r.output = output /\ r.jobid = jobid /\ r.handles = <<>>

\* The ends of a submission of `needed' snapshots: before there is a process; with a code
\* of sbatch; without a job; without a working directory; without a snapshot; or well.
SubmissionEnds(p, ran, saves, needed, r) ==
    LET jobid == SubmittedJobid(p.stdout) IN
    /\ ~ran => \E why \in {"Argv", "Other"} : EndsAs(r, why, <<>>, {})
    /\ ran /\ p.code # 0 => EndsAs(r, "SubmitFailed", Diagnostic(OutputOf(p)), {}) /\ r.code = {p.code}
    /\ ran /\ p.code = 0 /\ jobid = {} => EndsAs(r, "JobidParseError", p.stdout, {})
    /\ ran /\ p.code = 0 /\ jobid # {} /\ p.gone => EndsAs(r, "Other", <<>>, {})
    /\ ran /\ p.code = 0 /\ jobid # {} /\ ~p.gone /\ saves < needed =>
           EndsAs(r, "SubmittedButUnpersisted", <<>>, jobid)
    /\ ran /\ p.code = 0 /\ jobid # {} /\ ~p.gone /\ ~(saves < needed) =>
           /\ r.is = "Ok" /\ r.jobid = jobid /\ Len(r.handles) = needed
           /\ \A i \in DOMAIN r.handles : r.handles[i].jobid \in jobid

LEMMA AnsweredEnds ==
    ASSUME NEW cmd, NEW argv, NEW p, AbsoluteAfter(cmd.script, p.gone) = {} <=> p.gone,
           NEW T, NEW tasks \in Seq(T), NEW saves
    PROVE  SubmissionEnds(p, TRUE, saves, Len(tasks),
                          Answered(cmd, argv, OutputOf(p), p.gone, tasks, saves))
<1> DEFINE out == OutputOf(p)
           jobid == SubmittedJobid(p.stdout)
           job == CHOOSE j \in jobid : TRUE
           handles == [i \in DOMAIN tasks |-> SnapshotOf(cmd, argv, job, tasks[i])]
           few == saves < Len(tasks)
           lost == AbsoluteAfter(cmd.script, p.gone) = {}
           r == Answered(cmd, argv, out, p.gone, tasks, saves)
<1>1. out.exit_code = p.code /\ out.stdout = p.stdout
  BY DEF OutputOf
<1>2. \A i \in DOMAIN handles : handles[i].jobid = job
  BY DEF SnapshotOf
<1>3. Len(handles) = Len(tasks) /\ DOMAIN handles = DOMAIN tasks
  <2>1. Len(tasks) \in Nat /\ DOMAIN tasks = 1..Len(tasks)
    BY LenProperties
  <2> QED
    BY <2>1
<1> HIDE DEF out
<1>4. Success(out) <=> p.code = 0
  BY <1>1 DEF Success
<1> DEFINE failed == Failed("SubmitFailed", {out.exit_code}, Diagnostic(out))
           unread == Failed("JobidParseError", {}, out.stdout)
           missed == Failed("Other", {}, <<>>)
           unsaved == [Failed("SubmittedButUnpersisted", {}, <<>>) EXCEPT !.jobid = jobid]
           well == [Failed("Ok", {}, <<>>) EXCEPT !.jobid = jobid, !.handles = handles]
<1>5. r = IF ~Success(out) THEN failed ELSE IF jobid = {} THEN unread
          ELSE IF lost THEN missed ELSE IF few THEN unsaved ELSE well
  BY <1>1, Zenon DEF Answered
<1>6. EndsAs(failed, "SubmitFailed", Diagnostic(out), {}) /\ failed.code = {p.code}
  BY <1>1 DEF Failed, EndsAs
<1>7. EndsAs(unread, "JobidParseError", p.stdout, {})
  BY <1>1 DEF Failed, EndsAs
<1>8. EndsAs(unsaved, "SubmittedButUnpersisted", <<>>, jobid)
  <2> HIDE DEF jobid
  <2> QED
    BY DEF Failed, EndsAs
<1>9. well.is = "Ok" /\ well.jobid = jobid /\ well.handles = handles
  <2> HIDE DEF jobid, handles
  <2> QED
    BY DEF Failed
<1>10. jobid # {} => job \in jobid
  OBVIOUS
<1>13. EndsAs(missed, "Other", <<>>, {}) /\ (lost <=> p.gone)
  BY DEF Failed, EndsAs
<1> HIDE DEF jobid, job, handles, r, failed, unread, missed, unsaved, well, few, lost
<1>11. /\ p.code # 0 => EndsAs(r, "SubmitFailed", Diagnostic(out), {}) /\ r.code = {p.code}
       /\ p.code = 0 /\ jobid = {} => EndsAs(r, "JobidParseError", p.stdout, {})
       /\ p.code = 0 /\ jobid # {} /\ p.gone => EndsAs(r, "Other", <<>>, {})
       /\ p.code = 0 /\ jobid # {} /\ ~p.gone /\ few => EndsAs(r, "SubmittedButUnpersisted", <<>>, jobid)
       /\ p.code = 0 /\ jobid # {} /\ ~p.gone /\ ~few => r = well
  BY <1>4, <1>5, <1>6, <1>7, <1>8, <1>13
<1>12. jobid # {} => /\ well.is = "Ok" /\ well.jobid = jobid /\ Len(well.handles) = Len(tasks)
                     /\ \A i \in DOMAIN well.handles : well.handles[i].jobid \in jobid
  BY <1>2, <1>3, <1>9, <1>10
<1> QED
  BY <1>11, <1>12, Zenon DEF SubmissionEnds, jobid, r, out, few

LEMMA StartEnds ==
    ASSUME NEW cmd, NEW argvs, \A argv \in argvs : argv # <<>>, NEW p, p.end = "signal" => p.code = 0,
           argvs # {} => (AbsoluteAfter(cmd.script, p.gone) = {} <=> p.gone),
           NEW T, NEW tasks \in Seq(T), NEW saves
    PROVE  SubmissionEnds(p, p.end # "missing" /\ argvs # {}, saves, Len(tasks),
                          Start(cmd, argvs, p, tasks, saves))
<1> DEFINE argv == CHOOSE a \in argvs : TRUE
           out == CHOOSE o \in Capture(argv, p) : TRUE
           r == Start(cmd, argvs, p, tasks, saves)
           answer == Answered(cmd, argv, out, p.gone, tasks, saves)
<1>1. r = IF argvs = {} THEN Failed("Argv", {}, <<>>)
          ELSE IF p.end = "missing" THEN Failed("Other", {}, <<>>) ELSE answer
  BY Zenon DEF Start
<1>2. \A why : EndsAs(Failed(why, {}, <<>>), why, <<>>, {})
  BY DEF EndsAs, Failed
<1>3. ASSUME argvs # {}, p.end # "missing"
      PROVE  SubmissionEnds(p, TRUE, saves, Len(tasks), answer)
  <2>1. argv \in argvs
    BY <1>3
  <2> HIDE DEF argv
  <2>2. Capture(argv, p) = {OutputOf(p)}
    BY <1>3, <2>1, CaptureIs
  <2>3. out = OutputOf(p)
    BY <2>2
  <2>4. AbsoluteAfter(cmd.script, p.gone) = {} <=> p.gone
    BY <1>3
  <2> QED
    BY <2>3, <2>4, AnsweredEnds
<1> HIDE DEF answer, r
<1>4. CASE argvs # {} /\ p.end # "missing"
  <2>1. r = answer /\ SubmissionEnds(p, TRUE, saves, Len(tasks), answer)
    BY <1>1, <1>3, <1>4
  <2>2. (p.end # "missing" /\ argvs # {}) = TRUE
    BY <1>4
  <2>3. SubmissionEnds(p, TRUE, saves, Len(tasks), r)
    BY <2>1
  <2> QED
    BY <1>4, <2>3, Zenon DEF SubmissionEnds, r
<1>5. CASE ~(argvs # {} /\ p.end # "missing")
  <2>1. \E why \in {"Argv", "Other"} : EndsAs(r, why, <<>>, {})
    BY <1>1, <1>2, <1>5
  <2> QED
    BY <1>5, <2>1, Zenon DEF SubmissionEnds, r
<1> QED
  BY <1>4, <1>5

\* A report that begins with a line of its own and passes on what was printed.
Heads(message, output) == \E head : message = <<head>> \o output

LEMMA MessageShapes ==
    ASSUME NEW r
    PROVE  /\ r.is = "SubmitFailed" => Heads(SpawnMessage(r), r.output)
           /\ r.is = "JobidParseError" => Heads(SpawnMessage(r), r.output)
           /\ r.is = "SubmittedButUnpersisted" =>
                  SpawnMessage(r) = <<Lit("jobid") \o Dec(CHOOSE j \in r.jobid : TRUE)>>
<1>1. r.is = "SubmitFailed" => Heads(SpawnMessage(r), r.output)
  BY Zenon DEF SpawnMessage, Heads
<1>2. r.is = "JobidParseError" => Heads(SpawnMessage(r), r.output)
  BY Zenon DEF SpawnMessage, Heads
<1>3. r.is = "SubmittedButUnpersisted" =>
          SpawnMessage(r) = <<Lit("jobid") \o Dec(CHOOSE j \in r.jobid : TRUE)>>
  BY Zenon DEF SpawnMessage
<1> QED
  BY <1>1, <1>2, <1>3

LEMMA RunShapes ==
    ASSUME NEW r, r.is = "Spawn"
    PROVE  Heads(RunMessage(r), SpawnMessage(r.spawned))
BY Zenon DEF RunMessage, Heads

\* What is passed on is in the report.
LEMMA HeadsShow ==
    ASSUME NEW T, NEW output \in Seq(T), NEW message, Heads(message, output)
    PROVE  /\ ToSet(output) \subseteq ToSet(message)
           /\ \E S : message \in Seq(S)
<1>1. PICK head : message = <<head>> \o output
  BY DEF Heads
<1> QED
  BY <1>1, BehindHead

LEMMA MentionsIs ==
    ASSUME NEW message, NEW n
    PROVE  Mentions(message, n) <=> \E line \in ToSet(message) : Number(n) \in ToSet(line)
BY DEF Mentions, ToSet

\* What Python is told of a submission: its message, or the handles.
LEMMA PySpawnIs ==
    ASSUME NEW r
    PROVE  /\ r.is = "Ok" => PySpawn(r).returned = {r.handles}
           /\ r.is # "Ok" => PySpawn(r).returned = {} /\ PySpawn(r).message = SpawnMessage(r)
BY DEF PySpawn, Return, Raise

\* A submission that fails passes on what sbatch printed.
LEMMA FailureShows ==
    ASSUME NEW T, NEW p, p.stdout \in Seq(T), p.stderr \in Seq(T), NEW r, r.is = "SubmitFailed",
           r.output = Diagnostic(OutputOf(p))
    PROVE  /\ ToSet(p.stdout) \subseteq ToSet(r.output)
           /\ ToSet(r.output) \subseteq ToSet(PySpawn(r).message)
           /\ \A line \in ToSet(p.stderr) : Trim(line) # <<>> => line \in ToSet(r.output)
<1> DEFINE out == OutputOf(p)
<1>1. out.stdout = p.stdout /\ out.stderr = p.stderr
  BY DEF OutputOf
<1>2. out.stdout \in Seq(T) /\ out.stderr \in Seq(T)
  BY <1>1
<1> HIDE DEF out
<1>3. /\ \E S : Diagnostic(out) \in Seq(S)
      /\ ToSet(out.stdout) \subseteq ToSet(Diagnostic(out))
      /\ \A line \in ToSet(out.stderr) : Trim(line) # <<>> => line \in ToSet(Diagnostic(out))
  BY <1>2, DiagnosticShows
<1>4. r.output = Diagnostic(out)
  BY DEF out
<1>5. PySpawn(r).message = SpawnMessage(r) /\ Heads(SpawnMessage(r), r.output)
  BY PySpawnIs, MessageShapes
<1>6. ToSet(r.output) \subseteq ToSet(PySpawn(r).message)
  BY <1>3, <1>4, <1>5, HeadsShow
<1> QED
  BY <1>1, <1>3, <1>4, <1>6

\* Whoever submits is told how it ended.
LEMMA SubmissionTold ==
    ASSUME NEW T, NEW p, p.stdout \in Seq(T), p.stderr \in Seq(T), TellsJobs(p.stdout),
           NEW ran \in BOOLEAN, NEW saves \in Nat, NEW needed \in Nat, NEW r,
           SubmissionEnds(p, ran, saves, needed, r)
    PROVE  SubmissionIsTold(p, ran, saves, needed, r)
<1> DEFINE announced == Announced(p.stdout)
           jobid == SubmittedJobid(p.stdout)
           said == PySpawn(r)
           message == said.message
<1>1. /\ jobid \subseteq announced
      /\ jobid = {} => announced = {}
      /\ \A n \in announced : \E line \in ToSet(p.stdout) : Number(n) \in ToSet(line)
  BY DEF TellsJobs
<1>2. /\ ~ran => \E why \in {"Argv", "Other"} : EndsAs(r, why, <<>>, {})
      /\ ran /\ p.code # 0 => EndsAs(r, "SubmitFailed", Diagnostic(OutputOf(p)), {}) /\ r.code = {p.code}
      /\ ran /\ p.code = 0 /\ jobid = {} => EndsAs(r, "JobidParseError", p.stdout, {})
      /\ ran /\ p.code = 0 /\ jobid # {} /\ p.gone => EndsAs(r, "Other", <<>>, {})
      /\ ran /\ p.code = 0 /\ jobid # {} /\ ~p.gone /\ saves < needed =>
             EndsAs(r, "SubmittedButUnpersisted", <<>>, jobid)
      /\ ran /\ p.code = 0 /\ jobid # {} /\ ~p.gone /\ ~(saves < needed) =>
             /\ r.is = "Ok" /\ r.jobid = jobid /\ Len(r.handles) = needed
             /\ \A i \in DOMAIN r.handles : r.handles[i].jobid \in jobid
  BY Zenon DEF SubmissionEnds
<1>3. said.returned = IF r.is = "Ok" THEN {r.handles} ELSE {}
  BY PySpawnIs
<1>4. r.is = "SubmitFailed" /\ r.output = Diagnostic(OutputOf(p)) =>
          /\ ToSet(p.stdout) \subseteq ToSet(r.output) /\ ToSet(r.output) \subseteq ToSet(message)
          /\ \A line \in ToSet(p.stderr) : Trim(line) # <<>> => line \in ToSet(r.output)
  BY FailureShows
<1>5. \A n : Mentions(message, n) <=> \E line \in ToSet(message) : Number(n) \in ToSet(line)
  BY MentionsIs
<1>6. \A out : Shows(out, p.stdout) <=> ToSet(p.stdout) \subseteq ToSet(out)
  BY DEF Shows, ToSet
<1>7. saves >= needed <=> ~(saves < needed)
  OBVIOUS
<1> HIDE DEF announced, jobid, said, message
<1>8. r.is = "Ok" <=> ran /\ p.code = 0 /\ announced # {} /\ ~p.gone /\ saves >= needed
  BY <1>1, <1>2, <1>7 DEF EndsAs
<1>9. r.is = "Ok" => Len(r.handles) = needed
  BY <1>1, <1>2, <1>7, <1>8
<1>10. \A i \in DOMAIN r.handles : r.handles[i].jobid \in announced \cap r.jobid
  <2>1. (ran /\ p.code = 0 /\ jobid # {} /\ ~p.gone /\ ~(saves < needed)) \/ r.handles = <<>>
    BY <1>2 DEF EndsAs
  <2> QED
    BY <1>1, <1>2, <2>1
<1>11. ran /\ announced # {} /\ ~Stranded(p) =>
           \E n \in announced : n \in r.jobid \/ Mentions(message, n)
  <2> SUFFICES ASSUME ran, announced # {}, ~Stranded(p)
               PROVE  \E n \in announced : n \in r.jobid \/ Mentions(message, n)
    OBVIOUS
  <2>1. CASE p.code # 0
    <3>1. r.is = "SubmitFailed" /\ r.output = Diagnostic(OutputOf(p))
      BY <1>2, <2>1 DEF EndsAs
    <3>2. PICK n \in announced : TRUE
      OBVIOUS
    <3>3. PICK line \in ToSet(p.stdout) : Number(n) \in ToSet(line)
      BY <1>1, <3>2
    <3>4. line \in ToSet(message)
      BY <1>4, <3>1, <3>3
    <3> QED
      BY <1>5, <3>2, <3>3, <3>4
  <2>2. CASE p.code = 0
    <3>1. jobid # {} /\ r.jobid = jobid
      BY <1>1, <1>2, <2>2 DEF EndsAs, Stranded
    <3> QED
      BY <1>1, <3>1
  <2> QED
    BY <2>1, <2>2
<1>12. ran /\ ~(ran /\ p.code = 0) =>
           /\ r.code = {p.code} /\ Shows(r.output, p.stdout)
           /\ \A line \in ToSet(p.stderr) : Trim(line) # <<>> => line \in ToSet(message)
  BY <1>2, <1>4, <1>6 DEF EndsAs
<1> QED
  BY <1>3, <1>8, <1>9, <1>10, <1>11, <1>12, Zenon DEF SubmissionIsTold, announced, said, message

\* The job whose snapshot was not saved is named.
LEMMA JobIsNamed ==
    ASSUME NEW j
    PROVE  Number(j) \in ToSet(Lit("jobid") \o Dec(j))
<1> DEFINE word == Lit("jobid")
           number == Dec(j)
           S == {Sign("jobid")} \cup {Number(j)}
<1>1. word = <<Sign("jobid")>> /\ number = <<Number(j)>>
  BY DEF Lit, Dec
<1> HIDE DEF word, number
<1>2. word \in Seq(S) /\ number \in Seq(S) /\ Number(j) \in ToSet(number)
  <2>1. Sign("jobid") \in S /\ Number(j) \in S
    OBVIOUS
  <2> HIDE DEF S
  <2> QED
    BY <1>1, <2>1, OneLexeme
<1> HIDE DEF S
<1>3. Number(j) \in ToSet(word \o number)
  BY <1>2, ConcatIsBoth
<1> QED
  BY <1>3, Zenon DEF word, number

\* An announced job that has no handle is in the message of the error.
LEMMA SpawnMentions ==
    ASSUME NEW T, NEW p, p.stdout \in Seq(T), p.stderr \in Seq(T), TellsJobs(p.stdout),
           NEW saves, NEW needed, NEW r, SubmissionEnds(p, TRUE, saves, needed, r),
           Announced(p.stdout) # {}, ~Stranded(p), r.is # "Ok"
    PROVE  /\ \E n \in Announced(p.stdout) : Mentions(SpawnMessage(r), n)
           /\ \E S : SpawnMessage(r) \in Seq(S)
<1> DEFINE announced == Announced(p.stdout)
           jobid == SubmittedJobid(p.stdout)
           message == SpawnMessage(r)
<1>1. /\ jobid \subseteq announced
      /\ jobid # {}
      /\ \A n \in announced : \E line \in ToSet(p.stdout) : Number(n) \in ToSet(line)
  BY DEF TellsJobs
<1>2. /\ p.code # 0 => EndsAs(r, "SubmitFailed", Diagnostic(OutputOf(p)), {})
      /\ p.code = 0 /\ jobid # {} /\ saves < needed => EndsAs(r, "SubmittedButUnpersisted", <<>>, jobid)
      /\ p.code = 0 /\ jobid # {} /\ ~(saves < needed) => r.is = "Ok"
  BY Zenon DEF SubmissionEnds, Stranded
<1>3. \A n : Mentions(message, n) <=> \E line \in ToSet(message) : Number(n) \in ToSet(line)
  BY MentionsIs
<1>4. r.is = "SubmittedButUnpersisted" =>
          message = <<Lit("jobid") \o Dec(CHOOSE j \in r.jobid : TRUE)>>
  BY MessageShapes
<1> HIDE DEF announced, jobid, message
<1>5. CASE p.code # 0
  <2>1. r.is = "SubmitFailed" /\ r.output = Diagnostic(OutputOf(p))
    BY <1>2, <1>5 DEF EndsAs
  <2>2. ToSet(p.stdout) \subseteq ToSet(r.output) /\ ToSet(r.output) \subseteq ToSet(PySpawn(r).message)
    BY <2>1, FailureShows
  <2>3. PySpawn(r).message = message
    BY <2>1, PySpawnIs DEF message
  <2>4. PICK n \in announced : TRUE
    BY <1>1
  <2>5. PICK line \in ToSet(p.stdout) : Number(n) \in ToSet(line)
    BY <1>1, <2>4
  <2>6. \E S : message \in Seq(S)
    <3>1. OutputOf(p).stdout \in Seq(T) /\ OutputOf(p).stderr \in Seq(T)
      BY DEF OutputOf
    <3>2. \E S : r.output \in Seq(S)
      BY <2>1, <3>1, DiagnosticShows
    <3>3. Heads(message, r.output)
      BY <2>1, MessageShapes DEF message
    <3> QED
      BY <3>2, <3>3, HeadsShow
  <2> QED
    BY <1>3, <2>2, <2>3, <2>4, <2>5, <2>6 DEF announced, message
<1>6. CASE p.code = 0
  <2>1. r.is = "SubmittedButUnpersisted" /\ r.jobid = jobid
    BY <1>1, <1>2, <1>6 DEF EndsAs
  <2> DEFINE j == CHOOSE i \in jobid : TRUE
             line == Lit("jobid") \o Dec(j)
  <2>2. j \in jobid
    BY <1>1
  <2>3. message = <<line>>
    BY <1>4, <2>1
  <2>4. Number(j) \in ToSet(line)
    BY JobIsNamed
  <2> HIDE DEF j, line
  <2>5. message \in Seq({line}) /\ ToSet(message) = {line}
    BY <2>3, OneLexeme
  <2>6. j \in announced /\ Mentions(message, j)
    BY <1>1, <1>3, <2>2, <2>4, <2>5
  <2> QED
    BY <2>5, <2>6 DEF announced, message
<1>7. p.code = 0 \/ p.code # 0
  OBVIOUS
<1> QED
  BY <1>5, <1>6, <1>7

\* What run() comes to, of which `called' is what was called back.
LEMMA RunWithIs ==
    ASSUME NEW cmd, NEW spawned, NEW later \in Later, NEW r, r = RunWith(cmd, spawned, later)
    PROVE  /\ r.called = IF cmd.array_spec = {} /\ spawned.is = "Ok" THEN spawned.jobid ELSE {}
           /\ r.spawned = spawned
           /\ cmd.array_spec = {} /\ spawned.is # "Ok" => r.is = "Spawn"
           /\ r.is = "Ok" <=> /\ cmd.array_spec = {} /\ spawned.is = "Ok"
                              /\ later.wait = "ok" /\ later.sacct = "ok"
                              /\ \E f \in later.finished : f.state = "Completed"
<1> DEFINE f == CHOOSE g \in later.finished : TRUE
           result(is, called) == [is |-> is, called |-> called, spawned |-> spawned, finished |-> later.finished]
<1>1. \A is, called : /\ result(is, called).is = is /\ result(is, called).called = called
                      /\ result(is, called).spawned = spawned
  OBVIOUS
<1>2. r = IF cmd.array_spec # {} THEN result("ArrayNotSupported", {})
          ELSE IF spawned.is # "Ok" THEN result("Spawn", {})
          ELSE IF later.wait = "error" THEN result("Wait", spawned.jobid)
          ELSE IF later.sacct = "error" THEN result("Sacct", spawned.jobid)
          ELSE IF later.finished = {} THEN result("MissingFinished", spawned.jobid)
          ELSE IF f.state = "Completed" THEN result("Ok", spawned.jobid)
          ELSE result("JobFailed", spawned.jobid)
  BY Zenon DEF RunWith
<1>3. /\ later.wait \in {"ok", "error"} /\ later.sacct \in {"ok", "error"}
      /\ later.finished = {} \/ \E g : later.finished = {g}
  BY DEF Later
<1>4. later.finished # {} => (f.state = "Completed" <=> \E g \in later.finished : g.state = "Completed")
  BY <1>3
<1> HIDE DEF result, f
<1>5. CASE cmd.array_spec # {}
  BY <1>1, <1>2, <1>5
<1>6. CASE cmd.array_spec = {} /\ spawned.is # "Ok"
  BY <1>1, <1>2, <1>6
<1>7. CASE cmd.array_spec = {} /\ spawned.is = "Ok"
  <2>1. r.called = spawned.jobid /\ r.spawned = spawned
    BY <1>1, <1>2, <1>7
  <2>2. r.is = "Ok" <=> /\ later.wait = "ok" /\ later.sacct = "ok"
                        /\ \E g \in later.finished : g.state = "Completed"
    BY <1>1, <1>2, <1>3, <1>4, <1>7
  <2> QED
    BY <1>7, <2>1, <2>2
<1> QED
  BY <1>5, <1>6, <1>7

LEMMA PyRunIs ==
    ASSUME NEW r, NEW raises \in BOOLEAN
    PROVE  /\ PyRun(r, raises).returned # {} <=> r.is = "Ok" /\ ~raises
           /\ r.is = "Spawn" => PyRun(r, raises).message = RunMessage(r)
<1> DEFINE f == CHOOSE g \in r.finished : TRUE
<1>1. CASE r.is = "Ok"
  <2>1. PyRun(r, raises) = IF raises THEN Raise("of the callback", <<>>) ELSE Return(f)
    BY <1>1, Zenon DEF PyRun
  <2>2. Return(f).returned = {f}
    BY DEF Return
  <2>3. \A type, message : Raise(type, message).returned = {}
    BY DEF Raise
  <2> DEFINE error == Raise("of the callback", <<>>)
  <2>4. error.returned = {}
    BY <2>3, Zenon
  <2>5. PyRun(r, raises) = IF raises THEN error ELSE Return(f)
    BY <2>1, Zenon
  <2> HIDE DEF error, f
  <2> QED
    BY <1>1, <2>2, <2>4, <2>5
<1>2. CASE r.is # "Ok"
  <2>1. \A type, message : Raise(type, message).returned = {} /\ Raise(type, message).message = message
    BY DEF Raise
  <2>2. PyRun(r, raises) \in {Raise("ValueError", RunMessage(r)), Raise("RuntimeError", RunMessage(r))}
    <3>1. CASE r.is = "ArrayNotSupported"
      <4>1. PyRun(r, raises) = Raise("ValueError", RunMessage(r))
        BY <3>1, Zenon DEF PyRun
      <4> QED
        BY <4>1
    <3>2. CASE r.is # "ArrayNotSupported"
      <4>1. PyRun(r, raises) = Raise("RuntimeError", RunMessage(r))
        BY <1>2, <3>2, Zenon DEF PyRun
      <4> QED
        BY <4>1
    <3> QED
      BY <3>1, <3>2
  <2> QED
    BY <1>2, <2>1, <2>2
<1> QED
  BY <1>1, <1>2

LEMMA RunTold ==
    ASSUME NEW T, NEW p, p.stdout \in Seq(T), p.stderr \in Seq(T), TellsJobs(p.stdout),
           NEW ran \in BOOLEAN, NEW saves \in Nat, NEW needed \in Nat, NEW spawned,
           SubmissionEnds(p, ran, saves, needed, spawned), NEW cmd, NEW later \in Later
    PROVE  RunIsTold(IF ran /\ ~Stranded(p) THEN Announced(p.stdout) ELSE {}, cmd.array_spec = {},
                     spawned, later, RunWith(cmd, spawned, later))
<1> DEFINE announced == IF ran /\ ~Stranded(p) THEN Announced(p.stdout) ELSE {}
           plain == cmd.array_spec = {}
           r == RunWith(cmd, spawned, later)
<1>1. /\ r.called = IF plain /\ spawned.is = "Ok" THEN spawned.jobid ELSE {}
      /\ r.spawned = spawned
      /\ plain /\ spawned.is # "Ok" => r.is = "Spawn"
      /\ r.is = "Ok" <=> /\ plain /\ spawned.is = "Ok" /\ later.wait = "ok" /\ later.sacct = "ok"
                         /\ \E f \in later.finished : f.state = "Completed"
  BY RunWithIs
<1>2. spawned.is = "Ok" => spawned.jobid # {}
  BY DEF SubmissionEnds, EndsAs
<1>3. \A raises \in BOOLEAN :
          /\ PyRun(r, raises).returned # {} <=> r.is = "Ok" /\ ~raises
          /\ r.is = "Spawn" => PyRun(r, raises).message = RunMessage(r)
  BY PyRunIs
<1>4. announced # {} => ran /\ ~Stranded(p) /\ announced = Announced(p.stdout)
  OBVIOUS
<1>5. ASSUME announced # {}, spawned.is # "Ok"
      PROVE  /\ \E n \in announced : Mentions(SpawnMessage(spawned), n)
             /\ \E S : SpawnMessage(spawned) \in Seq(S)
  <2>1. SubmissionEnds(p, TRUE, saves, needed, spawned)
    BY <1>4, <1>5
  <2> QED
    BY <1>4, <1>5, <2>1, SpawnMentions
<1>6. r.is = "Spawn" => Heads(RunMessage(r), SpawnMessage(r.spawned))
  BY RunShapes
<1> HIDE DEF announced, plain, r
<1>7. ASSUME announced # {}, plain, r.called = {}
      PROVE  \E n \in announced : Mentions(RunMessage(r), n)
  <2>1. spawned.is # "Ok" /\ r.is = "Spawn"
    BY <1>1, <1>2, <1>7
  <2> DEFINE message == SpawnMessage(spawned)
  <2>2. PICK n \in announced : Mentions(message, n)
    BY <1>5, <1>7, <2>1
  <2>3. PICK S : message \in Seq(S)
    BY <1>5, <1>7, <2>1
  <2>4. Heads(RunMessage(r), message)
    BY <1>1, <1>6, <2>1
  <2> HIDE DEF message
  <2>5. ToSet(message) \subseteq ToSet(RunMessage(r))
    BY <2>3, <2>4, HeadsShow
  <2>6. Mentions(RunMessage(r), n)
    BY <2>2, <2>5, MentionsIs
  <2> QED
    BY <2>6
<1>8. r.is = "Ok" <=> /\ r.called # {} /\ later.wait = "ok" /\ later.sacct = "ok"
                      /\ \E f \in later.finished : f.state = "Completed"
  BY <1>1, <1>2
<1>9. announced # {} /\ plain /\ r.called = {} => r.is = "Spawn"
  BY <1>1, <1>2
<1>10. \A raises \in BOOLEAN : announced # {} /\ plain /\ r.called = {} =>
          \E n \in announced : Mentions(PyRun(r, raises).message, n)
  BY <1>3, <1>7, <1>9
<1>11. RunIsTold(announced, plain, spawned, later, r)
  BY <1>1, <1>3, <1>8, <1>10, Zenon DEF RunIsTold
<1> QED
  BY <1>11, Zenon DEF announced, plain, r

-----------------------------------------------------------------------------
(* Other commands. *)

\* A process that ran, or did not, for somebody who started it with some words.
LEMMA CancelTold ==
    ASSUME NEW T, NEW p, p.stdout \in Seq(T), p.stderr \in Seq(T), p.end = "signal" => p.code = 0,
           NEW jobid
    PROVE  CancelIsTold(p, Cancel(jobid, p))
<1> DEFINE argv == <<Lit("scancel"), Dec(jobid)>>
           outs == Capture(argv, p)
           out == CHOOSE o \in outs : TRUE
           r == Cancel(jobid, p)
           done == OutputOf(p)
<1>1. argv # <<>>
  <2> DEFINE a == Lit("scancel")
             b == Dec(jobid)
  <2> HIDE DEF a, b
  <2>1. <<a, b>> # <<>>
    OBVIOUS
  <2> QED
    BY <2>1 DEF a, b
<1>2. outs = IF p.end = "missing" THEN {} ELSE {done}
  <2> HIDE DEF argv
  <2> QED
    BY <1>1, CaptureIs
<1>3. done.exit_code = p.code /\ done.stdout = p.stdout /\ done.stderr = p.stderr
  BY DEF OutputOf
<1> HIDE DEF done
<1>4. Success(done) <=> p.code = 0
  BY <1>3 DEF Success
<1>5. /\ outs = {} => r = Failed("Other", {}, <<>>)
      /\ outs # {} /\ ~Success(out) => r = Failed("Scancel", {out.exit_code}, Diagnostic(out))
      /\ outs # {} /\ Success(out) => r = Failed("Ok", {}, <<>>)
  <2>1. outs = {} => r = Failed("Other", {}, <<>>)
    BY Zenon DEF Cancel
  <2>2. outs # {} /\ ~Success(out) => r = Failed("Scancel", {out.exit_code}, Diagnostic(out))
    BY Zenon DEF Cancel
  <2>3. outs # {} /\ Success(out) => r = Failed("Ok", {}, <<>>)
    BY Zenon DEF Cancel
  <2> QED
    BY <2>1, <2>2, <2>3
<1>6. outs # {} => out = done
  <2> HIDE DEF outs
  <2> QED
    BY <1>2
<1>7. \A why, code, output : Failed(why, code, output).is = why /\ Failed(why, code, output).output = output
  BY DEF Failed
<1>8. outs = {} <=> p.end = "missing"
  BY <1>2
<1> HIDE DEF argv, outs, out, r
<1>9. r.is = "Ok" <=> p.end # "missing" /\ p.code = 0
  BY <1>4, <1>5, <1>6, <1>7, <1>8
<1>10. r.is = "Scancel" => r.output = Diagnostic(done)
  BY <1>4, <1>5, <1>6, <1>7, <1>8
<1>11. PyCancel(r).raised = {} <=> r.is = "Ok"
  BY DEF PyCancel, Return, Raise
<1>12. r.is = "Scancel" => Shows(r.output, p.stdout)
  <2>1. done.stdout \in Seq(T) /\ done.stderr \in Seq(T)
    BY <1>3
  <2>2. ToSet(done.stdout) \subseteq ToSet(Diagnostic(done))
    BY <2>1, DiagnosticShows
  <2> QED
    BY <1>3, <1>10, <2>2 DEF Shows, ToSet
<1> QED
  BY <1>9, <1>11, <1>12, Zenon DEF CancelIsTold, r

\* The words that squeue has for a job it does not know.
NoSuchJob == Lit("slurm:") \o <<InvalidId>>

\* Of the reports that are looked at, one says that there is no such job.
LEMMA ErrorsAreTold ==
    ASSUME NEW err \in ErrorLines, NEW i \in DOMAIN err, InvalidId \in ToSet(err[i])
    PROVE  err = <<NoSuchJob>>
<1> DEFINE a == <<>>
           b == Lit(" ")
           c == Lit("sbatch: error")
           d == NoSuchJob
<1>1. err \in {<<>>, <<a, b>>, <<c>>, <<d>>}
  BY Zenon DEF ErrorLines, NoSuchJob
<1>2. InvalidId # Space /\ InvalidId # Sign("sbatch: error")
  <2> DEFINE e == "Invalid job id specified"
             s == " "
             m == "sbatch: error"
  <2>1. e # s /\ e # m
    OBVIOUS
  <2>2. InvalidId = Sign(e) /\ Space = Sign(s)
    BY Zenon DEF InvalidId, Space
  <2>3. \A v, w : Sign(v) = Sign(w) => v = w
    BY DEF Sign
  <2> HIDE DEF e, s, m
  <2>4. InvalidId # Space /\ InvalidId # Sign(m)
    BY <2>1, <2>2, <2>3
  <2> QED
    BY <2>4, Zenon DEF m
<1>3. InvalidId \notin ToSet(a) /\ InvalidId \notin ToSet(b) /\ InvalidId \notin ToSet(c)
  <2>1. InvalidId \notin ToSet(a)
    BY DEF ToSet
  <2>2. \A x : ToSet(<<x>>) = {x}
    <3> TAKE x
    <3>1. x \in {x}
      OBVIOUS
    <3> QED
      BY <3>1, OneLexeme
  <2>3. b = <<Space>> /\ c = <<Sign("sbatch: error")>>
    BY Zenon DEF Lit, Space
  <2> HIDE DEF a, b, c
  <2>4. ToSet(b) = {Space} /\ ToSet(c) = {Sign("sbatch: error")}
    BY <2>2, <2>3, Zenon
  <2>5. InvalidId \notin ToSet(b)
    BY <1>2, <2>4, Zenon
  <2>6. InvalidId \notin ToSet(c)
    BY <1>2, <2>4, Zenon
  <2> QED
    BY <2>1, <2>5, <2>6, Zenon DEF a
<1> HIDE DEF a, b, c, d
<1>4. err # <<>>
  OBVIOUS
<1>5. err # <<a, b>>
  BY <1>3
<1>6. err # <<c>>
  BY <1>3
<1> QED
  BY <1>1, <1>4, <1>5, <1>6 DEF d

LEMMA QueryTold ==
    ASSUME NEW p, p.stderr \in ErrorLines, p.end = "signal" => p.code = 0
    PROVE  QueryIsTold(p)
<1> DEFINE done == OutputOf(p)
<1>1. done.exit_code = p.code /\ done.stderr = p.stderr
  BY DEF OutputOf
<1> HIDE DEF done
<1>2. Success(done) <=> p.code = 0
  BY <1>1 DEF Success
<1>3. ASSUME NEW tool \in {"squeue", "sacct"}, NEW out \in Capture(<<Lit(tool)>>, p)
      PROVE  out = done
  <2> DEFINE argv == <<Lit(tool)>>
  <2>1. argv # <<>>
    OBVIOUS
  <2> HIDE DEF argv
  <2>2. Capture(argv, p) = IF p.end = "missing" THEN {} ELSE {OutputOf(p)}
    BY <2>1, CaptureIs
  <2>3. out \in Capture(argv, p)
    BY DEF argv
  <2> QED
    BY <2>2, <2>3 DEF done
<1>4. ASSUME NEW tool \in {"squeue", "sacct"}
      PROVE  /\ QueryStatus(tool, done) = "ok" <=> p.code = 0
             /\ QueryStatus(tool, done) = "vanished" =>
                    /\ tool = "squeue"
                    /\ \E i \in DOMAIN done.stderr : InvalidId \in ToSet(done.stderr[i])
  BY <1>2, Zenon DEF QueryStatus
<1>5. ASSUME NEW i \in DOMAIN done.stderr, InvalidId \in ToSet(done.stderr[i])
      PROVE  Shows(done.stderr, <<NoSuchJob>>)
  <2>1. done.stderr = <<NoSuchJob>>
    BY <1>1, <1>5, ErrorsAreTold
  <2>2. \A x : Shows(<<x>>, <<x>>)
    BY DEF Shows, ToSet
  <2> QED
    BY <2>1, <2>2
<1>6. ASSUME NEW tool \in {"squeue", "sacct"}, NEW out \in Capture(<<Lit(tool)>>, p)
      PROVE  /\ QueryStatus(tool, out) = "ok" <=> p.code = 0
             /\ QueryStatus(tool, out) = "vanished" => tool = "squeue" /\ Shows(out.stderr, <<NoSuchJob>>)
  <2>1. out = done
    BY <1>3, <1>6
  <2>2. /\ QueryStatus(tool, done) = "ok" <=> p.code = 0
        /\ QueryStatus(tool, done) = "vanished" => tool = "squeue" /\ Shows(done.stderr, <<NoSuchJob>>)
    BY <1>4, <1>5
  <2> QED
    BY <2>1, <2>2, Zenon
<1> QED
  BY <1>6, Zenon DEF QueryIsTold, NoSuchJob

\* A command that tssrun is to run has words if it has a name.
LEMMA InteractiveTold ==
    ASSUME NEW T, NEW name \in Seq(T), NEW p, NEW cmd,
           cmd = [partition |-> {}, time_limit |-> {}, rsc |-> {}, x11 |-> FALSE, program |-> name, args |-> <<>>]
    PROVE  PyTssrunSpawn(TssrunSpawn(cmd, p)).raised = {} <=> p.end # "missing" /\ name # <<>>
<1> DEFINE argvs == TssrunArgv(cmd)
           argv == CHOOSE a \in argvs : TRUE
           failed(why) == Failed(why, {}, <<>>)
           started == [failed("Ok") EXCEPT !.handles = <<argv>>]
           r == TssrunSpawn(cmd, p)
<1>1. argvs = {} <=> name = <<>>
  <2>1. /\ cmd.partition = {} /\ cmd.time_limit = {} /\ cmd.rsc = {} /\ cmd.x11 = FALSE
        /\ cmd.program = name /\ cmd.args = <<>>
    OBVIOUS
  <2>2. TssrunForm(T, cmd)
    BY <2>1 DEF TssrunForm
  <2> QED
    BY <2>1, <2>2, TssrunArgvIs
<1>2. r = IF argvs = {} THEN failed("ArgvBuild") ELSE IF p.end = "missing" THEN failed("SpawnFailed") ELSE started
  BY Zenon DEF TssrunSpawn
<1> HIDE DEF argvs, argv
<1>3. failed("ArgvBuild").is = "ArgvBuild" /\ failed("SpawnFailed").is = "SpawnFailed" /\ started.is = "Ok"
  BY DEF Failed
<1> HIDE DEF failed, started, r
<1>4. r.is = "Ok" <=> argvs # {} /\ p.end # "missing"
  BY <1>2, <1>3
<1>5. PyTssrunSpawn(r).raised = {} <=> r.is = "Ok"
  BY DEF PyTssrunSpawn, Return, Raise
<1> QED
  BY <1>1, <1>4, <1>5 DEF r

\* A command that srun is to run gives its code, or 0 if it is only to be shown.
LEMMA SrunTold ==
    ASSUME NEW T, NEW name \in Seq(T), NEW launcher, NEW p, p.end = "signal" => p.code = 0
    PROVE  /\ RunJob(launcher, name, FALSE, p) = IF p.end # "missing" /\ name # <<>> THEN {p.code} ELSE {}
           /\ RunJob(launcher, name, TRUE, p) = IF name = <<>> THEN {} ELSE {0}
<1> DEFINE argvs == SrunArgv(launcher, name)
           codes(dry) == UNION {IF dry THEN {DryRun} ELSE Dispatch(argv, p) : argv \in argvs}
<1>1. name = <<>> => argvs = {}
  BY AbsolutizeIs DEF SrunArgv
<1>2. ASSUME name # <<>>
      PROVE  \E argv : argvs = {argv} /\ argv # <<>>
  <2>1. PICK q : Absolutize(name) = {q}
    BY <1>2, AbsolutizeIs
  <2>2. argvs = {<<launcher, q>>}
    BY <2>1 DEF SrunArgv
  <2>3. <<launcher, q>> # <<>>
    OBVIOUS
  <2> QED
    BY <2>2, <2>3, Zenon
<1>3. RunJob(launcher, name, FALSE, p) = codes(FALSE) /\ RunJob(launcher, name, TRUE, p) = codes(TRUE)
  BY Zenon DEF RunJob
<1> HIDE DEF argvs
<1>4. CASE name = <<>>
  <2>1. argvs = {}
    BY <1>1, <1>4
  <2>2. codes(FALSE) = {}
    BY <2>1
  <2>3. codes(TRUE) = {}
    BY <2>1
  <2> HIDE DEF codes
  <2> QED
    BY <1>3, <1>4, <2>2, <2>3
<1>5. CASE name # <<>>
  <2>1. PICK argv : argvs = {argv} /\ argv # <<>>
    BY <1>2, <1>5
  <2>2. Capture(argv, p) = IF p.end = "missing" THEN {} ELSE {OutputOf(p)}
    BY <2>1, CaptureIs
  <2>3. OutputOf(p).exit_code = p.code
    BY DEF OutputOf
  <2> DEFINE done == OutputOf(p)
  <2> HIDE DEF done
  <2>4. Dispatch(argv, p) = {out.exit_code : out \in Capture(argv, p)}
    BY Zenon DEF Dispatch
  <2>5. Dispatch(argv, p) = IF p.end = "missing" THEN {} ELSE {p.code}
    <3>1. CASE p.end = "missing"
      BY <2>2, <2>4, <3>1
    <3>2. CASE p.end # "missing"
      <4>1. Capture(argv, p) = {done} /\ done.exit_code = p.code
        BY <2>2, <2>3, <3>2 DEF done
      <4>2. {out.exit_code : out \in {done}} = {done.exit_code}
        OBVIOUS
      <4>3. Dispatch(argv, p) = {done.exit_code}
        BY <2>4, <4>1, <4>2, Zenon
      <4> QED
        BY <3>2, <4>1, <4>3
    <3> QED
      BY <3>1, <3>2
  <2>6. codes(FALSE) = Dispatch(argv, p)
    <3>1. codes(FALSE) = UNION {Dispatch(a, p) : a \in {argv}}
      BY <2>1, Zenon
    <3>2. UNION {Dispatch(a, p) : a \in {argv}} = Dispatch(argv, p)
      OBVIOUS
    <3> QED
      BY <3>1, <3>2, Zenon
  <2>7. codes(TRUE) = {0}
    BY <2>1 DEF DryRun
  <2> HIDE DEF codes
  <2> QED
    BY <1>3, <1>5, <2>5, <2>6, <2>7
<1> QED
  BY <1>4, <1>5

-----------------------------------------------------------------------------
(* The command lines of the commands that are submitted. *)

AreSome(words) == \E S : words \in Seq(S)

LEMMA JoinedWords ==
    ASSUME NEW v, NEW w, AreSome(v), AreSome(w)
    PROVE  AreSome(v \o w) /\ (v # <<>> \/ w # <<>> => v \o w # <<>>)
<1>1. PICK S, R : v \in Seq(S) /\ w \in Seq(R)
  BY DEF AreSome
<1> DEFINE U == S \cup R
<1>2. v \in Seq(U) /\ w \in Seq(U)
  BY <1>1, LexemesIn
<1>3. v \o w \in Seq(U) /\ Len(v \o w) = Len(v) + Len(w)
  BY <1>2, ConcatProperties
<1>4. Len(v) \in Nat /\ Len(w) \in Nat /\ (v # <<>> => Len(v) # 0) /\ (w # <<>> => Len(w) # 0)
  BY <1>2, LenProperties, EmptySeq
<1>5. v # <<>> \/ w # <<>> => Len(v \o w) # 0
  BY <1>3, <1>4
<1> QED
  BY <1>3, <1>5 DEF AreSome

LEMMA OneWord ==
    ASSUME NEW word
    PROVE  AreSome(<<word>>) /\ <<word>> # <<>>
<1>1. word \in {word}
  OBVIOUS
<1>2. <<word>> \in Seq({word})
  BY <1>1, OneLexeme
<1> QED
  BY <1>2 DEF AreSome

LEMMA OptionWords ==
    /\ \A f, option : AreSome(Flag(f, option))
    /\ \A f, on : AreSome(Switch(f, on))
    /\ AreSome(<<>>)
<1>1. AreSome(<<>>)
  <2>1. <<>> \in Seq({})
    OBVIOUS
  <2> QED
    BY <2>1 DEF AreSome
<1>2. ASSUME NEW x, NEW y
      PROVE  AreSome(<<x, y>>)
  <2>1. <<x, y>> \in Seq({x, y})
    OBVIOUS
  <2> QED
    BY <2>1 DEF AreSome
<1>3. \A f, option : AreSome(Flag(f, option))
  BY <1>1, <1>2 DEF Flag
<1>4. \A f, on : AreSome(Switch(f, on))
  BY <1>1, OneWord DEF Switch
<1> QED
  BY <1>1, <1>3, <1>4

LEMMA SbatchWords ==
    ASSUME NEW cmd
    PROVE  AreSome(SbatchOptionWords(cmd))
<1>1. \A v, w : AreSome(v) /\ AreSome(w) => AreSome(v \o w)
  BY JoinedWords
<1>2. \A word : AreSome(<<word>>)
  BY OneWord
<1> DEFINE exported == IF cmd.env = <<>> THEN <<>>
                       ELSE <<Lit("--export") \o (Lit("=") \o RenderExport(cmd.env))>>
           nice == IF cmd.nice = {} THEN <<>>
                   ELSE <<Lit("--nice") \o (Lit("=") \o SignedText(CHOOSE n \in cmd.nice : TRUE))>>
<1>3. AreSome(exported) /\ AreSome(nice)
  BY <1>2, OptionWords, Zenon
<1> DEFINE w1 == <<Lit("sbatch")>> \o Flag("-J", cmd.job_name)
           w2 == w1 \o Flag("-p", cmd.partition)
           w3 == w2 \o Flag("-t", TimeWords(cmd.time_limit))
           w4 == w3 \o Flag("--rsc", ResourceWords(cmd.rsc))
           w5 == w4 \o Flag("-o", cmd.output)
           w6 == w5 \o Flag("-e", cmd.error)
           w7 == w6 \o Flag("--chdir", UNION {Absolutize(p) : p \in cmd.chdir})
           w8 == w7 \o Flag("-a", {ArrayText(v) : v \in cmd.array_spec})
           w9 == w8 \o exported
           w10 == w9 \o Flag("-d", {DependencyText(v) : v \in cmd.dependency})
           w11 == w10 \o Flag("--mail-user", cmd.mail_user)
           w12 == w11 \o Flag("--mail-type", {MailTypesText(v) : v \in cmd.mail_types})
           w13 == w12 \o Flag("--signal", {SignalText(v) : v \in cmd.signal})
           w14 == w13 \o Switch("--no-requeue", cmd.no_requeue)
           w15 == w14 \o Flag("--comment", cmd.comment)
           w16 == w15 \o nice
<1>4. SbatchOptionWords(cmd) = w16
  BY Zenon DEF SbatchOptionWords
<1> HIDE DEF exported, nice
<1>5. AreSome(w1) /\ AreSome(w2)
  BY <1>1, <1>2, OptionWords, Zenon
<1> HIDE DEF w2
<1>6. AreSome(w3) /\ AreSome(w4)
  BY <1>1, <1>5, OptionWords, Zenon
<1> HIDE DEF w4
<1>7. AreSome(w5) /\ AreSome(w6)
  BY <1>1, <1>6, OptionWords, Zenon
<1> HIDE DEF w6
<1>8. AreSome(w7) /\ AreSome(w8)
  BY <1>1, <1>7, OptionWords, Zenon
<1> HIDE DEF w8
<1>9. AreSome(w9) /\ AreSome(w10)
  BY <1>1, <1>3, <1>8, OptionWords, Zenon
<1> HIDE DEF w10
<1>10. AreSome(w11) /\ AreSome(w12)
  BY <1>1, <1>9, OptionWords, Zenon
<1> HIDE DEF w12
<1>11. AreSome(w13) /\ AreSome(w14)
  BY <1>1, <1>10, OptionWords, Zenon
<1> HIDE DEF w14
<1>12. AreSome(w15) /\ AreSome(w16)
  BY <1>1, <1>3, <1>11, OptionWords, Zenon
<1> HIDE DEF w16
<1> QED
  BY <1>4, <1>12, Zenon

LEMMA ArgvsOf ==
    ASSUME NEW T, NEW cmd, cmd.script \in Seq(T), cmd.env = <<>>, cmd.chdir = {}, AreSome(cmd.args)
    PROVE  /\ SbatchArgv(cmd) = {} <=> cmd.script = <<>>
           /\ \A argv \in SbatchArgv(cmd) : argv # <<>>
<1> DEFINE scripts == {s \in Absolutize(cmd.script) :
                          Exportable(cmd.env) /\ \A p \in cmd.chdir : Absolutize(p) # {}}
           argv(s) == SbatchOptionWords(cmd) \o <<s>> \o cmd.args
<1>1. SbatchArgv(cmd) = {argv(s) : s \in scripts}
  BY Zenon DEF SbatchArgv, SbatchOptionWords
<1>2. \A s : argv(s) # <<>>
  <2> TAKE s
  <2> DEFINE words == SbatchOptionWords(cmd)
             one == <<s>>
  <2>1. AreSome(words) /\ AreSome(one) /\ one # <<>>
    BY SbatchWords, OneWord
  <2> HIDE DEF words, one
  <2>2. AreSome(words \o one) /\ words \o one # <<>>
    BY <2>1, JoinedWords
  <2> DEFINE both == words \o one
  <2>3. AreSome(both) /\ both # <<>>
    BY <2>2
  <2> HIDE DEF both
  <2>4. both \o cmd.args # <<>>
    BY <2>3, JoinedWords
  <2> QED
    BY <2>4, Zenon DEF both, words, one
<1>3. Exportable(cmd.env)
  BY DEF Exportable
<1>4. scripts = Absolutize(cmd.script)
  BY <1>3
<1> HIDE DEF scripts, argv
<1>5. Absolutize(cmd.script) = {} <=> cmd.script = <<>>
  <2>1. /\ cmd.script = <<>> => Absolutize(cmd.script) = {}
        /\ cmd.script # <<>> => \E q : Absolutize(cmd.script) = {q}
    BY AbsolutizeIs
  <2> QED
    BY <2>1
<1>6. SbatchArgv(cmd) = {} <=> scripts = {}
  BY <1>1
<1>7. \A a \in SbatchArgv(cmd) : a # <<>>
  BY <1>1, <1>2
<1> QED
  BY <1>4, <1>5, <1>6, <1>7

ScriptLexemes == {Sign("run")}

\* What the commands that are submitted have in common.
LEMMA CommonFields ==
    ASSUME NEW c \in SubmittedCommands
    PROVE  /\ {"script", "env", "chdir", "args", "array_spec"} \subseteq DOMAIN c
           /\ c.script \in Seq(ScriptLexemes) /\ c.env = <<>> /\ c.chdir = {} /\ c.args = <<>>
<1> DEFINE o == [x \in DOMAIN Options |-> {}]
           run == Lit("run")
<1>1. "chdir" \in DOMAIN o /\ "array_spec" \in DOMAIN o /\ {"output", "error"} \subseteq DOMAIN o
  BY DEF Options
<1>2. {"script", "env", "args"} \cap DOMAIN o = {}
  BY DEF Options
<1>3. o["chdir"] = {}
  BY <1>1
<1>4. PlainCmd = WithOptions(o, <<>>, FALSE, run, <<>>)
  BY DEF PlainCmd
<1>5. run \in Seq(ScriptLexemes) /\ <<>> \in Seq(ScriptLexemes)
  BY DEF Lit, ScriptLexemes
<1> HIDE DEF o, run
<1>6. /\ {"script", "env", "chdir", "args", "array_spec", "output", "error"} \subseteq DOMAIN PlainCmd
      /\ PlainCmd.script = run /\ PlainCmd.env = <<>> /\ PlainCmd.chdir = {} /\ PlainCmd.args = <<>>
  BY <1>1, <1>2, <1>3, <1>4 DEF WithOptions
<1> DEFINE a == Options.array_spec[1]
           t1 == Lit("%") \o Lit("a") \o Lit(".out")
           t2 == Lit("%") \o Lit("j")
           t3 == Lit("err")
<1>7. c \in {[PlainCmd EXCEPT !.output = {t1}],
             [PlainCmd EXCEPT !.array_spec = {a}, !.output = {t2}, !.error = {t3}],
             [PlainCmd EXCEPT !.script = <<>>]}
  BY Zenon DEF SubmittedCommands
<1> HIDE DEF a, t1, t2, t3
<1>8. CASE c = [PlainCmd EXCEPT !.output = {t1}]
  BY <1>5, <1>6, <1>8
<1>9. CASE c = [PlainCmd EXCEPT !.array_spec = {a}, !.output = {t2}, !.error = {t3}]
  BY <1>5, <1>6, <1>9
<1>10. CASE c = [PlainCmd EXCEPT !.script = <<>>]
  BY <1>5, <1>6, <1>10
<1> QED
  BY <1>7, <1>8, <1>9, <1>10

\* The specification 0-1 stands for two tasks.
LEMMA TaskSpecIsTwo == Len(ExpandArrayIndices(TaskSpec)) = 2
<1> DEFINE made == ExpandArrayIndices(TaskSpec)
           entries == TaskSpec.indices
<1>1. Interval(0, 1) \in ArrayEntry
  BY TextAssumption, ValuesAssumption DEF Interval, ArrayEntry, EntryKind, Few
<1>2. entries = <<Interval(0, 1)>>
  BY DEF TaskSpec
<1>3. entries \in Seq(ArrayEntry) /\ DOMAIN entries = {1} /\ entries[1] = Interval(0, 1)
  BY <1>1, <1>2
<1>4. ToSet(made) = UNION {TasksOf(entries[i]) : i \in DOMAIN entries}
  BY <1>3, ArrayIsItsTasks
<1>5. TasksOf(Interval(0, 1)) = {0, 1}
  BY DEF TasksOf, Interval
<1>6. ToSet(made) = {0, 1}
  <2> DEFINE of(i) == TasksOf(entries[i])
  <2>1. of(1) = {0, 1}
    BY <1>3, <1>5
  <2>2. ToSet(made) = UNION {of(i) : i \in {1}}
    BY <1>3, <1>4
  <2> HIDE DEF of
  <2>3. UNION {of(i) : i \in {1}} = of(1)
    OBVIOUS
  <2> QED
    BY <2>1, <2>2, <2>3, Zenon
<1>7. made \in Seq(Nat) /\ IsInjective(made)
  BY TasksAreTwo
<1> HIDE DEF made
<1> DEFINE n == Len(made)
<1>8. n \in Nat /\ DOMAIN made = 1..n
  BY <1>7, LenProperties
<1>9. \A i, j \in 1..n : made[i] = made[j] => i = j
  BY <1>7, <1>8 DEF IsInjective
<1>10. /\ \A i \in 1..n : made[i] \in {0, 1}
       /\ \E i \in 1..n : made[i] = 0
       /\ \E i \in 1..n : made[i] = 1
  BY <1>6, <1>8 DEF ToSet
<1> HIDE DEF n
<1>11. n >= 2
  BY <1>8, <1>10
<1>12. ASSUME n >= 3 PROVE FALSE
  <2>1. 1 \in 1..n /\ 2 \in 1..n /\ 3 \in 1..n
    BY <1>8, <1>12
  <2>2. made[1] # made[2] /\ made[1] # made[3] /\ made[2] # made[3]
    BY <1>9, <2>1
  <2> QED
    BY <1>10, <2>1, <2>2
<1> QED
  BY <1>8, <1>11, <1>12 DEF n, made

\* The fields of a command that ended.
LEMMA FieldsOfEnds ==
    ASSUME NEW i \in CommandEnds
    PROVE  /\ i.saves \in Nat
           /\ i.process.stdout \in Seq(SubmitLines) /\ i.process.stderr \in ErrorLines
           /\ i.process.end = "signal" => i.process.code = 0
           /\ i.process.gone \in BOOLEAN
<1>1. PICK c \in SubmittedCommands, k \in 0..2, e \in {"exit", "signal", "missing"}, n \in {0, 1},
           out \in BoundedSeq(SubmitLines, 2), err \in ErrorLines, g \in BOOLEAN :
          i = [part |-> "process", cmd |-> c, saves |-> k,
               process |-> [end |-> e, code |-> IF e = "exit" THEN n ELSE 0, stdout |-> out, stderr |-> err,
                           gone |-> g]]
  BY DEF CommandEnds
<1> DEFINE p == [end |-> e, code |-> IF e = "exit" THEN n ELSE 0, stdout |-> out, stderr |-> err,
                 gone |-> g]
<1>2. out \in Seq(SubmitLines)
  BY BoundedSeqs
<1>3. /\ p.stdout = out /\ p.stderr = err /\ p.end = e /\ (e = "signal" => p.code = 0)
      /\ p.gone \in BOOLEAN
  OBVIOUS
<1>4. i = [part |-> "process", cmd |-> c, saves |-> k, process |-> p]
  BY <1>1, Zenon
<1> HIDE DEF p
<1>5. i.saves = k /\ i.process = p
  BY <1>4
<1> QED
  BY <1>2, <1>3, <1>5

\* The lines that are printed.
PrintedLines == SubmitLines \cup UNION {ToSet(err) : err \in ErrorLines}

LEMMA ErrorsAreLines == \A err \in ErrorLines : err \in Seq(PrintedLines)
<1> DEFINE a == <<>>
           b == Lit(" ")
           c == Lit("sbatch: error")
           d == NoSuchJob
<1>1. ErrorLines = {<<>>, <<a, b>>, <<c>>, <<d>>}
  BY Zenon DEF ErrorLines, NoSuchJob
<1> HIDE DEF a, b, c, d
<1>2. ASSUME NEW err \in ErrorLines
      PROVE  \E S : err \in Seq(S)
  <2>1. <<>> \in Seq({a, b, c, d}) /\ <<a, b>> \in Seq({a, b, c, d})
        /\ <<c>> \in Seq({a, b, c, d}) /\ <<d>> \in Seq({a, b, c, d})
    OBVIOUS
  <2> QED
    BY <1>1, <2>1
<1>3. ASSUME NEW err \in ErrorLines
      PROVE  err \in Seq(PrintedLines)
  <2>1. PICK S : err \in Seq(S)
    BY <1>2
  <2>2. ToSet(err) \subseteq PrintedLines
    BY DEF PrintedLines
  <2>3. \A i \in DOMAIN err : err[i] \in PrintedLines
    BY <2>2 DEF ToSet
  <2>4. DOMAIN err = 1..Len(err) /\ Len(err) \in Nat /\ err = [i \in 1..Len(err) |-> err[i]]
    BY <2>1, LenProperties
  <2> QED
    BY <2>3, <2>4
<1> QED
  BY <1>3

\* The path of the script has to be made absolute, and is, while there is a working directory.
LEMMA PathIsMissed ==
    ASSUME NEW script \in Seq(ScriptLexemes), script # <<>>, NEW gone \in BOOLEAN
    PROVE  AbsoluteAfter(script, gone) = {} <=> gone
<1>1. Head(script) = Sign("run")
  <2>1. script[1] \in ScriptLexemes /\ Head(script) = script[1]
    OBVIOUS
  <2> QED
    BY <2>1 DEF ScriptLexemes
<1>2. Sign("run") # Sign("/")
  BY DEF Sign
<1>3. Absolutize(script) # {}
  <2>1. \E q \in Seq(WordLexemes(ScriptLexemes)) : Absolutize(script) = {q}
    BY AbsolutizeIs
  <2> QED
    BY <2>1
<1> QED
  BY <1>1, <1>2, <1>3, Zenon DEF AbsoluteAfter

\* Two indices make two tasks.
LEMMA TasksOfTwo ==
    ASSUME NEW indices \in Seq(Nat), Len(indices) = 2
    PROVE  /\ indices # <<>> /\ DOMAIN indices = 1..2
           /\ [i \in DOMAIN indices |-> {indices[i]}] \in Seq(SUBSET Nat)
           /\ Len([i \in DOMAIN indices |-> {indices[i]}]) = 2
<1>1. DOMAIN indices = 1..2
  BY LenProperties
<1>2. indices # <<>>
  <2>1. Len(<<>>) = 0
    OBVIOUS
  <2>2. indices = <<>> => Len(indices) = 0
    BY <2>1, Zenon
  <2> QED
    BY <2>2
<1>3. \A i \in 1..2 : {indices[i]} \in SUBSET Nat
  <2>1. ASSUME NEW i \in 1..2
        PROVE  indices[i] \in Nat
    BY ElementOfSeq
  <2> QED
    BY <2>1
<1> QED
  BY <1>1, <1>2, <1>3

\* A submission, of one snapshot or of one for each of the two tasks.
LEMMA SpawnsEnd ==
    ASSUME NEW c \in SubmittedCommands, NEW p, p.end = "signal" => p.code = 0, p.gone \in BOOLEAN,
           NEW saves
    PROVE  /\ SubmissionEnds(p, p.end # "missing" /\ c.script # <<>>, saves, 1, Spawn(c, p, saves))
           /\ SubmissionEnds(p, p.end # "missing" /\ c.script # <<>>, saves, 2,
                             SpawnArray(c, TaskSpec, p, saves))
<1> DEFINE ran == p.end # "missing" /\ c.script # <<>>
           ends(needed, r) == SubmissionEnds(p, ran, saves, needed, r)
<1>1. ASSUME NEW cmd, {"script", "env", "chdir", "args"} \subseteq DOMAIN cmd, cmd.script = c.script,
             cmd.env = <<>>, cmd.chdir = {}, cmd.args = <<>>, NEW T, NEW tasks \in Seq(T)
      PROVE  ends(Len(tasks), Submit(cmd, p, tasks, saves))
  <2> DEFINE argvs == SbatchArgv(cmd)
  <2>1. cmd.script \in Seq(ScriptLexemes) /\ AreSome(cmd.args)
    BY <1>1, CommonFields, OptionWords
  <2>2. (argvs = {} <=> c.script = <<>>) /\ \A argv \in argvs : argv # <<>>
    BY <1>1, <2>1, ArgvsOf
  <2>3. Submit(cmd, p, tasks, saves) = Start(cmd, argvs, p, tasks, saves)
    BY Zenon DEF Submit
  <2> HIDE DEF argvs
  <2>6. argvs # {} => (AbsoluteAfter(cmd.script, p.gone) = {} <=> p.gone)
    BY <1>1, <2>1, <2>2, PathIsMissed
  <2>4. SubmissionEnds(p, p.end # "missing" /\ argvs # {}, saves, Len(tasks),
                       Start(cmd, argvs, p, tasks, saves))
    BY <1>1, <2>2, <2>6, StartEnds
  <2>5. (p.end # "missing" /\ argvs # {}) = ran
    BY <2>2
  <2> QED
    BY <2>3, <2>4, <2>5, Zenon
<1> HIDE DEF ends
<1>2. ends(1, Spawn(c, p, saves))
  <2> DEFINE tasks == <<{}>>
  <2>1. tasks \in Seq({{}}) /\ Len(tasks) = 1
    OBVIOUS
  <2>2. Spawn(c, p, saves) = Submit(c, p, tasks, saves)
    BY Zenon DEF Spawn
  <2> HIDE DEF tasks
  <2>3. ends(Len(tasks), Submit(c, p, tasks, saves))
    BY <1>1, <2>1, CommonFields
  <2> QED
    BY <2>1, <2>2, <2>3, Zenon
<1>3. ends(2, SpawnArray(c, TaskSpec, p, saves))
  <2> DEFINE indices == ExpandArrayIndices(TaskSpec)
             tasks == [i \in DOMAIN indices |-> {indices[i]}]
             cmd == [c EXCEPT !.array_spec = {TaskSpec}]
  <2>1. indices \in Seq(Nat) /\ Len(indices) = 2
    BY TasksAreTwo, TaskSpecIsTwo
  <2> HIDE DEF indices
  <2>2. indices # <<>> /\ DOMAIN indices = 1..2
    BY <2>1, TasksOfTwo
  <2>3. tasks \in Seq(SUBSET Nat) /\ Len(tasks) = 2
    BY <2>1, TasksOfTwo
  <2>4. SpawnArray(c, TaskSpec, p, saves) = Submit(cmd, p, tasks, saves)
    BY <2>2, Zenon DEF SpawnArray, indices
  <2>5. /\ {"script", "env", "chdir", "args"} \subseteq DOMAIN cmd /\ cmd.script = c.script
        /\ cmd.env = <<>> /\ cmd.chdir = {} /\ cmd.args = <<>>
    BY CommonFields
  <2> HIDE DEF tasks, cmd
  <2>6. ends(Len(tasks), Submit(cmd, p, tasks, saves))
    BY <1>1, <2>3, <2>5
  <2> QED
    BY <2>3, <2>4, <2>6, Zenon
<1> QED
  BY <1>2, <1>3, Zenon DEF ends

\* The whole of what is said of a command that ended.
LEMMA EndIsTold ==
    ASSUME NEW i \in CommandEnds
    PROVE  LET p == i.process
               cmd == i.cmd
               ran == p.end # "missing" /\ cmd.script # <<>>
               srun(dry) == RunJob(Lit("srun"), cmd.script, dry, p)
               interactive == [partition |-> {}, time_limit |-> {}, rsc |-> {}, x11 |-> FALSE,
                               program |-> cmd.script, args |-> <<>>]
           IN  /\ \A spawned \in {Spawn(cmd, p, i.saves)} :
                     /\ SubmissionIsTold(p, ran, i.saves, 1, spawned)
                     /\ \A later \in Later :
                           RunIsTold(IF ran /\ ~Stranded(p) THEN Announced(p.stdout) ELSE {},
                                     cmd.array_spec = {}, spawned, later, RunWith(cmd, spawned, later))
               /\ SubmissionIsTold(p, ran, i.saves, 2, SpawnArray(cmd, TaskSpec, p, i.saves))
               /\ CancelIsTold(p, Cancel(5, p))
               /\ QueryIsTold(p)
               /\ PyTssrunSpawn(TssrunSpawn(interactive, p)).raised = {} <=> ran
               /\ srun(FALSE) = IF ran THEN {p.code} ELSE {}
               /\ srun(TRUE) = IF cmd.script = <<>> THEN {} ELSE {0}
<1> DEFINE p == i.process
           cmd == i.cmd
           saves == i.saves
           ran == p.end # "missing" /\ cmd.script # <<>>
           one == Spawn(cmd, p, saves)
           two == SpawnArray(cmd, TaskSpec, p, saves)
           interactive == [partition |-> {}, time_limit |-> {}, rsc |-> {}, x11 |-> FALSE,
                           program |-> cmd.script, args |-> <<>>]
<1>1. /\ cmd \in SubmittedCommands /\ saves \in Nat
      /\ p.stdout \in Seq(SubmitLines) /\ p.stderr \in ErrorLines
      /\ p.end = "signal" => p.code = 0
      /\ p.gone \in BOOLEAN
  BY CommandsOfEnds, FieldsOfEnds
<1> HIDE DEF p, cmd, saves
<1>2. p.stdout \in Seq(PrintedLines) /\ p.stderr \in Seq(PrintedLines)
  <2>1. SubmitLines \subseteq PrintedLines
    BY DEF PrintedLines
  <2> QED
    BY <1>1, <2>1, LexemesIn, ErrorsAreLines
<1>3. TellsJobs(p.stdout)
  BY <1>1, JobsAreTold
<1>4. SubmissionEnds(p, ran, saves, 1, one) /\ SubmissionEnds(p, ran, saves, 2, two)
  BY <1>1, SpawnsEnd
<1>5. cmd.script \in Seq(ScriptLexemes)
  BY <1>1, CommonFields
<1>6. ran \in BOOLEAN
  OBVIOUS
<1> HIDE DEF ran, one, two
<1>7. SubmissionIsTold(p, ran, saves, 1, one) /\ SubmissionIsTold(p, ran, saves, 2, two)
  BY <1>1, <1>2, <1>3, <1>4, <1>6, SubmissionTold
<1>8. \A later \in Later :
          RunIsTold(IF ran /\ ~Stranded(p) THEN Announced(p.stdout) ELSE {}, cmd.array_spec = {}, one, later,
                    RunWith(cmd, one, later))
  <2> TAKE later \in Later
  <2>1. 1 \in Nat
    OBVIOUS
  <2> QED
    BY <1>1, <1>2, <1>3, <1>4, <1>6, <2>1, RunTold, Zenon
<1>9. CancelIsTold(p, Cancel(5, p))
  BY <1>1, <1>2, CancelTold
<1>10. QueryIsTold(p)
  BY <1>1, QueryTold
<1>11. PyTssrunSpawn(TssrunSpawn(interactive, p)).raised = {} <=> ran
  <2>1. PyTssrunSpawn(TssrunSpawn(interactive, p)).raised = {} <=> p.end # "missing" /\ cmd.script # <<>>
    BY <1>5, InteractiveTold
  <2> QED
    BY <2>1 DEF ran
<1>12. /\ RunJob(Lit("srun"), cmd.script, FALSE, p) = IF ran THEN {p.code} ELSE {}
       /\ RunJob(Lit("srun"), cmd.script, TRUE, p) = IF cmd.script = <<>> THEN {} ELSE {0}
  <2>1. /\ RunJob(Lit("srun"), cmd.script, FALSE, p)
               = IF p.end # "missing" /\ cmd.script # <<>> THEN {p.code} ELSE {}
        /\ RunJob(Lit("srun"), cmd.script, TRUE, p) = IF cmd.script = <<>> THEN {} ELSE {0}
    BY <1>1, <1>5, SrunTold
  <2> QED
    BY <2>1, Zenon DEF ran
<1>13. \A spawned \in {one} :
           /\ SubmissionIsTold(p, ran, saves, 1, spawned)
           /\ \A later \in Later :
                 RunIsTold(IF ran /\ ~Stranded(p) THEN Announced(p.stdout) ELSE {}, cmd.array_spec = {}, spawned, later,
                           RunWith(cmd, spawned, later))
  BY <1>7, <1>8, Zenon
<1> QED
  BY <1>7, <1>9, <1>10, <1>11, <1>12, <1>13, Zenon DEF p, cmd, saves, ran, one, two, interactive

\* Whoever starts one of the commands of CommandEnds, which end in each of the ways listed
\* there, is told how it ended (sbatch/manager.rs, spawn(), spawn_array(), run() and
\* cancel(), and the Python bindings of them): a job that sbatch says it has submitted is in
\* a handle or named in the error, also if sbatch then fails or a snapshot is not saved, but
\* not if the working directory is gone after sbatch; and what a failing command printed is
\* passed on and never read as an answer.
THEOREM CommandEndsTold == Spec => []CommandEndsAreTold
<1>1. ProcessInv => CommandEndsAreTold
  <2> SUFFICES ASSUME ProcessInv, input.part = "process"
               PROVE  CommandEndsAreTold
    BY Zenon DEF CommandEndsAreTold
  <2>1. input \in CommandEnds
    BY DEF ProcessInv
  <2> QED
    BY <2>1, EndIsTold, Zenon DEF CommandEndsAreTold
<1> QED
  BY <1>1, ProcessInvInit, ProcessInvNext, PTL DEF Spec

-----------------------------------------------------------------------------
(* The vocabulary of states and reasons. *)

StateNames == {
    "Pending", "Configuring", "Requeued", "RequeueFed", "RequeueHold", "ResvDelHold", "Suspended",
    "Stopped", "Running", "Completing", "Resizing", "Signaling", "StageOut", "Completed", "BootFail",
    "Cancelled", "Deadline", "Failed", "NodeFail", "OutOfMemory", "Preempted", "Revoked",
    "SpecialExit", "Timeout"}

LEMMA StatesAreNamed == DOMAIN Tokens = StateNames /\ JobState = StateNames \cup {"Unknown"}
<1>1. DOMAIN Tokens = StateNames
  BY Zenon DEF Tokens, StateNames
<1> QED
  BY <1>1, Zenon DEF JobState

\* The tokens of each state.
LEMMA TokensOfStates ==
    /\ Tokens["Pending"] = {"PENDING", "PD", "QUE"}
    /\ Tokens["Configuring"] = {"CONFIGURING", "CF"}
    /\ Tokens["Requeued"] = {"REQUEUED", "RQ"}
    /\ Tokens["RequeueFed"] = {"REQUEUE_FED", "RF"}
    /\ Tokens["RequeueHold"] = {"REQUEUE_HOLD", "RH"}
    /\ Tokens["ResvDelHold"] = {"RESV_DEL_HOLD", "RD"}
    /\ Tokens["Suspended"] = {"SUSPENDED", "S"}
    /\ Tokens["Stopped"] = {"STOPPED", "ST"}
    /\ Tokens["Running"] = {"RUNNING", "R", "RUN"}
    /\ Tokens["Completing"] = {"COMPLETING", "CG"}
    /\ Tokens["Resizing"] = {"RESIZING", "RS"}
    /\ Tokens["Signaling"] = {"SIGNALING", "SI"}
    /\ Tokens["StageOut"] = {"STAGE_OUT", "SO"}
    /\ Tokens["Completed"] = {"COMPLETED", "CD", "CMP", "FINI"}
    /\ Tokens["BootFail"] = {"BOOT_FAIL", "BF"}
    /\ Tokens["Cancelled"] = {"CANCELLED", "CA"}
    /\ Tokens["Deadline"] = {"DEADLINE", "DL"}
    /\ Tokens["Failed"] = {"FAILED", "F", "FAIL"}
    /\ Tokens["NodeFail"] = {"NODE_FAIL", "NF"}
    /\ Tokens["OutOfMemory"] = {"OUT_OF_MEMORY", "OOM"}
    /\ Tokens["Preempted"] = {"PREEMPTED", "PR"}
    /\ Tokens["Revoked"] = {"REVOKED", "RV"}
    /\ Tokens["SpecialExit"] = {"SPECIAL_EXIT", "SE"}
    /\ Tokens["Timeout"] = {"TIMEOUT", "TO"}
BY Zenon DEF Tokens

\* No token is one of two states.
LEMMA TokensAreApart ==
    ASSUME NEW s \in StateNames, NEW r \in StateNames, NEW token \in Tokens[s], token \in Tokens[r]
    PROVE  s = r
BY TokensOfStates, SMTT(60) DEF StateNames

LEMMA TokenIsParsed ==
    ASSUME NEW s \in StateNames, NEW token \in Tokens[s]
    PROVE  Parse(token) = s
<1>1. \A r \in StateNames : token \in Tokens[r] => r = s
  BY TokensAreApart
<1>2. Parse(token) = IF \E r \in StateNames : token \in Tokens[r]
                     THEN CHOOSE r \in StateNames : token \in Tokens[r] ELSE "Unknown"
  BY StatesAreNamed DEF Parse
<1> HIDE DEF StateNames
<1> QED
  BY <1>1, <1>2

\* The tokens that stand for no state.
LEMMA OtherTokens == Parse("NEW") = "Unknown" /\ Parse("UNKNOWN") = "Unknown"
<1>1. \A s \in StateNames : "NEW" \notin Tokens[s] /\ "UNKNOWN" \notin Tokens[s]
  BY TokensOfStates, SMTT(60) DEF StateNames
<1> QED
  BY <1>1, StatesAreNamed DEF Parse

\* What a state is handed on as is read as that state.
LEMMA StateIsKept == \A s \in JobState : Parse(AsToken[s]) = s
<1>1. \A s \in StateNames : AsToken[s] \in Tokens[s]
  BY TokensOfStates, SMTT(60) DEF StateNames, AsToken
<1>2. AsToken["Unknown"] = "UNKNOWN"
  BY DEF AsToken
<1> QED
  BY <1>1, <1>2, StatesAreNamed, TokenIsParsed, OtherTokens

-----------------------------------------------------------------------------
(* Reasons. *)

LEMMA ReasonNames ==
    /\ "None" \notin KnownReason /\ "Other" \notin KnownReason /\ "ReqNodeNotAvail" \notin KnownReason
    /\ "New" \notin KnownReason /\ " " \notin KnownReason /\ "|" \notin KnownReason
    /\ "NodeNotAvail" \in KnownReason /\ PyNamedReason \subseteq KnownReason
BY SMTT(60) DEF KnownReason, PyNamedReason

LEMMA ReasonTokensDiffer ==
    /\ \A r, q \in KnownReason : ReasonToken(r) = ReasonToken(q) => r = q
    /\ \A r \in KnownReason : ReasonToken(r) \notin {"None", "New", " ", "|"}
<1>1. /\ "None" \notin KnownReason /\ "ReqNodeNotAvail" \notin KnownReason
      /\ "New" \notin KnownReason /\ " " \notin KnownReason /\ "|" \notin KnownReason
  BY ReasonNames
<1> QED
  BY <1>1 DEF ReasonToken

\* Texts that begin and end with something.
LEMMA TrimSolid ==
    ASSUME NEW n \in Nat \ {0}, NEW t, Spelled(t, n), t[1] # Space, t[n] # Space
    PROVE  Trim(t) = t
<1>1. 1 \in 1..n /\ n \in 1..n
  OBVIOUS
<1>2. Trim(t) = SubSeq(t, 1, n)
  BY <1>1, TrimIs
<1>3. PICK T : t \in Seq(T) /\ Len(t) = n
  BY DEF Spelled
<1>4. SubSeq(t, 1, n) = t
  BY <1>3
<1> QED
  BY <1>2, <1>4

LEMMA TrimNone == Trim(<<>>) = <<>> /\ Trim(Lit(" ")) = <<>>
<1>1. Trim(<<>>) = <<>>
  BY DEF Trim
<1> DEFINE t == <<Space>>
<1>2. DOMAIN t = {1} /\ t[1] = Space
  OBVIOUS
<1>3. Lit(" ") = t
  BY Zenon DEF Lit, Space
<1> HIDE DEF t
<1>4. {i \in DOMAIN t : t[i] # Space} = {}
  BY <1>2
<1>5. Trim(t) = <<>>
  BY <1>4, Zenon DEF Trim, Space
<1> QED
  BY <1>1, <1>3, <1>5, Zenon

-----------------------------------------------------------------------------
(* Words.  A sequence without some of its elements, and then one more.        *)

WithoutOf(words, w) == [i \in DOMAIN words |-> IF words[i] = w THEN <<>> ELSE <<words[i]>>]

LEMMA WithoutMore ==
    ASSUME NEW T, NEW words \in Seq(T), NEW p \in T, NEW w
    PROVE  /\ Without(words, w) \in Seq(T)
           /\ Without(Append(words, p), w) =
                 IF p = w THEN Without(words, w) ELSE Append(Without(words, w), p)
<1> DEFINE n == Len(words)
           f == WithoutOf(words, w)
           g == WithoutOf(Append(words, p), w)
           x == IF p = w THEN <<>> ELSE <<p>>
<1>1. n \in Nat /\ DOMAIN words = 1..n /\ \A i \in 1..n : words[i] \in T
  BY LenProperties, ElementOfSeq
<1>2. /\ DOMAIN Append(words, p) = 1..(n + 1) /\ Append(words, p)[n + 1] = p
      /\ \A i \in 1..n : Append(words, p)[i] = words[i]
  BY <1>1
<1>3. \A v \in T : <<v>> \in Seq(T) /\ <<>> \in Seq(T)
  OBVIOUS
<1>4. x \in Seq(T)
  BY <1>3
<1>5. f \in [1..n -> Seq(T)]
  BY <1>1, <1>3 DEF WithoutOf
<1>6. f \in Seq(Seq(T)) /\ Len(f) = n
  BY <1>1, <1>5
<1>7. DOMAIN g = 1..(n + 1) /\ g[n + 1] = x /\ \A i \in 1..n : g[i] = f[i]
  BY <1>1, <1>2 DEF WithoutOf
<1>8. g = [i \in 1..(n + 1) |-> g[i]]
  BY <1>2, Zenon DEF WithoutOf
<1> HIDE DEF f, g, x
<1>9. g \in Seq(Seq(T)) /\ Len(g) = n + 1
  <2>1. \A i \in 1..n : g[i] \in Seq(T)
    BY <1>5, <1>7, Zenon
  <2>2. \A i \in 1..(n + 1) : g[i] \in Seq(T)
    <3>1. \A i \in 1..(n + 1) : i \in 1..n \/ i = n + 1
      BY <1>1
    <3> QED
      BY <1>4, <1>7, <2>1, <3>1, Zenon
  <2>3. g \in [1..(n + 1) -> Seq(T)]
    BY <1>8, <2>2, Zenon
  <2> QED
    BY <1>1, <2>3
<1>10. g = Append(f, x)
  BY <1>4, <1>6, <1>7, <1>9, AppendIs
<1>11. FlattenSeq(f) \in Seq(T) /\ FlattenSeq(g) = FlattenSeq(f) \o x
  BY <1>4, <1>6, <1>10, FlattenMore
<1>12. Without(words, w) = FlattenSeq(f) /\ Without(Append(words, p), w) = FlattenSeq(g)
  BY Zenon DEF Without, f, g, WithoutOf
<1> DEFINE s == FlattenSeq(f)
<1>13. s \in Seq(T) /\ FlattenSeq(g) = s \o x /\ Without(words, w) = s
       /\ Without(Append(words, p), w) = s \o x
  BY <1>11, <1>12
<1> HIDE DEF s
<1>14. p = w => s \o x = s
  BY <1>13 DEF x
<1>15. p # w => s \o x = Append(s, p)
  BY <1>13, AppendIsConcat DEF x
<1> QED
  BY <1>13, <1>14, <1>15, Zenon

LEMMA WithoutNothing == ASSUME NEW w PROVE Without(<<>>, w) = <<>>
<1>1. [i \in DOMAIN <<>> |-> IF <<>>[i] = w THEN <<>> ELSE <<<<>>[i]>>] = <<>>
  OBVIOUS
<1>2. FlattenSeq(<<>>) = <<>>
  BY DEF FlattenSeq
<1> QED
  BY <1>1, <1>2 DEF Without

LEMMA WithoutOne ==
    ASSUME NEW p, NEW w
    PROVE  Without(<<p>>, w) = IF p = w THEN <<>> ELSE <<p>>
<1> DEFINE T == {p}
<1>1. PICK none : none = <<>> /\ none \in Seq(T)
  <2>1. <<>> = <<>> /\ <<>> \in Seq(T)
    OBVIOUS
  <2> QED
    BY <2>1, Zenon
<1> HIDE DEF T
<1>2. p \in T /\ none \in Seq(T)
  BY <1>1 DEF T
<1>3. /\ Without(none, w) \in Seq(T)
      /\ Without(Append(none, p), w) = IF p = w THEN Without(none, w) ELSE Append(Without(none, w), p)
  BY <1>2, WithoutMore
<1>4. Without(none, w) = none
  BY <1>1, WithoutNothing, Zenon
<1>5. Append(none, p) = <<p>>
  BY <1>1
<1> QED
  BY <1>1, <1>3, <1>4, <1>5, Zenon

\* Texts are sequences of these: the words of rows, the numbers, and the space.
OtherWords == {"NEW", "UNKNOWN", "None", "New", "nodes", "by", "batch", "date", "gr1", "user"}
Marks == {"_", ".", "[", "]", "|", ":"}
RowWords == (UNION {Tokens[s] : s \in StateNames}) \cup {ReasonToken(r) : r \in KnownReason} \cup OtherWords
Lexeme == {Sign(w) : w \in RowWords \cup Marks} \cup {Number(n) : n \in Nat} \cup {Space}
Texts == Seq(Lexeme)
Gap == " "
Bar == Sign("|")

LEMMA SplitType ==
    ASSUME NEW t \in Texts, NEW c
    PROVE  Split(t, c) \in Seq(Texts)
<1>1. PICK n \in Nat \ {0} : /\ DOMAIN Split(t, c) = 1..n
                             /\ \A i \in 1..n : Split(t, c)[i] \in Texts
  BY SplitLen DEF Texts
<1> DEFINE s == Split(t, c)
<1>2. s = [i \in 1..n |-> s[i]]
  BY <1>1, SplitIs, Zenon
<1> HIDE DEF s
<1>3. \A i \in 1..n : s[i] \in Texts
  BY <1>1 DEF s
<1>4. s \in [1..n -> Texts]
  BY <1>2, <1>3, Zenon
<1>5. s \in Seq(Texts)
  BY <1>4
<1> QED
  BY <1>5 DEF s

LEMMA WordsMore ==
    ASSUME NEW s \in Texts, NEW p \in Texts, Space \notin ToSet(p)
    PROVE  /\ s \o (Lit(Gap) \o p) \in Texts
           /\ Words(s) \in Seq(Texts)
           /\ Words(s \o (Lit(Gap) \o p)) = IF p = <<>> THEN Words(s) ELSE Append(Words(s), p)
<1> DEFINE u == s \o (Lit(Gap) \o p)
<1>1. Sign(Gap) \in Lexeme /\ Sign(Gap) = Space
  <2>1. Sign(Gap) = Space
    BY Zenon DEF Gap, Space
  <2> QED
    BY <2>1 DEF Lexeme
<1>2. u \in Texts /\ OneMore(Split(s, Gap), Split(u, Gap), p)
  BY <1>1, SplitMore DEF Texts
<1> HIDE DEF u
<1> DEFINE a == Split(s, Gap)
           b == Split(u, Gap)
<1>3. a \in Seq(Texts) /\ b \in Seq(Texts)
  BY <1>2, SplitType
<1> HIDE DEF a, b
<1>4. OneMore(a, b, p)
  BY <1>2 DEF a, b
<1>5. PICK n \in Nat : /\ DOMAIN a = 1..n /\ DOMAIN b = 1..(n + 1)
                       /\ \A k \in 1..n : b[k] = a[k]
                       /\ b[n + 1] = p
  BY <1>4, Zenon DEF OneMore
<1>6. Len(a) = n /\ Len(b) = n + 1
  BY <1>3, <1>5, LenProperties
<1>7. Append(a, p) = b
  BY <1>3, <1>5, <1>6, AppendIs
<1>8. Words(s) = Without(a, <<>>) /\ Words(u) = Without(b, <<>>)
  BY Zenon DEF Words, a, b, Gap
<1>9. /\ Without(a, <<>>) \in Seq(Texts)
      /\ Without(Append(a, p), <<>>) = IF p = <<>> THEN Without(a, <<>>) ELSE Append(Without(a, <<>>), p)
  BY <1>3, WithoutMore
<1>10. Words(s) \in Seq(Texts) /\ Words(u) = IF p = <<>> THEN Words(s) ELSE Append(Words(s), p)
  BY <1>7, <1>8, <1>9, Zenon
<1> QED
  BY <1>2, <1>10 DEF u

LEMMA WordsOne ==
    ASSUME NEW p \in Texts, Space \notin ToSet(p)
    PROVE  Words(p) = IF p = <<>> THEN <<>> ELSE <<p>>
<1>1. Split(p, Gap) = <<p>>
  <2>1. Sign(Gap) \notin ToSet(p)
    BY Zenon DEF Gap, Space
  <2> QED
    BY <2>1, SplitOne DEF Texts
<1>3. Without(<<p>>, <<>>) = IF p = <<>> THEN <<>> ELSE <<p>>
  BY WithoutOne
<1>4. Words(p) = Without(<<p>>, <<>>)
  BY <1>1, Zenon DEF Words, Gap
<1> QED
  BY <1>3, <1>4, Zenon

\* The words of rows hold no space and no divider of columns.
AllTokens == {
    "PENDING", "PD", "QUE", "CONFIGURING", "CF", "REQUEUED", "RQ", "REQUEUE_FED", "RF",
    "REQUEUE_HOLD", "RH", "RESV_DEL_HOLD", "RD", "SUSPENDED", "S", "STOPPED", "ST",
    "RUNNING", "R", "RUN", "COMPLETING", "CG", "RESIZING", "RS", "SIGNALING", "SI",
    "STAGE_OUT", "SO", "COMPLETED", "CD", "CMP", "FINI", "BOOT_FAIL", "BF", "CANCELLED",
    "CA", "DEADLINE", "DL", "FAILED", "F", "FAIL", "NODE_FAIL", "NF", "OUT_OF_MEMORY",
    "OOM", "PREEMPTED", "PR", "REVOKED", "RV", "SPECIAL_EXIT", "SE", "TIMEOUT", "TO"}

LEMMA TokensAreSolid == " " \notin AllTokens /\ "|" \notin AllTokens
BY Zenon DEF AllTokens

LEMMA TokensAreThese == \A s \in StateNames : Tokens[s] \subseteq AllTokens
BY TokensOfStates, SMTT(60) DEF StateNames, AllTokens

LEMMA OtherWordsAreSolid == " " \notin OtherWords /\ "|" \notin OtherWords
BY DEF OtherWords

LEMMA OthersAreWords == OtherWords \subseteq RowWords
BY DEF RowWords

LEMMA WordIsSolid ==
    ASSUME NEW w \in RowWords
    PROVE  Sign(w) \in Lexeme /\ Sign(w) # Space /\ Sign(w) # Bar
<1> DEFINE b == " "
           d == "|"
<1>1. b \notin RowWords /\ d \notin RowWords
  <2>1. \A s \in StateNames : b \notin Tokens[s] /\ d \notin Tokens[s]
    BY TokensAreSolid, TokensAreThese, Zenon
  <2>2. \A r \in KnownReason : ReasonToken(r) # b /\ ReasonToken(r) # d
    BY ReasonTokensDiffer, Zenon
  <2>3. b \notin OtherWords /\ d \notin OtherWords
    BY OtherWordsAreSolid
  <2> HIDE DEF b, d
  <2>4. \A v \in RowWords : \/ \E s \in StateNames : v \in Tokens[s]
                            \/ \E r \in KnownReason : v = ReasonToken(r)
                            \/ v \in OtherWords
    BY DEF RowWords
  <2> QED
    BY <2>1, <2>2, <2>3, <2>4, Zenon
<1>2. Space = Sign(b) /\ Bar = Sign(d)
  BY Zenon DEF Space, Bar
<1> HIDE DEF b, d
<1>3. \A v, u : Sign(v) = Sign(u) => v = u
  BY DEF Sign
<1>4. Sign(w) \in Lexeme
  BY Zenon DEF Lexeme
<1> QED
  BY <1>1, <1>2, <1>3, <1>4, Zenon

\* A text of one word.
IsWord(t, w) ==
    /\ t \in Texts /\ t # <<>> /\ Space \notin ToSet(t) /\ ToSet(t) = {Sign(w)}
    /\ Len(t) = 1 /\ t[1].is = w
    /\ Words(t) = <<t>> /\ Trim(t) = t

LEMMA WordOfRow == ASSUME NEW w \in RowWords PROVE IsWord(Lit(w), w)
<1> DEFINE x == Sign(w)
           t == <<x>>
<1>1. x.is = w
  BY DEF Sign
<1>2. x \in Lexeme /\ x # Space
  BY WordIsSolid
<1> HIDE DEF x
<1>3. t \in Texts /\ t # <<>> /\ Len(t) = 1 /\ t[1] = x
  BY <1>2 DEF Texts
<1>4. ToSet(t) = {x}
  BY <1>2, OneLexeme
<1> HIDE DEF t
<1>5. Words(t) = <<t>>
  BY <1>2, <1>3, <1>4, WordsOne
<1>6. Spelled(t, 1)
  BY <1>3 DEF Spelled, Texts
<1>7. Trim(t) = t
  BY <1>2, <1>3, <1>6, TrimSolid
<1>8. Lit(w) = t
  BY DEF Lit, t, x
<1>9. t[1].is = w
  BY <1>1, <1>3
<1>10. ToSet(t) = {Sign(w)} /\ Space \notin ToSet(t)
  BY <1>2, <1>4 DEF x
<1>11. IsWord(t, w)
  BY <1>3, <1>5, <1>7, <1>9, <1>10 DEF IsWord
<1> QED
  BY <1>8, <1>11, Zenon

LEMMA WordIsState ==
    ASSUME NEW w \in RowWords
    PROVE  ParseState(Lit(w)) = Parse(w)
<1> DEFINE t == Lit(w)
<1>1. Words(t) = <<t>> /\ t[1].is = w
  BY WordOfRow, Zenon DEF IsWord
<1> HIDE DEF t
<1>2. <<t>> # <<>> /\ Head(<<t>>) = t
  OBVIOUS
<1>3. ParseState(t) = Parse(t[1].is)
  BY <1>1, <1>2, Zenon DEF ParseState
<1> QED
  BY <1>1, <1>3, Zenon DEF t

\* With the one who cancelled the job behind it, a state is read as itself.
By12 == Lit(" ") \o Lit("by") \o Lit(" ") \o Dec(12)

LEMMA LexemesOfBy ==
    /\ Lit("by") \in Texts /\ Dec(12) \in Texts /\ Lit(Gap) \in Texts
    /\ Space \notin ToSet(Lit("by")) /\ Space \notin ToSet(Dec(12))
    /\ Lit("by") # <<>> /\ Dec(12) # <<>>
<1>1. "by" \in RowWords
  <2>1. "by" \in OtherWords
    BY DEF OtherWords
  <2> QED
    BY <2>1, OthersAreWords
<1>2. Lit("by") \in Texts /\ Space \notin ToSet(Lit("by")) /\ Lit("by") # <<>>
  BY <1>1, WordOfRow DEF IsWord
<1> DEFINE x == Number(12)
           y == Space
<1>3. x \in Lexeme /\ y \in Lexeme
  BY DEF Number, Lexeme
<1>4. x # Space
  BY LexemesOfLines, Zenon
<1> HIDE DEF x, y
<1>5. <<x>> \in Texts /\ <<y>> \in Texts /\ ToSet(<<x>>) = {x} /\ <<x>> # <<>>
  BY <1>3, OneLexeme DEF Texts
<1>6. Dec(12) = <<x>> /\ Lit(Gap) = <<y>>
  BY Zenon DEF Dec, Lit, Gap, x, y, Space
<1>7. Lit(Gap) \in Texts
  BY <1>5, <1>6, Zenon
<1>8. Dec(12) \in Texts /\ Dec(12) # <<>> /\ Space \notin ToSet(Dec(12))
  <2>1. Space \notin ToSet(<<x>>)
    BY <1>4, <1>5 DEF x
  <2> QED
    BY <1>5, <1>6, <2>1, Zenon
<1> QED
  BY <1>2, <1>7, <1>8, Zenon

LEMMA ThenAgain ==
    ASSUME NEW s \in Texts, NEW p \in Texts, NEW v \in Texts
    PROVE  s \o p \in Texts /\ (s \o p) \o v = s \o (p \o v)
<1>1. s \o p \in Texts
  BY ConcatProperties DEF Texts
<1>2. Then(Then(s, p), v) = Then(s, Then(p, v))
  BY ThenIsAssociative DEF Texts
<1> QED
  BY <1>1, <1>2, Zenon DEF Then

LEMMA ByIs ==
    ASSUME NEW t \in Texts
    PROVE  t \o By12 = (t \o (Lit(Gap) \o Lit("by"))) \o (Lit(Gap) \o Dec(12))
<1> DEFINE b == Lit(Gap)
           w == Lit("by")
           d == Dec(12)
<1>1. b \in Texts /\ w \in Texts /\ d \in Texts
  BY LexemesOfBy
<1>2. By12 = ((b \o w) \o b) \o d
  BY Zenon DEF By12, Gap
<1> HIDE DEF b, w, d
<1>3. b \o w \in Texts /\ b \o d \in Texts
  BY <1>1, ThenAgain
<1>4. ((b \o w) \o b) \o d = (b \o w) \o (b \o d)
  <2> DEFINE v == b \o w
  <2>1. v \in Texts
    BY <1>3
  <2> HIDE DEF v
  <2>2. (v \o b) \o d = v \o (b \o d)
    BY <1>1, <2>1, ThenAgain
  <2> QED
    BY <2>2 DEF v
<1>5. (t \o (b \o w)) \o (b \o d) = t \o ((b \o w) \o (b \o d))
  BY <1>1, <1>3, ThenAgain
<1> QED
  BY <1>2, <1>4, <1>5, Zenon DEF b, w, d

LEMMA StateWithBy ==
    ASSUME NEW w \in RowWords
    PROVE  ParseState(Lit(w) \o By12) = Parse(w)
<1> DEFINE t == Lit(w)
           u == t \o (Lit(Gap) \o Lit("by"))
           v == u \o (Lit(Gap) \o Dec(12))
<1>1. Words(t) = <<t>> /\ t[1].is = w /\ t \in Texts
  BY WordOfRow, Zenon DEF IsWord
<1> HIDE DEF t
<1>2. u \in Texts /\ Words(u) = Append(Words(t), Lit("by")) /\ Words(t) \in Seq(Texts)
  BY <1>1, LexemesOfBy, WordsMore
<1> HIDE DEF u
<1>3. Words(v) = Append(Words(u), Dec(12)) /\ Words(u) \in Seq(Texts)
  BY <1>2, LexemesOfBy, WordsMore
<1>4. Words(v) = Append(Append(<<t>>, Lit("by")), Dec(12))
  BY <1>1, <1>2, <1>3, Zenon
<1>5. t \o By12 = v
  BY <1>1, ByIs, Zenon DEF u
<1> HIDE DEF v
<1> DEFINE ws == Words(v)
<1>6. ws # <<>> /\ Head(ws) = t
  <2> DEFINE x == Lit("by")
             y == Dec(12)
  <2> HIDE DEF x, y
  <2>1. Append(Append(<<t>>, x), y) # <<>> /\ Head(Append(Append(<<t>>, x), y)) = t
    OBVIOUS
  <2> QED
    BY <1>4, <2>1, Zenon DEF x, y
<1> HIDE DEF ws
<1>7. ParseState(v) = Parse(t[1].is)
  BY <1>6, Zenon DEF ParseState, ws
<1> QED
  BY <1>1, <1>5, <1>7, Zenon DEF t

-----------------------------------------------------------------------------
(* A reason is read as itself, and so is what it is handed on as. *)

LEMMA OtherReasonWords == {"None", "New", "nodes", "NEW", "by", "batch", "date", "gr1", "user"} \subseteq RowWords
<1>1. {"None", "New", "nodes", "NEW", "by", "batch", "date", "gr1", "user"} \subseteq OtherWords
  BY DEF OtherWords
<1> QED
  BY <1>1, OthersAreWords

\* The word of a reason, or what is none.
LEMMA ReasonOfWord ==
    ASSUME NEW w \in RowWords, w # "None"
    PROVE  /\ \A r \in KnownReason : ReasonToken(r) = w => ParseReason(Lit(w)) = Known(r)
           /\ (\A r \in KnownReason : ReasonToken(r) # w) => ParseReason(Lit(w)) = Other(Lit(w))
<1> DEFINE t == Lit(w)
           none == Lit("None")
           e == <<>>
<1>1. t # e /\ Len(t) = 1 /\ t[1].is = w /\ Trim(t) = t
  BY WordOfRow DEF IsWord
<1>2. t # none
  <2>1. "None" \in RowWords
    BY OtherReasonWords
  <2>2. none[1].is = "None"
    BY <2>1, WordOfRow DEF IsWord
  <2> HIDE DEF none, t
  <2> QED
    BY <1>1, <2>2
<1> HIDE DEF t, e, none
<1>3. t \notin {e, none}
  BY <1>1, <1>2, Zenon
<1>4. ASSUME NEW r \in KnownReason, ReasonToken(r) = w
      PROVE  ParseReason(t) = Known(r)
  <2> DEFINE c == CHOOSE q \in KnownReason : ReasonToken(q) = w
  <2>1. c \in KnownReason /\ ReasonToken(c) = w
    BY <1>4, Zenon
  <2>2. c = r
    BY <1>4, <2>1, ReasonTokensDiffer, Zenon
  <2>3. ParseReason(t) = IF t \in {e, none} THEN NoReason
                         ELSE IF Len(t) = 1 /\ \E q \in KnownReason : ReasonToken(q) = t[1].is
                         THEN Known(CHOOSE q \in KnownReason : ReasonToken(q) = t[1].is)
                         ELSE Other(t)
    BY <1>1, Zenon DEF ParseReason, e, none
  <2>4. ParseReason(t) = Known(c)
    BY <1>1, <1>3, <1>4, <2>3, Zenon
  <2> QED
    BY <2>2, <2>4, Zenon
<1>5. ASSUME \A r \in KnownReason : ReasonToken(r) # w
      PROVE  ParseReason(t) = Other(t)
  BY <1>1, <1>3, <1>5, Zenon DEF ParseReason, e, none
<1> QED
  BY <1>4, <1>5, Zenon DEF t

\* Nothing, space, and the word for it are no reason.
LEMMA NoneIsRead ==
    ParseReason(<<>>) = NoReason /\ ParseReason(Lit(" ")) = NoReason /\ ParseReason(Lit("None")) = NoReason
<1>1. Trim(Lit("None")) = Lit("None")
  BY OtherReasonWords, WordOfRow DEF IsWord
<1>2. Trim(<<>>) = <<>> /\ Trim(Lit(" ")) = <<>>
  BY TrimNone, Zenon
<1> QED
  BY <1>1, <1>2, Zenon DEF ParseReason

NewNodes == Lit("New") \o Lit(" ") \o Lit("nodes")

LEMMA NewNodesIs ==
    /\ NewNodes = <<Sign("New"), Space, Sign("nodes")>> /\ NewNodes \in Texts /\ Len(NewNodes) = 3
    /\ ToSet(NewNodes) = {Sign("New"), Space, Sign("nodes")}
    /\ Trim(NewNodes) = NewNodes /\ Len(Words(NewNodes)) = 2
<1> DEFINE x == Sign("New")
           y == Sign("nodes")
           t == <<x, Space, y>>
<1>1. x \in Lexeme /\ y \in Lexeme /\ x # Space /\ y # Space /\ Space \in Lexeme
  BY OtherReasonWords, WordIsSolid DEF Lexeme
<1>2. Lit("New") = <<x>> /\ Lit("nodes") = <<y>> /\ Lit(" ") = <<Space>> /\ Lit(Gap) = <<Space>>
  BY Zenon DEF Lit, Space, Gap
<1> HIDE DEF x, y
<1>3. (<<x>> \o <<Space>>) \o <<y>> = t
  BY <1>1, AppendedOnes
<1>4. NewNodes = t
  BY <1>2, <1>3, Zenon DEF NewNodes
<1>5. t \in Texts /\ Len(t) = 3 /\ t[1] = x /\ t[3] = y /\ t[2] = Space
  BY <1>1 DEF Texts
<1> HIDE DEF t
<1>6. ToSet(t) = {x, Space, y}
  BY <1>5 DEF ToSet, Texts
<1>7. Spelled(t, 3)
  BY <1>5 DEF Spelled, Texts
<1>8. Trim(t) = t
  BY <1>1, <1>5, <1>7, TrimSolid
<1>9. Len(Words(t)) = 2
  <2> DEFINE p == <<x>>
             q == <<y>>
             g == <<Space>>
  <2>1. /\ p \in Texts /\ q \in Texts /\ g \in Texts /\ p # <<>> /\ q # <<>>
        /\ Space \notin ToSet(p) /\ Space \notin ToSet(q)
    BY <1>1, OneLexeme DEF Texts
  <2> HIDE DEF p, q, g
  <2>2. p \o (g \o q) = t
    BY <2>1, <1>3, ThenAgain, SMTT(30) DEF p, q, g
  <2>3. Words(p) = <<p>>
    BY <2>1, WordsOne, Zenon
  <2>5. g = Lit(Gap)
    BY <1>2, Zenon DEF g
  <2>6. Words(p \o (g \o q)) = Append(Words(p), q)
    BY <2>1, <2>5, WordsMore, Zenon
  <2>4. Len(Append(<<p>>, q)) = 2
    OBVIOUS
  <2> QED
    BY <2>2, <2>3, <2>4, <2>6, Zenon
<1> QED
  BY <1>4, <1>5, <1>6, <1>8, <1>9, Zenon DEF t, x, y

LEMMA NewNodesIsRead == ParseReason(NewNodes) = Other(NewNodes)
<1> DEFINE t == NewNodes
           none == Lit("None")
           e == <<>>
<1>1. t # e /\ Len(t) = 3 /\ Trim(t) = t
  BY NewNodesIs
<1>2. t # none
  <2>1. Len(none) = 1
    BY OtherReasonWords, WordOfRow DEF IsWord
  <2> HIDE DEF none, t
  <2> QED
    BY <1>1, <2>1
<1> HIDE DEF t, e, none
<1>3. t \notin {e, none} /\ Len(t) # 1
  BY <1>1, <1>2
<1>4. ParseReason(t) = Other(t)
  BY <1>1, <1>3, Zenon DEF ParseReason, e, none
<1> QED
  BY <1>4 DEF t

\* What a row says of a reason.
IsReason(reason, words) ==
    /\ words \in Texts /\ Bar \notin ToSet(words)
    /\ ParseReason(words) = reason /\ ParseReason(ReasonText(reason)) = reason
    /\ \/ words = <<>> \/ words = Lit(" ") \/ words = NewNodes
       \/ \E w \in RowWords : words = Lit(w)
    /\ \/ \E k \in KnownReason : reason = Known(k)
       \/ reason = NoReason
       \/ \E t : reason = Other(t)

LEMMA BarIsNot == Bar # Space /\ (\A n : Number(n) # Bar)
<1> DEFINE b == " "
           d == "|"
           e == "number"
<1>1. b # d /\ e # d
  OBVIOUS
<1>2. Space = Sign(b) /\ Bar = Sign(d)
  BY Zenon DEF Space, Bar
<1>3. \A v, u : Sign(v) = Sign(u) => v = u
  BY DEF Sign
<1>4. \A n, v : Number(n) = Sign(v) => v = e
  BY DEF Sign, Number
<1> HIDE DEF b, d, e
<1> QED
  BY <1>1, <1>2, <1>3, <1>4, Zenon

LEMMA ReasonTextIs ==
    /\ \A k \in KnownReason : ReasonText(Known(k)) = Lit(ReasonToken(k))
    /\ ReasonText(NoReason) = Lit("None")
    /\ \A t : ReasonText(Other(t)) = t
<1>1. /\ \A k : Known(k).name = k
      /\ NoReason.name = "None" /\ \A t : Other(t).name = "Other" /\ Other(t).text = t
  BY DEF Known, NoReason, Other
<1>2. "None" \notin KnownReason /\ "Other" \notin KnownReason /\ "Other" # "None"
  BY ReasonNames
<1>3. ASSUME NEW k \in KnownReason
      PROVE  ReasonText(Known(k)) = Lit(ReasonToken(k))
  <2>1. Known(k).name = k /\ k # "None" /\ k # "Other"
    BY <1>1, <1>2
  <2> QED
    BY <2>1, <1>3, Zenon DEF ReasonText
<1>4. ReasonText(NoReason) = Lit("None")
  BY <1>1, <1>2, Zenon DEF ReasonText
<1>5. ASSUME NEW t
      PROVE  ReasonText(Other(t)) = t
  <2>1. Other(t).name = "Other" /\ Other(t).text = t
    BY <1>1
  <2> QED
    BY <2>1, <1>2, Zenon DEF ReasonText
<1> QED
  BY <1>3, <1>4, <1>5, Zenon

LEMMA WordLacksBar ==
    ASSUME NEW w \in RowWords
    PROVE  Lit(w) \in Texts /\ Bar \notin ToSet(Lit(w))
<1>1. ToSet(Lit(w)) = {Sign(w)} /\ Lit(w) \in Texts /\ Sign(w) # Bar
  BY WordOfRow, WordIsSolid DEF IsWord
<1> QED
  BY <1>1

LEMMA KnownIsReason ==
    ASSUME NEW k \in KnownReason
    PROVE  IsReason(Known(k), Lit(ReasonToken(k)))
<1> DEFINE w == ReasonToken(k)
           t == Lit(w)
<1>1. w \in RowWords /\ w # "None" /\ ReasonToken(k) = w
  BY ReasonTokensDiffer DEF RowWords
<1>2. ReasonText(Known(k)) = t
  BY ReasonTextIs
<1> HIDE DEF w
<1>3. ParseReason(t) = Known(k) /\ t \in Texts /\ Bar \notin ToSet(t)
  BY <1>1, ReasonOfWord, WordLacksBar
<1>4. \E v \in RowWords : t = Lit(v)
  BY <1>1
<1> HIDE DEF t
<1> QED
  BY <1>2, <1>3, <1>4, Zenon DEF IsReason, t, w

LEMMA NoneIsReason ==
    IsReason(NoReason, <<>>) /\ IsReason(NoReason, Lit("None")) /\ IsReason(NoReason, Lit(" "))
<1> DEFINE e == <<>>
           g == Lit(" ")
           n == Lit("None")
<1>1. e \in Texts /\ Bar \notin ToSet(e)
  BY DEF Texts, ToSet
<1>2. g \in Texts /\ Bar \notin ToSet(g)
  <2> DEFINE s == <<Space>>
  <2>1. s \in Texts /\ ToSet(s) = {Space}
    BY OneLexeme DEF Texts, Lexeme
  <2>2. g = s
    BY Zenon DEF Lit, Space
  <2>3. Bar \notin ToSet(s)
    BY <2>1, BarIsNot
  <2> QED
    BY <2>1, <2>2, <2>3, Zenon
<1>3. "None" \in RowWords
  BY OtherReasonWords
<1>4. n \in Texts /\ Bar \notin ToSet(n) /\ \E w \in RowWords : n = Lit(w)
  BY <1>3, WordLacksBar
<1>5. ParseReason(e) = NoReason /\ ParseReason(g) = NoReason /\ ParseReason(n) = NoReason
      /\ ReasonText(NoReason) = n
  BY NoneIsRead, ReasonTextIs, Zenon
<1> HIDE DEF n
<1>6. IsReason(NoReason, e) /\ IsReason(NoReason, g)
  BY <1>1, <1>2, <1>5, Zenon DEF IsReason
<1>7. IsReason(NoReason, n)
  BY <1>4, <1>5, Zenon DEF IsReason
<1> QED
  BY <1>6, <1>7, Zenon DEF n

LEMMA OtherIsReason ==
    IsReason(Other(Lit("New")), Lit("New")) /\ IsReason(Other(NewNodes), NewNodes)
<1> DEFINE w == "New"
           t == Lit(w)
           u == NewNodes
<1>1. w \in RowWords /\ w # "None" /\ \A r \in KnownReason : ReasonToken(r) # w
  BY OtherReasonWords, ReasonTokensDiffer
<1>2. ReasonText(Other(t)) = t /\ ReasonText(Other(u)) = u
  BY ReasonTextIs, Zenon
<1> HIDE DEF w
<1>3. ParseReason(t) = Other(t) /\ t \in Texts /\ Bar \notin ToSet(t)
  BY <1>1, ReasonOfWord, WordLacksBar
<1>4. \E v \in RowWords : t = Lit(v)
  BY <1>1
<1> HIDE DEF t
<1>5. IsReason(Other(t), t)
  BY <1>2, <1>3, <1>4, Zenon DEF IsReason
<1>6. ParseReason(u) = Other(u)
  BY NewNodesIsRead
<1>7. u \in Texts /\ u = NewNodes /\ Bar \notin ToSet(u)
  <2>1. "New" \in RowWords /\ "nodes" \in RowWords
    BY OtherReasonWords
  <2>2. Sign("New") # Bar /\ Sign("nodes") # Bar /\ Space # Bar
    BY <2>1, WordIsSolid, BarIsNot
  <2> QED
    BY <2>2, NewNodesIs
<1> HIDE DEF u
<1>8. IsReason(Other(u), u)
  BY <1>2, <1>6, <1>7, Zenon DEF IsReason
<1> QED
  BY <1>5, <1>8, Zenon DEF t, u, w

LEMMA PrintedAreReasons == \A r \in PrintedReasons : IsReason(r.is, r.text)
<1> SUFFICES ASSUME NEW r \in PrintedReasons
             PROVE  IsReason(r.is, r.text)
  OBVIOUS
<1> DEFINE e == <<>>
           g == Lit(" ")
           n == Lit("None")
           t == Lit("New")
           u == NewNodes
           say(is, text) == [is |-> is, text |-> text]
<1>1. \/ \E k \in KnownReason : r = say(Known(k), Lit(ReasonToken(k)))
      \/ \E v \in {e, n, g} : r = say(NoReason, v)
      \/ \E v \in {t, u} : r = say(Other(v), v)
  BY Zenon DEF PrintedReasons, NewNodes
<1>2. \A is, text : say(is, text).is = is /\ say(is, text).text = text
  OBVIOUS
<1> HIDE DEF e, g, n, t, u, say
<1>3. \/ \E k \in KnownReason : r = say(Known(k), Lit(ReasonToken(k)))
      \/ r = say(NoReason, e) \/ r = say(NoReason, n) \/ r = say(NoReason, g)
      \/ r = say(Other(t), t) \/ r = say(Other(u), u)
  BY <1>1, Zenon
<1>4. \A is, text : r = say(is, text) => r.is = is /\ r.text = text
  BY <1>2, Zenon
<1>5. /\ IsReason(NoReason, e) /\ IsReason(NoReason, n) /\ IsReason(NoReason, g)
      /\ IsReason(Other(t), t) /\ IsReason(Other(u), u)
  BY NoneIsReason, OtherIsReason, Zenon DEF e, n, g, t, u
<1>6. CASE \E k \in KnownReason : r = say(Known(k), Lit(ReasonToken(k)))
  BY <1>4, <1>6, KnownIsReason, Zenon
<1> QED
  BY <1>3, <1>4, <1>5, <1>6, Zenon

\* What a row says of a state.
IsState(state, token) == state \in JobState /\ \E w \in RowWords : token = Lit(w) /\ Parse(w) = state

RowFits(row) ==
    /\ row.part = "listed"
    /\ row.id \in RowIds /\ row.exit \in Exits
    /\ IsState(row.state, row.token) /\ IsReason(row.reason, row.words)

LEMMA PrintedAreStates ==
    ASSUME NEW s \in PrintedStates,
           \/ s.is = "Unknown" /\ s.text = Lit("NEW")
           \/ s.is # "Unknown" /\ s.text[1].is \in Tokens[s.is]
    PROVE  IsState(s.is, s.text)
<1>1. PICK state \in JobState, token \in (UNION {Tokens[t] : t \in DOMAIN Tokens}) \cup {"NEW"} :
          s = [is |-> state, text |-> Lit(token)]
  BY DEF PrintedStates
<1>2. s.is = state /\ s.text = Lit(token)
  BY <1>1
<1>3. token \in RowWords
  <2>1. "NEW" \in RowWords
    BY OtherReasonWords
  <2>2. token \in UNION {Tokens[t] : t \in StateNames} \/ token = "NEW"
    BY <1>1, StatesAreNamed, Zenon
  <2> QED
    BY <2>1, <2>2, Zenon DEF RowWords
<1>4. s.text[1].is = token
  BY <1>2, <1>3, WordOfRow, Zenon DEF IsWord
<1>5. CASE s.is = "Unknown" /\ s.text = Lit("NEW")
  <2>1. "NEW" \in RowWords /\ Parse("NEW") = s.is
    BY <1>5, OtherReasonWords, OtherTokens
  <2> QED
    BY <1>2, <1>5, <2>1, Zenon DEF IsState
<1>6. CASE s.is # "Unknown" /\ s.text[1].is \in Tokens[s.is]
  <2>1. s.is \in StateNames /\ token \in Tokens[s.is]
    BY <1>2, <1>4, <1>6, StatesAreNamed
  <2>2. Parse(token) = s.is
    BY <2>1, TokenIsParsed
  <2> QED
    BY <1>2, <1>3, <2>2, Zenon DEF IsState
<1> QED
  BY <1>5, <1>6

LEMMA ExitsAreThere == (CHOOSE e \in Exits : TRUE) \in Exits
<1>1. [text |-> <<>>, code |-> {}] \in Exits
  BY Zenon DEF Exits
<1> QED
  BY <1>1, Zenon

RowOf(i, s, by, r, e) ==
    [part |-> "listed", id |-> i, state |-> s.is, token |-> s.text, by |-> by,
     reason |-> r.is, words |-> r.text, exit |-> e]

LEMMA RowsAreOf ==
    ASSUME NEW row \in ListedRows
    PROVE  \E i \in RowIds, by \in BOOLEAN, r \in PrintedReasons, e \in Exits, s \in PrintedStates :
               /\ \/ s.is = "Unknown" /\ s.text = Lit("NEW")
                  \/ s.is # "Unknown" /\ s.text[1].is \in Tokens[s.is]
               /\ row = RowOf(i, s, by, r, e)
<1> DEFINE few == {s \in ShownStates : s.text \in {Lit("PD"), Lit("NEW")}}
           unusual == {r \in PrintedReasons : r.text = <<>> \/ r.is.name = "Other"}
           one == {CHOOSE e \in Exits : TRUE}
           five == {Dec(5)}
<1>1. five \subseteq RowIds
  BY Zenon DEF RowIds
<1>2. few \subseteq ShownStates /\ unusual \subseteq PrintedReasons /\ one \subseteq Exits
  BY ExitsAreThere
<1>3. ListedRows = RowsOf(five, ShownStates, unusual, one)
                       \cup RowsOf(RowIds, few, unusual, Exits) \cup RowsOf(five, few, PrintedReasons, Exits)
  BY Zenon DEF ListedRows
<1> HIDE DEF few, unusual, one, five
<1>4. \/ row \in RowsOf(five, ShownStates, unusual, one)
      \/ row \in RowsOf(RowIds, few, unusual, Exits)
      \/ row \in RowsOf(five, few, PrintedReasons, Exits)
  BY <1>3, Zenon
<1>5. \E i \in RowIds, s \in ShownStates, by \in BOOLEAN, r \in PrintedReasons, e \in Exits :
          row = RowOf(i, s, by, r, e)
  <2>1. CASE row \in RowsOf(five, ShownStates, unusual, one)
    BY <1>1, <1>2, <2>1 DEF RowsOf, RowOf
  <2>2. CASE row \in RowsOf(RowIds, few, unusual, Exits)
    BY <1>1, <1>2, <2>2 DEF RowsOf, RowOf
  <2>3. CASE row \in RowsOf(five, few, PrintedReasons, Exits)
    BY <1>1, <1>2, <2>3 DEF RowsOf, RowOf
  <2> QED
    BY <1>4, <2>1, <2>2, <2>3
<1> QED
  BY <1>5, Zenon DEF ShownStates

LEMMA ListedRowsFit == \A row \in ListedRows : RowFits(row)
<1> SUFFICES ASSUME NEW row \in ListedRows
             PROVE  RowFits(row)
  OBVIOUS
<1>1. PICK i \in RowIds, by \in BOOLEAN, r \in PrintedReasons, e \in Exits, s \in PrintedStates :
          /\ \/ s.is = "Unknown" /\ s.text = Lit("NEW")
             \/ s.is # "Unknown" /\ s.text[1].is \in Tokens[s.is]
          /\ row = RowOf(i, s, by, r, e)
  BY RowsAreOf, Zenon
<1>2. IsState(s.is, s.text)
  BY <1>1, PrintedAreStates, Zenon
<1>3. IsReason(r.is, r.text)
  BY PrintedAreReasons, Zenon
<1>4. /\ row.part = "listed" /\ row.id = i /\ row.exit = e /\ row.state = s.is /\ row.token = s.text
      /\ row.reason = r.is /\ row.words = r.text
  BY <1>1 DEF RowOf
<1> QED
  BY <1>2, <1>3, <1>4, Zenon DEF RowFits

-----------------------------------------------------------------------------
(* Where a status goes it arrives. *)

LEMMA StateArrives ==
    ASSUME NEW state \in JobState
    PROVE  ParseState(Lit(AsToken[state])) = state
<1>1. AsToken[state] \in RowWords
  <2>1. \A s \in StateNames : AsToken[s] \in Tokens[s]
    BY TokensOfStates, SMTT(60) DEF StateNames, AsToken
  <2>2. AsToken["Unknown"] = "UNKNOWN"
    BY DEF AsToken
  <2>3. "UNKNOWN" \in RowWords
    <3>1. "UNKNOWN" \in OtherWords
      BY DEF OtherWords
    <3> QED
      BY <3>1, OthersAreWords
  <2>4. state \in StateNames \/ state = "Unknown"
    BY StatesAreNamed, Zenon
  <2>5. ASSUME state \in StateNames PROVE AsToken[state] \in RowWords
    BY <2>1, <2>5, Zenon DEF RowWords
  <2> QED
    BY <2>2, <2>3, <2>4, <2>5, Zenon
<1>2. ParseState(Lit(AsToken[state])) = Parse(AsToken[state])
  BY <1>1, WordIsState, Zenon
<1> QED
  BY <1>2, StateIsKept, Zenon

LEMMA ReasonArrives ==
    ASSUME NEW reason, NEW words, IsReason(reason, words)
    PROVE  /\ PyReason("parse", words) = reason
           /\ SavedReason(reason) = reason
           /\ SavedReason(PyReason("other", words)) = reason
           /\ \A how \in PyNamedReason \cup {"none"} :
                 PyReason(how, <<>>) = reason <=>
                     PyReasonName(reason) = IF how = "none" THEN "None" ELSE how
<1>1. "none" \notin PyNamedReason /\ "parse" \notin PyNamedReason /\ "other" \notin PyNamedReason
  BY DEF PyNamedReason
<1>2. PyReason("parse", words) = reason
  <2>1. "parse" # "none"
    OBVIOUS
  <2>2. PyReason("parse", words) = ParseReason(words)
    BY <1>1, <2>1, Zenon DEF PyReason
  <2> QED
    BY <2>2, Zenon DEF IsReason
<1>3. SavedReason(reason) = reason
  BY Zenon DEF SavedReason, IsReason
<1>4. SavedReason(PyReason("other", words)) = reason
  <2>1. "other" # "none" /\ "other" # "parse"
    OBVIOUS
  <2>2. PyReason("other", words) = Other(words)
    BY <1>1, <2>1, Zenon DEF PyReason
  <2>3. ReasonText(Other(words)) = words
    BY ReasonTextIs, Zenon
  <2> QED
    BY <2>2, <2>3, Zenon DEF SavedReason, IsReason
<1>5. PyReason("none", <<>>) = NoReason
  <2>1. "none" # "parse" /\ "none" # "other"
    OBVIOUS
  <2> QED
    BY <1>1, <2>1, Zenon DEF PyReason
<1>6. ASSUME NEW how \in PyNamedReason
      PROVE  PyReason(how, <<>>) = Known(how)
  <2>1. how # "none" /\ how # "parse" /\ how # "other"
    BY <1>1, <1>6
  <2> QED
    BY <1>6, <2>1, Zenon DEF PyReason
<1>7. /\ \A k : Known(k).name = k
      /\ NoReason.name = "None" /\ \A t : Other(t).name = "Other"
  BY DEF Known, NoReason, Other
<1>8. /\ "None" \notin KnownReason /\ "Other" \notin KnownReason /\ "Other" # "None"
      /\ PyNamedReason \subseteq KnownReason
  BY ReasonNames
<1>9. \/ \E k \in KnownReason : reason = Known(k)
      \/ reason = NoReason
      \/ \E t : reason = Other(t)
  BY Zenon DEF IsReason
<1>10. reason = NoReason <=> reason.name = "None"
  BY <1>7, <1>8, <1>9, Zenon
<1>11. \A how \in PyNamedReason : Known(how) = reason <=> reason.name = how
  BY <1>7, <1>8, <1>9, Zenon
<1>12. ASSUME NEW how \in PyNamedReason \cup {"none"}
       PROVE  PyReason(how, <<>>) = reason <=>
                  PyReasonName(reason) = IF how = "none" THEN "None" ELSE how
  <2>1. CASE how = "none"
    BY <1>5, <1>10, <2>1, Zenon DEF PyReasonName
  <2>2. CASE how # "none"
    <3>1. how \in PyNamedReason
      BY <1>12, <2>2, Zenon
    <3> QED
      BY <1>6, <1>11, <2>2, <3>1, Zenon DEF PyReasonName
  <2> QED
    BY <2>1, <2>2, Zenon
<1> QED
  BY <1>2, <1>3, <1>4, <1>12, Zenon

-----------------------------------------------------------------------------
(* The columns of a row. *)

Dot == Sign(".")
Colon == Sign(":")
Opening == Sign("[")
Closing == Sign("]")
Batch == Sign("batch")
IdLexemes == {Number(n) : n \in 0..5} \cup {Low, Dot, Opening, Closing, Batch}

LEMMA IdLexemesAre ==
    /\ IdLexemes \subseteq Lexeme /\ Space \notin IdLexemes /\ Bar \notin IdLexemes
    /\ Number(7) \notin IdLexemes /\ Dot # Sign("+") /\ \A n : Number(n) # Dot /\ Number(n) # Sign("+")
<1> DEFINE e == " "
           b == "|"
           l == "_"
           d == "number"
<1>1. \A v, w : Sign(v) = Sign(w) => v = w
  BY DEF Sign
<1>2. \A n, w : Number(n) = Sign(w) => d = w
  BY DEF Sign, Number
<1>3. \A n, m : Number(n) = Number(m) => n = m
  BY DEF Number
<1>4. e \notin {l, ".", "[", "]", "batch", d} /\ b \notin {l, ".", "[", "]", "batch", d}
  OBVIOUS
<1>5. d \notin {l, ".", "[", "]", "batch", "+"} /\ "." # "+"
  OBVIOUS
<1>6. Space = Sign(e) /\ Bar = Sign(b) /\ Low = Sign(l)
  BY Zenon DEF Space, Bar, Low
<1>7. /\ \A n \in 0..5 : Number(n) \in Lexeme
      /\ {Low, Dot, Opening, Closing, Batch} \subseteq Lexeme
  <2>1. \A n \in Nat : Number(n) \in Lexeme
    BY Zenon DEF Lexeme
  <2>2. \A n \in 0..5 : n \in Nat
    OBVIOUS
  <2>3. l \in Marks /\ "." \in Marks /\ "[" \in Marks /\ "]" \in Marks
    BY Zenon DEF Marks
  <2>4. "batch" \in RowWords
    BY OtherReasonWords
  <2>5. \A w \in RowWords \cup Marks : Sign(w) \in Lexeme
    BY Zenon DEF Lexeme
  <2> HIDE DEF l
  <2>6. Low \in Lexeme /\ Dot \in Lexeme /\ Opening \in Lexeme /\ Closing \in Lexeme /\ Batch \in Lexeme
    BY <1>6, <2>3, <2>4, <2>5, Zenon DEF Dot, Opening, Closing, Batch
  <2> QED
    BY <2>1, <2>2, <2>6
<1> HIDE DEF e, b, l, d
<1>8. Space \notin {Low, Dot, Opening, Closing, Batch} /\ Bar \notin {Low, Dot, Opening, Closing, Batch}
  BY <1>1, <1>4, <1>6, Zenon DEF Dot, Opening, Closing, Batch
<1>9. (\A n : Number(n) # Space) /\ (\A n : Number(n) # Bar)
  BY <1>2, <1>4, <1>6, Zenon
<1>10. /\ \A n : /\ Number(n) \notin {Low, Dot, Opening, Closing, Batch}
                 /\ Number(n) # Sign("+")
       /\ Dot # Sign("+")
  BY <1>1, <1>2, <1>5, <1>6, Zenon DEF Dot, Opening, Closing, Batch
<1>11. Number(7) \notin {Number(n) : n \in 0..5}
  BY <1>3
<1>12. \A x \in IdLexemes : (\E n \in 0..5 : x = Number(n)) \/ x \in {Low, Dot, Opening, Closing, Batch}
  BY Zenon DEF IdLexemes
<1>13. IdLexemes \subseteq Lexeme
  BY <1>7, <1>12, Zenon
<1>14. Space \notin IdLexemes /\ Bar \notin IdLexemes
  BY <1>8, <1>9, <1>12, Zenon
<1>15. Number(7) \notin IdLexemes
  <2>1. Number(7) \notin {Low, Dot, Opening, Closing, Batch}
    BY <1>10, Zenon
  <2> QED
    BY <1>11, <2>1 DEF IdLexemes
<1>16. \A n : Number(n) # Dot
  BY <1>10, Zenon
<1> QED
  BY <1>10, <1>13, <1>14, <1>15, <1>16, Zenon

IdFits(id) ==
    /\ id \in Texts /\ id # <<>> /\ id # Dec(7)
    /\ Space \notin ToSet(id) /\ Bar \notin ToSet(id)
    /\ Dot \in ToSet(id) => U64(id) = {}

\* What has a dot in it is no number.
LEMMA DotIsNoNumber ==
    ASSUME NEW t, Dot \in ToSet(t)
    PROVE  U64(t) = {}
<1> SUFFICES ASSUME NEW n \in U64(t)
             PROVE  FALSE
  OBVIOUS
<1>1. t = Dec(n) \/ t = Lit("+") \o Dec(n)
  BY Zenon DEF U64, ParseUnsigned
<1> DEFINE x == Number(n)
           p == Sign("+")
<1>2. x # Dot /\ p # Dot
  BY IdLexemesAre, Zenon
<1>3. Dec(n) = <<x>> /\ Lit("+") \o Dec(n) = <<p, x>>
  BY OneAndOne DEF Dec, Lit
<1> HIDE DEF x, p
<1>4. Dot \notin ToSet(<<x>>) /\ Dot \notin ToSet(<<p, x>>)
  BY <1>2 DEF ToSet
<1> QED
  BY <1>1, <1>3, <1>4, Zenon

LEMMA IdOfLexemes ==
    ASSUME NEW id \in Seq(IdLexemes), id # <<>>
    PROVE  IdFits(id)
<1>1. ToSet(id) \subseteq IdLexemes /\ id \in Texts
  BY LexemesIn, IdLexemesAre DEF Texts
<1>2. Space \notin ToSet(id) /\ Bar \notin ToSet(id)
  BY <1>1, IdLexemesAre
<1>3. id # Dec(7)
  <2> DEFINE x == Number(7)
  <2>1. ToSet(<<x>>) = {x} /\ Dec(7) = <<x>>
    BY OneLexeme DEF Dec
  <2>2. x \notin ToSet(id)
    BY <1>1, IdLexemesAre
  <2> HIDE DEF x
  <2> QED
    BY <2>1, <2>2
<1> QED
  BY <1>1, <1>2, <1>3, DotIsNoNumber DEF IdFits

LEMMA IdsFit == \A id \in RowIds : IdFits(id)
<1> DEFINE five == <<Number(5)>>
           none == <<Number(0)>>
           two == <<Number(2)>>
           one == <<Number(1)>>
           low == <<Low>>
           dot == <<Dot>>
           opening == <<Opening>>
           closing == <<Closing>>
           batch == <<Batch>>
           S == Seq(IdLexemes)
<1>1. /\ five \in S /\ none \in S /\ two \in S /\ one \in S /\ low \in S /\ dot \in S
      /\ opening \in S /\ closing \in S /\ batch \in S
  BY DEF IdLexemes
<1>2. RowIds = {five, none, (five \o low) \o two, (five \o dot) \o batch,
                (((five \o low) \o opening) \o one) \o closing}
  BY Zenon DEF RowIds, Dec, Lit, Low, Dot, Opening, Closing, Batch
<1>3. five # <<>> /\ none # <<>> /\ two # <<>> /\ batch # <<>> /\ closing # <<>>
  OBVIOUS
<1> HIDE DEF five, none, two, one, low, dot, opening, closing, batch
<1>4. \A s, t \in S : s \o t \in S /\ (t # <<>> => s \o t # <<>>)
  OBVIOUS
<1> HIDE DEF S
<1>5. \A id \in RowIds : id \in S /\ id # <<>>
  BY <1>1, <1>2, <1>3, <1>4
<1> QED
  BY <1>5, IdOfLexemes DEF S

ExitFits(e) == e.text \in Texts /\ Bar \notin ToSet(e.text) /\ ExitField(e.text) = e.code

LEMMA ColonIs ==
    /\ Colon \in Lexeme /\ Colon # Bar /\ \A n : Number(n) # Colon
<1> DEFINE b == "|"
           d == "number"
           c == ":"
<1>1. \A v, w : Sign(v) = Sign(w) => v = w
  BY DEF Sign
<1>2. \A n, w : Number(n) = Sign(w) => d = w
  BY DEF Sign, Number
<1>3. b # c /\ d # c
  OBVIOUS
<1>4. c \in Marks
  BY Zenon DEF Marks
<1>5. Colon = Sign(c) /\ Bar = Sign(b)
  BY Zenon DEF Colon, Bar
<1> HIDE DEF b, c, d
<1>6. Sign(c) \in Lexeme
  BY <1>4, Zenon DEF Lexeme
<1> QED
  BY <1>1, <1>2, <1>3, <1>5, <1>6, Zenon

PairsOf(parts) == {[exit |-> e, signal |-> s] : e \in U32(parts[1]), s \in U32(parts[2])}

LEMMA ExitFieldIs ==
    ASSUME NEW t
    PROVE  ExitField(t) = IF Len(SplitOnce(t, ":")) = 1 THEN {} ELSE ExitCode(PairsOf(SplitOnce(t, ":")))
BY DEF ExitField, PairsOf

LEMMA ExitOfTwo ==
    ASSUME NEW e \in 0..MaxU32, NEW s \in 0..MaxU32
    PROVE  LET t == Dec(e) \o Lit(":") \o Dec(s)
           IN  t \in Texts /\ Bar \notin ToSet(t) /\ ExitField(t) = {IF s # 0 THEN 128 + s ELSE e}
<1> DEFINE x == Dec(e)
           y == Dec(s)
           c == ":"
           m == Lit(c)
           t == (x \o m) \o y
<1>0. e \in Nat /\ s \in Nat
  OBVIOUS
<1>1. Number(e) \in Lexeme /\ Number(s) \in Lexeme
  BY <1>0, Zenon DEF Lexeme
<1>2. x \in Texts /\ y \in Texts /\ m \in Texts /\ ToSet(x) = {Number(e)} /\ ToSet(y) = {Number(s)}
  <2>1. /\ <<Number(e)>> \in Texts /\ <<Number(s)>> \in Texts /\ <<Colon>> \in Texts
        /\ ToSet(<<Number(e)>>) = {Number(e)} /\ ToSet(<<Number(s)>>) = {Number(s)}
    BY <1>1, ColonIs, OneLexeme DEF Texts
  <2> QED
    BY <2>1, Zenon DEF Dec, Lit, Colon
<1>3. /\ U32(x) = {e} /\ U32(y) = {s}
  BY DecIsRead, TextAssumption DEF U32
<1> HIDE DEF x, y, c
<1>4. t = x \o (Lit(c) \o y)
  BY <1>2, ThenAgain
<1> HIDE DEF t
<1>5. Sign(c) \notin ToSet(x) /\ Sign(c) \in Lexeme /\ Sign(c) = Colon
  <2>1. Sign(c) = Colon
    BY Zenon DEF Colon, c
  <2>2. Number(e) # Colon
    BY ColonIs, Zenon
  <2> QED
    BY <1>2, <2>1, <2>2, ColonIs
<1>6. SplitOnce(t, c) = <<x, y>>
  BY <1>2, <1>4, <1>5, SplitOnceAt DEF Texts
<1>7. t \in Texts /\ ToSet(t) = ToSet(x) \cup {Sign(c)} \cup ToSet(y)
  BY <1>2, <1>4, <1>5, LexemesBetween DEF Texts
<1>8. Bar \notin ToSet(t)
  BY <1>2, <1>5, <1>7, ColonIs, BarIsNot
<1>9. ExitField(t) = {IF s # 0 THEN 128 + s ELSE e}
  <2> DEFINE parts == <<x, y>>
             f == [exit |-> e, signal |-> s]
             all == PairsOf(parts)
  <2>1. Len(parts) # 1 /\ parts[1] = x /\ parts[2] = y
    OBVIOUS
  <2> HIDE DEF parts
  <2>2. SplitOnce(t, ":") = parts
    BY <1>6, Zenon DEF c, parts
  <2>3. ExitField(t) = IF Len(parts) = 1 THEN {} ELSE ExitCode(all)
    BY <2>2, ExitFieldIs, Zenon
  <2>4. all = {f}
    BY <1>3, <2>1 DEF PairsOf
  <2> HIDE DEF all
  <2>5. ExitCode({f}) = {IF f.signal # 0 THEN 128 + f.signal ELSE f.exit}
    BY DEF ExitCode
  <2>6. f.signal = s /\ f.exit = e
    OBVIOUS
  <2> HIDE DEF f
  <2> QED
    BY <2>1, <2>3, <2>4, <2>5, <2>6, Zenon
<1> QED
  BY <1>7, <1>8, <1>9, Zenon DEF t, x, y, m, c

LEMMA ExitsFit == \A e \in Exits : ExitFits(e)
<1>1. {0, 1, 9} \subseteq 0..MaxU32
  BY SmallNumbers
<1> DEFINE t == Dec(1) \o Lit(":") \o Dec(0)
           u == Dec(0) \o Lit(":") \o Dec(9)
           n == <<>>
<1>2. t \in Texts /\ Bar \notin ToSet(t) /\ ExitField(t) = {1}
  <2>1. 0 \in 0..MaxU32 /\ 1 \in 0..MaxU32 /\ (IF 0 # 0 THEN 128 + 0 ELSE 1) = 1
    BY <1>1
  <2> QED
    BY <2>1, ExitOfTwo, Zenon
<1>3. u \in Texts /\ Bar \notin ToSet(u) /\ ExitField(u) = {137}
  <2>1. 0 \in 0..MaxU32 /\ 9 \in 0..MaxU32
    BY <1>1
  <2>2. u \in Texts /\ Bar \notin ToSet(u) /\ ExitField(u) = {IF 9 # 0 THEN 128 + 9 ELSE 0}
    BY <2>1, ExitOfTwo, Zenon
  <2>3. {IF 9 # 0 THEN 128 + 9 ELSE 0} = {137}
    OBVIOUS
  <2> HIDE DEF u
  <2> QED
    BY <2>2, <2>3
<1>4. n \in Texts /\ Bar \notin ToSet(n) /\ ExitField(n) = {}
  <2>1. n \in Texts /\ ToSet(n) = {}
    BY DEF Texts, ToSet
  <2>2. SplitOnce(n, ":") = <<n>>
    BY SplitNone, Zenon
  <2>3. Len(<<n>>) = 1
    OBVIOUS
  <2> HIDE DEF n
  <2> DEFINE parts == <<n>>
  <2> HIDE DEF parts
  <2>4. ExitField(n) = IF Len(parts) = 1 THEN {} ELSE ExitCode(PairsOf(parts))
    BY <2>2, ExitFieldIs, Zenon DEF parts
  <2>5. ExitField(n) = {}
    BY <2>3, <2>4 DEF parts
  <2> QED
    BY <2>1, <2>5
<1> HIDE DEF t, u, n
<1>5. \A e \in Exits : \/ e = [text |-> t, code |-> {1}] \/ e = [text |-> n, code |-> {}]
                       \/ e = [text |-> u, code |-> {137}]
  BY Zenon DEF Exits, t, u, n
<1>6. ASSUME NEW e \in Exits
      PROVE  ExitFits(e)
  <2>1. CASE e = [text |-> t, code |-> {1}]
    BY <1>2, <2>1 DEF ExitFits
  <2>2. CASE e = [text |-> n, code |-> {}]
    BY <1>4, <2>2 DEF ExitFits
  <2>3. CASE e = [text |-> u, code |-> {137}]
    BY <1>3, <2>3 DEF ExitFits
  <2> QED
    BY <1>5, <2>1, <2>2, <2>3
<1> QED
  BY <1>6

-----------------------------------------------------------------------------
(* Lines of sacct. *)

Divider == "|"

LEMMA ColumnsAre ==
    ASSUME NEW n \in Nat \ {0}, NEW parts \in [1..n -> Texts],
           \A i \in 1..n : Bar \notin ToSet(parts[i])
    PROVE  Columns(Join(parts, Divider), n) = parts
<1>1. Sign(Divider) = Bar /\ Bar \in Lexeme
  <2>1. Sign(Divider) = Bar
    BY Zenon DEF Divider, Bar
  <2>2. Divider \in Marks
    BY Zenon DEF Divider, Marks
  <2> QED
    BY <2>1, <2>2, Zenon DEF Lexeme
<1>2. parts = [i \in 1..n |-> parts[i]]
  OBVIOUS
<1>3. \A i \in 1..n : parts[i] \in Seq(Lexeme) /\ Sign(Divider) \notin ToSet(parts[i])
  BY <1>1 DEF Texts
<1>4. Split(Join(parts, Divider), Divider) = parts
  BY <1>1, <1>2, <1>3, JoinedParts
<1>5. Len(parts) <= n
  OBVIOUS
<1> DEFINE t == Join(parts, Divider)
<1> HIDE DEF t
<1>6. Split(t, "|") = parts
  BY <1>4, Zenon DEF t, Divider
<1>7. Columns(t, n) = parts
  BY <1>5, <1>6, Zenon DEF Columns
<1> QED
  BY <1>7 DEF t

\* A row for each of some jobs.
RowsFor(jobs, status) == {[job |-> j, status |-> status] : j \in jobs}

LEMMA SacctLineIs ==
    ASSUME NEW t, NEW n, Len(Columns(t, n)) \in 3..4
    PROVE  SacctLine(t, n) =
               IF Dot \in ToSet(Columns(t, n)[1]) THEN {}
               ELSE RowsFor(U64(Columns(t, n)[1]), ParseStatus(Columns(t, n)[2], Columns(t, n)[3]))
<1> DEFINE cs == Columns(t, n)
<1>1. SacctLine(t, n) =
          IF Len(cs) < 2 \/ Dot \in ToSet(cs[1]) THEN {}
          ELSE RowsFor(U64(cs[1]), ParseStatus(cs[2], IF Len(cs) > 2 THEN cs[3] ELSE <<>>))
  BY DEF SacctLine, RowsFor, Dot
<1> HIDE DEF cs
<1>2. Len(cs) > 2 /\ ~(Len(cs) < 2)
  <2>1. Len(cs) \in 3..4
    BY Zenon DEF cs
  <2>2. \A k \in 3..4 : k > 2 /\ ~(k < 2)
    OBVIOUS
  <2> QED
    BY <2>1, <2>2, Zenon
<1>3. SacctLine(t, n) =
          IF Dot \in ToSet(cs[1]) THEN {} ELSE RowsFor(U64(cs[1]), ParseStatus(cs[2], cs[3]))
  BY <1>1, <1>2, Zenon
<1> QED
  BY <1>3 DEF cs

LEMMA SacctTaskLineIs ==
    ASSUME NEW t, NEW key, Len(Columns(t, 4)) = 4
    PROVE  SacctTaskLine(t, key) =
               IF Head(Columns(t, 4)) # key THEN {}
               ELSE {ParseStatus(Columns(t, 4)[2], Columns(t, 4)[3])}
<1> DEFINE cs == Columns(t, 4)
<1>1. SacctTaskLine(t, key) =
          IF Len(cs) < 2 \/ Head(cs) # key THEN {}
          ELSE {ParseStatus(cs[2], IF Len(cs) > 2 THEN cs[3] ELSE <<>>)}
  BY Zenon DEF SacctTaskLine
<1> HIDE DEF cs
<1>2. Len(cs) > 2 /\ ~(Len(cs) < 2)
  <2>1. Len(cs) = 4
    BY DEF cs
  <2> QED
    BY <2>1
<1>3. SacctTaskLine(t, key) = IF Head(cs) # key THEN {} ELSE {ParseStatus(cs[2], cs[3])}
  BY <1>1, <1>2, Zenon
<1> QED
  BY <1>3 DEF cs

\* A text that may be a column of sacct.
IsColumn(t) == t \in Texts /\ Bar \notin ToSet(t)

LEMMA RowsOfId ==
    ASSUME NEW id, IdFits(id), NEW status
    PROVE  (IF Dot \in ToSet(id) THEN {} ELSE RowsFor(U64(id), status)) = RowsFor(U64(id), status)
<1>1. RowsFor({}, status) = {}
  BY DEF RowsFor
<1>2. Dot \in ToSet(id) => U64(id) = {}
  BY DEF IdFits
<1> QED
  BY <1>1, <1>2, Zenon

LEMMA SacctIsRead ==
    ASSUME NEW id, IdFits(id), NEW state, IsColumn(state), NEW words, IsColumn(words),
           NEW x, IsColumn(x)
    PROVE  LET sacct == Join(<<id, state, words, x>>, Divider)
               status == ParseStatus(state, words)
           IN  /\ SacctLine(sacct, 4) = RowsFor(U64(id), status)
               /\ SacctLine(Join(<<id, state, words>>, Divider), 3) = RowsFor(U64(id), status)
               /\ SacctExit(sacct) = ExitField(x)
               /\ SacctTaskLine(sacct, id) = {status}
               /\ SacctTaskLine(sacct, Dec(7)) = {}
<1> DEFINE four == <<id, state, words, x>>
           three == <<id, state, words>>
           status == ParseStatus(state, words)
           t == Join(four, Divider)
           u == Join(three, Divider)
<1>1. IsColumn(id) /\ id # Dec(7)
  BY DEF IdFits, IsColumn
<1>2. /\ four \in [1..4 -> Texts] /\ three \in [1..3 -> Texts]
      /\ \A i \in 1..4 : Bar \notin ToSet(four[i])
      /\ \A i \in 1..3 : Bar \notin ToSet(three[i])
  BY <1>1 DEF IsColumn
<1>3. /\ Len(four) = 4 /\ four[1] = id /\ four[2] = state /\ four[3] = words /\ four[4] = x
      /\ Len(three) = 3 /\ three[1] = id /\ three[2] = state /\ three[3] = words
      /\ Head(four) = id
  OBVIOUS
<1> HIDE DEF four, three
<1>4. 4 \in Nat \ {0} /\ 3 \in Nat \ {0}
  OBVIOUS
<1>5. Columns(t, 4) = four /\ Columns(u, 3) = three
  BY <1>2, <1>4, ColumnsAre
<1> HIDE DEF t, u, status
<1>6. Len(Columns(t, 4)) \in 3..4 /\ Len(Columns(u, 3)) \in 3..4 /\ Len(Columns(t, 4)) = 4
  BY <1>3, <1>5
<1>7. SacctLine(t, 4) = RowsFor(U64(id), status)
  <2>1. SacctLine(t, 4) = IF Dot \in ToSet(id) THEN {} ELSE RowsFor(U64(id), status)
    BY <1>3, <1>5, <1>6, SacctLineIs DEF status
  <2> QED
    BY <2>1, RowsOfId, Zenon
<1>8. SacctLine(u, 3) = RowsFor(U64(id), status)
  <2>1. SacctLine(u, 3) = IF Dot \in ToSet(id) THEN {} ELSE RowsFor(U64(id), status)
    BY <1>3, <1>5, <1>6, SacctLineIs DEF status
  <2> QED
    BY <2>1, RowsOfId, Zenon
<1>9. SacctExit(t) = ExitField(x)
  <2>1. ~(Len(four) < 4)
    BY <1>3
  <2> QED
    BY <1>3, <1>5, <2>1, Zenon DEF SacctExit
<1>10. SacctTaskLine(t, id) = {status} /\ SacctTaskLine(t, Dec(7)) = {}
  BY <1>1, <1>3, <1>5, <1>6, SacctTaskLineIs, Zenon DEF status
<1> QED
  BY <1>7, <1>8, <1>9, <1>10, Zenon DEF t, u, four, three, status

-----------------------------------------------------------------------------
(* Lines of squeue and of qgroup, word by word. *)

\* One element more.
LEMMA AppendedTo ==
    ASSUME NEW a, NEW b, NEW c
    PROVE  /\ Append(<<a>>, b) = <<a, b>>
           /\ Append(<<a, b>>, c) = <<a, b, c>>
<1> DEFINE T == {a, b, c}
           one == <<a>>
           two == <<a, b>>
           three == <<a, b, c>>
<1>1. /\ one \in Seq(T) /\ two \in Seq(T) /\ three \in Seq(T)
      /\ Len(one) = 1 /\ one[1] = a
      /\ Len(two) = 2 /\ two[1] = a /\ two[2] = b
      /\ Len(three) = 3 /\ three[1] = a /\ three[2] = b /\ three[3] = c
  OBVIOUS
<1>2. a \in T /\ b \in T /\ c \in T
  OBVIOUS
<1> HIDE DEF T, one, two, three
<1>3. Append(one, b) = two
  <2>1. Len(two) = Len(one) + 1 /\ (\A i \in 1..Len(one) : two[i] = one[i]) /\ two[Len(one) + 1] = b
    BY <1>1
  <2> QED
    BY <1>1, <1>2, <2>1, AppendIs, Zenon
<1>4. Append(two, c) = three
  <2>1. /\ Len(three) = Len(two) + 1 /\ (\A i \in 1..Len(two) : three[i] = two[i])
        /\ three[Len(two) + 1] = c
    BY <1>1
  <2> QED
    BY <1>1, <1>2, <2>1, AppendIs, Zenon
<1> QED
  BY <1>3, <1>4, Zenon DEF one, two, three

LEMMA AppendedFourth ==
    ASSUME NEW a, NEW b, NEW c, NEW d
    PROVE  Append(<<a, b, c>>, d) = <<a, b, c, d>>
<1> DEFINE T == {a, b, c, d}
           three == <<a, b, c>>
           four == <<a, b, c, d>>
<1>1. /\ three \in Seq(T) /\ four \in Seq(T) /\ d \in T
      /\ Len(three) = 3 /\ three[1] = a /\ three[2] = b /\ three[3] = c
      /\ Len(four) = 4 /\ four[1] = a /\ four[2] = b /\ four[3] = c /\ four[4] = d
  OBVIOUS
<1> HIDE DEF T, three, four
<1>2. /\ Len(four) = Len(three) + 1 /\ (\A i \in 1..Len(three) : four[i] = three[i])
      /\ four[Len(three) + 1] = d
  BY <1>1
<1>3. Append(three, d) = four
  BY <1>1, <1>2, AppendIs, Zenon
<1> QED
  BY <1>3 DEF three, four

\* Three texts with a space between.
LEMMA JoinedThree ==
    ASSUME NEW a \in Texts, NEW b \in Texts, NEW c \in Texts
    PROVE  Join(<<a, b, c>>, Gap) = (a \o (Lit(Gap) \o b)) \o (Lit(Gap) \o c)
<1> DEFINE g == Lit(Gap)
           parts == <<a, b, c>>
           y == g \o b
           z == g \o c
           none == <<>>
           one == Append(none, a)
           two == Append(one, y)
           three == Append(two, z)
           seqs == [i \in DOMAIN parts |-> IF i = 1 THEN parts[i] ELSE g \o parts[i]]
<1>1. g \in Texts /\ y \in Texts /\ z \in Texts
  <2>1. g \in Texts
    BY LexemesOfBy
  <2> HIDE DEF g
  <2> QED
    BY <2>1, ThenAgain
<1>2. Join(parts, Gap) = FlattenSeq(seqs)
  BY Zenon DEF Join
<1>3. seqs = three
  <2>1. DOMAIN parts = 1..3 /\ parts[1] = a /\ parts[2] = b /\ parts[3] = c
    OBVIOUS
  <2> HIDE DEF parts, g
  <2>2. \A i \in 1..3 : i = 1 \/ i = 2 \/ i = 3
    OBVIOUS
  <2>3. /\ DOMAIN seqs = 1..3 /\ seqs = [i \in 1..3 |-> seqs[i]]
        /\ seqs[1] = a /\ seqs[2] = y /\ seqs[3] = z
    BY <2>1
  <2> HIDE DEF seqs, y, z
  <2>4. three = <<a, y, z>>
    <3>1. Append(<<>>, a) = <<a>>
      OBVIOUS
    <3>2. Append(<<a>>, y) = <<a, y>> /\ Append(<<a, y>>, z) = <<a, y, z>>
      BY AppendedTo, Zenon
    <3> QED
      BY <3>1, <3>2, Zenon
  <2>5. <<a, y, z>> = [i \in 1..3 |-> seqs[i]]
    BY <2>2, <2>3
  <2> QED
    BY <2>3, <2>4, <2>5, Zenon
<1> HIDE DEF seqs, y, z
<1>4. none \in Seq(Texts) /\ one \in Seq(Texts) /\ two \in Seq(Texts)
  BY <1>1
<1>5. /\ FlattenSeq(none) = <<>> /\ FlattenSeq(one) = FlattenSeq(none) \o a
      /\ FlattenSeq(two) = FlattenSeq(one) \o y /\ FlattenSeq(three) = FlattenSeq(two) \o z
  <2> HIDE DEF none
  <2>1. FlattenSeq(<<>>) = <<>>
    BY DEF FlattenSeq
  <2>2. FlattenSeq(Append(none, a)) = FlattenSeq(none) \o a
    BY <1>4, FlattenMore DEF Texts
  <2> HIDE DEF one
  <2>3. FlattenSeq(Append(one, y)) = FlattenSeq(one) \o y
    BY <1>1, <1>4, FlattenMore DEF Texts
  <2> HIDE DEF two
  <2>4. FlattenSeq(Append(two, z)) = FlattenSeq(two) \o z
    BY <1>1, <1>4, FlattenMore DEF Texts
  <2> QED
    BY <2>1, <2>2, <2>3, <2>4, Zenon DEF none, one, two
<1>6. <<>> \o a = a
  BY DEF Texts
<1> HIDE DEF three, two, one, none
<1>7. FlattenSeq(three) = (a \o y) \o z
  BY <1>5, <1>6, Zenon
<1> QED
  BY <1>2, <1>3, <1>7, Zenon DEF parts, y, z, g

\* Solid words are words, one by one.
IsSolid(p) == p \in Texts /\ p # <<>> /\ Space \notin ToSet(p)

LEMMA OneMoreWord ==
    ASSUME NEW s \in Texts, NEW p, IsSolid(p)
    PROVE  /\ s \o (Lit(Gap) \o p) \in Texts
           /\ Words(s) \in Seq(Texts)
           /\ Words(s \o (Lit(Gap) \o p)) = Append(Words(s), p)
BY WordsMore, Zenon DEF IsSolid

LEMMA NoMoreWord ==
    ASSUME NEW s \in Texts
    PROVE  /\ s \o (Lit(Gap) \o <<>>) \in Texts
           /\ Words(s \o (Lit(Gap) \o <<>>)) = Words(s)
<1> DEFINE p == <<>>
<1>1. p \in Texts /\ Space \notin ToSet(p) /\ p = <<>>
  BY DEF Texts, ToSet
<1> HIDE DEF p
<1>2. s \o (Lit(Gap) \o p) \in Texts /\ Words(s \o (Lit(Gap) \o p)) = Words(s)
  BY <1>1, WordsMore
<1> QED
  BY <1>1, <1>2, Zenon

LEMMA WordsOfSolid == ASSUME NEW p, IsSolid(p) PROVE Words(p) = <<p>>
BY WordsOne, Zenon DEF IsSolid

LEMMA SolidTexts ==
    /\ \A w \in RowWords : IsSolid(Lit(w))
    /\ \A id : IdFits(id) => IsSolid(id)
BY WordOfRow DEF IsWord, IsSolid, IdFits

\* Two words behind a text.
LEMMA ThenAll ==
    /\ \A s, p \in Texts : Then(s, p) \in Texts
    /\ \A s, p, v \in Texts : Then(Then(s, p), v) = Then(s, Then(p, v))
<1>1. \A s, p \in Texts : s \o p \in Texts
  BY ThenAgain
<1>2. \A s, p, v \in Texts : Then(Then(s, p), v) = Then(s, Then(p, v))
  BY ThenIsAssociative DEF Texts
<1> QED
  BY <1>1, <1>2, Zenon DEF Then

LEMMA ThenApart ==
    ASSUME NEW s \in Texts, NEW p \in Texts, NEW v \in Texts
    PROVE  Then(s, p) \in Texts /\ Then(Then(s, p), v) = Then(s, Then(p, v))
BY ThenAll, Zenon

LEMMA TwoWords ==
    ASSUME NEW s \in Texts, NEW g \in Texts, NEW x \in Texts, NEW y \in Texts
    PROVE  Then(s, Then(g, Then(Then(x, g), y))) = Then(Then(s, Then(g, x)), Then(g, y))
<1> DEFINE gx == Then(g, x)
           gy == Then(g, y)
<1>1. gx \in Texts /\ gy \in Texts
  BY ThenApart, Zenon
<1>2. Then(Then(x, g), y) = Then(x, gy)
  BY ThenApart, Zenon
<1>3. Then(g, Then(x, gy)) = Then(gx, gy)
  <2> HIDE DEF gy
  <2>1. Then(Then(g, x), gy) = Then(g, Then(x, gy))
    BY <1>1, ThenApart
  <2> QED
    BY <2>1, Zenon
<1>4. Then(Then(s, gx), gy) = Then(s, Then(gx, gy))
  <2> HIDE DEF gx, gy
  <2> QED
    BY <1>1, ThenApart
<1> HIDE DEF gx, gy
<1>5. Then(s, Then(g, Then(Then(x, g), y))) = Then(Then(s, gx), gy)
  BY <1>2, <1>3, <1>4, Zenon
<1> QED
  BY <1>5, Zenon DEF gx, gy

\* The words of a line of squeue: those of the reason are the last.
LEMMA SqueueWords ==
    ASSUME NEW id, IdFits(id), NEW token, IsSolid(token), NEW reason, NEW words, IsReason(reason, words)
    PROVE  Words(Join(<<id, token, words>>, Gap)) =
               IF words = <<>> \/ words = Lit(" ") THEN <<id, token>>
               ELSE IF words = NewNodes THEN <<id, token, Lit("New"), Lit("nodes")>>
               ELSE <<id, token, words>>
<1> DEFINE g == Lit(Gap)
           s == id \o (g \o token)
           t == s \o (g \o words)
           two == <<id, token>>
<1>1. IsSolid(id) /\ id \in Texts /\ token \in Texts /\ words \in Texts /\ g \in Texts
  BY SolidTexts, LexemesOfBy DEF IsReason, IsSolid
<1>2. Join(<<id, token, words>>, Gap) = t
  BY <1>1, JoinedThree
<1>3. s \in Texts /\ Words(s) = two
  <2>1. Words(id) = <<id>> /\ Append(<<id>>, token) = two
    BY <1>1, WordsOfSolid, AppendedTo, Zenon
  <2> QED
    BY <1>1, <2>1, OneMoreWord, Zenon
<1> HIDE DEF s
<1>4. CASE words = <<>>
  BY <1>2, <1>3, <1>4, NoMoreWord, Zenon
<1>5. CASE words = Lit(" ")
  <2> DEFINE e == <<>>
             r == s \o (g \o e)
  <2>1. r \in Texts /\ Words(r) = two
    BY <1>3, NoMoreWord, Zenon
  <2>2. e \in Texts /\ g \o e = g
    <3>1. e \in Texts
      BY DEF Texts
    <3> HIDE DEF g
    <3>2. g \o e = g
      BY <1>1 DEF Texts
    <3> QED
      BY <3>1, <3>2
  <2>3. words = g
    BY <1>5, Zenon DEF Gap
  <2> HIDE DEF g, e
  <2>6. s \o g \in Texts /\ (s \o g) \o g = s \o (g \o g)
    BY <1>1, <1>3, ThenAgain
  <2>4. r \o (g \o e) = t
    BY <2>2, <2>3, <2>6, Zenon
  <2>5. Words(r \o (g \o e)) = Words(r)
    BY <2>1, NoMoreWord, Zenon DEF g, e
  <2> QED
    BY <1>2, <1>5, <2>1, <2>4, <2>5, Zenon
<1>6. CASE words = NewNodes
  <2> DEFINE x == Lit("New")
             y == Lit("nodes")
             r == s \o (g \o x)
  <2>1. IsSolid(x) /\ IsSolid(y) /\ x \in Texts /\ y \in Texts
    <3>1. IsSolid(x) /\ IsSolid(y)
      BY OtherReasonWords, SolidTexts
    <3> QED
      BY <3>1, Zenon DEF IsSolid
  <2>2. words = (x \o g) \o y
    BY <1>6, Zenon DEF NewNodes, Gap
  <2>3. words # <<>> /\ words # Lit(" ")
    <3>1. Len(NewNodes) = 3 /\ Len(Lit(" ")) = 1
      <4>1. Len(<<Space>>) = 1
        OBVIOUS
      <4>2. Lit(" ") = <<Space>>
        BY Zenon DEF Lit, Space
      <4> QED
        BY <4>1, <4>2, NewNodesIs, Zenon
    <3>2. Len(words) = 3 /\ Len(<<>>) = 0
      BY <1>6, <3>1
    <3>3. 3 # 1 /\ 3 # 0
      OBVIOUS
    <3> QED
      BY <3>1, <3>2, <3>3, Zenon
  <2> HIDE DEF x, y, g
  <2>4. r \in Texts /\ Words(r) = Append(two, x)
    BY <1>3, <2>1, OneMoreWord, Zenon DEF g
  <2>5. t = r \o (g \o y)
    <3>1. Then(s, Then(g, Then(Then(x, g), y))) = Then(Then(s, Then(g, x)), Then(g, y))
      BY <1>1, <1>3, <2>1, TwoWords
    <3>2. s \o (g \o ((x \o g) \o y)) = (s \o (g \o x)) \o (g \o y)
      BY <3>1, Zenon DEF Then
    <3> QED
      BY <2>2, <3>2, Zenon
  <2>6. Words(t) = Append(Append(two, x), y)
    BY <2>1, <2>4, <2>5, OneMoreWord, Zenon DEF g
  <2>7. Append(Append(two, x), y) = <<id, token, x, y>>
    <3>1. Append(<<id, token>>, x) = <<id, token, x>>
      BY AppendedTo, Zenon
    <3>2. Append(<<id, token, x>>, y) = <<id, token, x, y>>
      BY AppendedFourth, Zenon
    <3> QED
      BY <3>1, <3>2, Zenon
  <2> QED
    BY <1>2, <1>6, <2>3, <2>6, <2>7, Zenon DEF x, y
<1>7. CASE \E w \in RowWords : words = Lit(w)
  <2>1. PICK w \in RowWords : words = Lit(w)
    BY <1>7
  <2>2. IsSolid(words) /\ words # <<>> /\ words # Lit(" ") /\ words # NewNodes
    <3>1. IsSolid(words)
      BY <2>1, SolidTexts
    <3>2. Space \in ToSet(NewNodes)
      BY NewNodesIs
    <3>3. Space \in ToSet(Lit(" "))
      <4>1. ToSet(<<Space>>) = {Space}
        BY OneLexeme
      <4>2. Lit(" ") = <<Space>>
        BY Zenon DEF Lit, Space
      <4>3. Space \in {Space}
        OBVIOUS
      <4> QED
        BY <4>1, <4>2, <4>3, Zenon
    <3> QED
      BY <3>1, <3>2, <3>3, Zenon DEF IsSolid
  <2>3. Words(t) = Append(two, words)
    BY <1>3, <2>2, OneMoreWord, Zenon
  <2>4. Append(two, words) = <<id, token, words>>
    BY AppendedTo, Zenon
  <2> QED
    BY <1>2, <2>2, <2>3, <2>4, Zenon
<1> QED
  BY <1>4, <1>5, <1>6, <1>7, Zenon DEF IsReason

-----------------------------------------------------------------------------
(* Rows of squeue. *)

LEMMA SqueueReads ==
    ASSUME NEW t, NEW ws, Words(t) = ws, Len(ws) \in 2..4, NEW key
    PROVE  LET status == ParseStatus(ws[2], IF Len(ws) > 2 THEN ws[3] ELSE <<>>)
           IN  /\ SqueueLine(t) = RowsFor(U64(ws[1]), status)
               /\ SqueueTaskLine(t, key) = IF Head(ws) # key THEN {} ELSE {status}
<1>1. ~(Len(ws) < 2)
  OBVIOUS
<1> DEFINE status == ParseStatus(ws[2], IF Len(ws) > 2 THEN ws[3] ELSE <<>>)
<1>2. SqueueLine(t) = IF Len(ws) < 2 THEN {} ELSE RowsFor(U64(ws[1]), status)
  BY Zenon DEF SqueueLine, RowsFor
<1>3. SqueueTaskLine(t, key) = IF Len(ws) < 2 \/ Head(ws) # key THEN {} ELSE {status}
  BY Zenon DEF SqueueTaskLine
<1> HIDE DEF status
<1>4. SqueueLine(t) = RowsFor(U64(ws[1]), status)
  BY <1>1, <1>2, Zenon
<1>5. SqueueTaskLine(t, key) = IF Head(ws) # key THEN {} ELSE {status}
  BY <1>1, <1>3, Zenon
<1> QED
  BY <1>4, <1>5, Zenon DEF status

\* The words of a reason that is none, or one of a single word.
LEMMA FewWords ==
    ASSUME NEW reason, NEW words, IsReason(reason, words), Len(Words(words)) < 2
    PROVE  words # NewNodes
<1> DEFINE x == Lit("New")
           y == Lit("nodes")
           g == Lit(Gap)
<1>1. IsSolid(x) /\ IsSolid(y) /\ x \in Texts /\ y \in Texts /\ g \in Texts
  <2>1. IsSolid(x) /\ IsSolid(y)
    BY OtherReasonWords, SolidTexts
  <2> QED
    BY <2>1, LexemesOfBy, Zenon DEF IsSolid
<1>2. NewNodes = (x \o g) \o y
  BY Zenon DEF NewNodes, Gap
<1> HIDE DEF x, y
<1>3. NewNodes = x \o (g \o y)
  <2> HIDE DEF g
  <2>2. x \in Texts /\ g \in Texts /\ y \in Texts
    BY <1>1, Zenon
  <2>3. Then(Then(x, g), y) = Then(x, Then(g, y))
    BY <2>2, ThenApart
  <2>1. (x \o g) \o y = x \o (g \o y)
    BY <2>3, Zenon DEF Then
  <2> QED
    BY <1>2, <2>1, Zenon
<1>4. Words(NewNodes) = Append(Words(x), y) /\ Words(x) = <<x>>
  BY <1>1, <1>3, OneMoreWord, WordsOfSolid, Zenon
<1>5. Words(NewNodes) = <<x, y>>
  BY <1>4, AppendedTo, Zenon
<1>6. Len(<<x, y>>) = 2 /\ ~(2 < 2)
  OBVIOUS
<1> QED
  BY <1>5, <1>6, Zenon

LEMMA SqueueIsRead ==
    ASSUME NEW id, IdFits(id), NEW w \in RowWords,
           NEW reason, NEW words, IsReason(reason, words)
    PROVE  LET t == Join(<<id, Lit(w), words>>, Gap)
               status == JobStatus(Parse(w), reason)
           IN  /\ Len(Words(words)) < 2 =>
                     /\ SqueueLine(t) = RowsFor(U64(id), status)
                     /\ SqueueTaskLine(t, id) = {status}
               /\ SqueueTaskLine(t, Dec(7)) = {}
<1> DEFINE token == Lit(w)
           t == Join(<<id, token, words>>, Gap)
           status == JobStatus(Parse(w), reason)
           two == <<id, token>>
           three == <<id, token, words>>
           x == Lit("New")
           y == Lit("nodes")
           four == <<id, token, x, y>>
           seven == Dec(7)
<1>1. IsSolid(token) /\ ParseState(token) = Parse(w) /\ id # seven
  BY SolidTexts, WordIsState, Zenon DEF IdFits
<1>2. Words(t) = IF words = <<>> \/ words = Lit(" ") THEN two
                 ELSE IF words = NewNodes THEN four ELSE three
  <2> HIDE DEF token
  <2> QED
    BY <1>1, SqueueWords, Zenon
<1>3. /\ Len(two) = 2 /\ two[1] = id /\ two[2] = token /\ Head(two) = id
      /\ Len(three) = 3 /\ three[1] = id /\ three[2] = token /\ three[3] = words /\ Head(three) = id
      /\ Len(four) = 4 /\ Head(four) = id
  <2> HIDE DEF token, x, y
  <2> QED
    OBVIOUS
<1>4. 2 \in 2..4 /\ 3 \in 2..4 /\ 4 \in 2..4 /\ ~(2 > 2) /\ 3 > 2
  OBVIOUS
<1>5. ParseReason(<<>>) = NoReason /\ ParseReason(Lit(" ")) = NoReason /\ ParseReason(words) = reason
  BY NoneIsRead, Zenon DEF IsReason
<1> HIDE DEF t, two, three, four, token, seven
<1>6. CASE words = <<>> \/ words = Lit(" ")
  <2>1. Words(t) = two /\ Len(two) \in 2..4
    BY <1>2, <1>3, <1>4, <1>6, Zenon
  <2>2. ParseStatus(token, <<>>) = status
    BY <1>1, <1>5, <1>6, Zenon DEF ParseStatus
  <2>3. ParseStatus(two[2], IF Len(two) > 2 THEN two[3] ELSE <<>>) = status
    BY <1>3, <1>4, <2>2, Zenon
  <2>4. /\ SqueueLine(t) = RowsFor(U64(two[1]), status)
        /\ SqueueTaskLine(t, id) = IF Head(two) # id THEN {} ELSE {status}
        /\ SqueueTaskLine(t, seven) = IF Head(two) # seven THEN {} ELSE {status}
    BY <2>1, <2>3, SqueueReads, Zenon
  <2> QED
    BY <1>1, <1>3, <2>4, Zenon DEF t, token, seven
<1>7. CASE words # <<>> /\ words # Lit(" ") /\ words # NewNodes
  <2>1. Words(t) = three /\ Len(three) \in 2..4
    BY <1>2, <1>3, <1>4, <1>7, Zenon
  <2>2. ParseStatus(token, words) = status
    BY <1>1, <1>5, Zenon DEF ParseStatus
  <2>3. ParseStatus(three[2], IF Len(three) > 2 THEN three[3] ELSE <<>>) = status
    BY <1>3, <1>4, <2>2, Zenon
  <2>4. /\ SqueueLine(t) = RowsFor(U64(three[1]), status)
        /\ SqueueTaskLine(t, id) = IF Head(three) # id THEN {} ELSE {status}
        /\ SqueueTaskLine(t, seven) = IF Head(three) # seven THEN {} ELSE {status}
    BY <2>1, <2>3, SqueueReads, Zenon
  <2> QED
    BY <1>1, <1>3, <2>4, Zenon DEF t, token, seven
<1>8. CASE words # <<>> /\ words # Lit(" ") /\ words = NewNodes
  <2>1. Words(t) = four /\ Len(four) \in 2..4
    BY <1>2, <1>3, <1>4, <1>8, Zenon
  <2>2. SqueueTaskLine(t, seven) = {}
    BY <1>1, <1>3, <2>1, SqueueReads, Zenon
  <2> QED
    BY <1>8, <2>2, FewWords, Zenon DEF t, token, seven
<1> QED
  BY <1>6, <1>7, <1>8, Zenon

-----------------------------------------------------------------------------
(* Rows of qgroup -l: its cells are the words that are no dividers. *)

Cells(s) == Without(Words(s), Lit("|"))

LEMMA BarIsSolid == IsSolid(Lit("|")) /\ (\A w \in RowWords : Lit(w) # Lit("|"))
                    /\ (\A id : IdFits(id) => id # Lit("|"))
<1> DEFINE t == <<Bar>>
<1>1. Lit("|") = t
  BY Zenon DEF Lit, Bar
<1>2. Bar \in Lexeme
  <2>1. "|" \in Marks
    BY Zenon DEF Marks
  <2> QED
    BY <2>1, Zenon DEF Lexeme, Bar
<1>3. t \in Texts /\ ToSet(t) = {Bar} /\ t # <<>>
  BY <1>2, OneLexeme DEF Texts
<1> HIDE DEF t
<1>4. IsSolid(t)
  BY <1>3, BarIsNot DEF IsSolid
<1>5. \A w \in RowWords : Lit(w) # t
  BY <1>3, WordLacksBar
<1>6. \A id : IdFits(id) => id # t
  BY <1>3 DEF IdFits
<1> QED
  BY <1>1, <1>4, <1>5, <1>6, Zenon

LEMMA NoCells == Cells(<<>>) = <<>> /\ <<>> \in Texts
<1> DEFINE p == <<>>
<1>1. p \in Texts /\ Space \notin ToSet(p) /\ p = <<>>
  BY DEF Texts, ToSet
<1> HIDE DEF p
<1>2. Words(p) = <<>>
  BY <1>1, WordsOne
<1> QED
  BY <1>1, <1>2, WithoutNothing, Zenon DEF Cells

LEMMA OneMoreCell ==
    ASSUME NEW s \in Texts, NEW p, IsSolid(p)
    PROVE  LET t == Then(s, Then(Lit(Gap), p))
           IN  /\ t \in Texts
               /\ p # Lit("|") => Cells(t) = Append(Cells(s), p)
               /\ p = Lit("|") => Cells(t) = Cells(s)
<1> DEFINE t == Then(s, Then(Lit(Gap), p))
           bar == Lit("|")
           ws == Words(s)
<1>1. t \in Texts /\ Words(s) \in Seq(Texts) /\ Words(t) = Append(Words(s), p) /\ p \in Texts
  BY OneMoreWord, Zenon DEF Then, IsSolid
<1>2. Without(Words(t), bar) = IF p = bar THEN Without(ws, bar) ELSE Append(Without(ws, bar), p)
  <2>1. Words(t) = Append(ws, p) /\ ws \in Seq(Texts)
    BY <1>1, Zenon
  <2> HIDE DEF ws, bar, t
  <2>2. Without(ws, bar) \in Seq(Texts)
        /\ Without(Append(ws, p), bar) = IF p = bar THEN Without(ws, bar) ELSE Append(Without(ws, bar), p)
    BY <1>1, <2>1, WithoutMore
  <2> QED
    BY <2>1, <2>2, Zenon
<1> HIDE DEF t
<1>3. Cells(t) = IF p = bar THEN Cells(s) ELSE Append(Cells(s), p)
  BY <1>2, Zenon DEF Cells
<1> QED
  BY <1>1, <1>3, Zenon DEF t

LEMMA ThenOne ==
    ASSUME NEW x
    PROVE  \A a, b, c, d : /\ Then(<<a>>, <<x>>) = Append(<<a>>, x)
                           /\ Then(<<a, b>>, <<x>>) = Append(<<a, b>>, x)
                           /\ Then(<<a, b, c>>, <<x>>) = Append(<<a, b, c>>, x)
                           /\ Then(<<a, b, c, d>>, <<x>>) = Append(<<a, b, c, d>>, x)
<1> SUFFICES ASSUME NEW a, NEW b, NEW c, NEW d
             PROVE  /\ Then(<<a>>, <<x>>) = Append(<<a>>, x)
                    /\ Then(<<a, b>>, <<x>>) = Append(<<a, b>>, x)
                    /\ Then(<<a, b, c>>, <<x>>) = Append(<<a, b, c>>, x)
                    /\ Then(<<a, b, c, d>>, <<x>>) = Append(<<a, b, c, d>>, x)
  BY Zenon
<1> DEFINE T == {a, b, c, d, x}
           one == <<a>>
           two == <<a, b>>
           three == <<a, b, c>>
           four == <<a, b, c, d>>
<1>1. one \in Seq(T) /\ two \in Seq(T) /\ three \in Seq(T) /\ four \in Seq(T) /\ x \in T
  OBVIOUS
<1> HIDE DEF T, one, two, three, four
<1>2. /\ one \o <<x>> = Append(one, x) /\ two \o <<x>> = Append(two, x)
      /\ three \o <<x>> = Append(three, x) /\ four \o <<x>> = Append(four, x)
  BY <1>1, AppendIsConcat
<1> QED
  BY <1>2, Zenon DEF Then, one, two, three, four

LEMMA AppendedFifth ==
    ASSUME NEW a, NEW b, NEW c, NEW d, NEW e
    PROVE  Append(<<a, b, c, d>>, e) = <<a, b, c, d, e>>
<1> DEFINE T == {a, b, c, d, e}
           four == <<a, b, c, d>>
           five == <<a, b, c, d, e>>
<1>1. /\ four \in Seq(T) /\ five \in Seq(T) /\ e \in T
      /\ Len(four) = 4 /\ four[1] = a /\ four[2] = b /\ four[3] = c /\ four[4] = d
      /\ Len(five) = 5 /\ five[1] = a /\ five[2] = b /\ five[3] = c /\ five[4] = d /\ five[5] = e
  OBVIOUS
<1> HIDE DEF T, four, five
<1>2. /\ Len(five) = Len(four) + 1 /\ (\A i \in 1..Len(four) : five[i] = four[i])
      /\ five[Len(four) + 1] = e
  BY <1>1
<1>3. Append(four, e) = five
  BY <1>1, <1>2, AppendIs, Zenon
<1> QED
  BY <1>3 DEF four, five

LEMMA AppendedFirst == ASSUME NEW a PROVE Append(<<>>, a) = <<a>>
OBVIOUS

\* What such a line begins with.
QgroupStart == <<Sign(" "), Sign("gr1"), Sign(" "), Sign("user"), Sign(" ")>>

LEMMA QgroupStarts ==
    QgroupStart = Then(Then(Then(<<>>, Then(Lit(Gap), Lit("gr1"))), Then(Lit(Gap), Lit("user"))), Lit(Gap))
<1> DEFINE b == Sign(" ")
           x == Sign("gr1")
           y == Sign("user")
<1>1. Lit(Gap) = <<b>> /\ Lit("gr1") = <<x>> /\ Lit("user") = <<y>>
  BY Zenon DEF Lit, Gap
<1> HIDE DEF b, x, y
<1>2. Then(<<b>>, <<x>>) = <<b, x>> /\ Then(<<b>>, <<y>>) = <<b, y>> /\ Then(<<>>, <<b, x>>) = <<b, x>>
  <2>1. Append(<<b>>, x) = <<b, x>> /\ Append(<<b>>, y) = <<b, y>>
    BY AppendedTo, Zenon
  <2>2. <<>> \o <<b, x>> = <<b, x>>
    OBVIOUS
  <2>3. Then(<<b>>, <<x>>) = Append(<<b>>, x) /\ Then(<<b>>, <<y>>) = Append(<<b>>, y)
    BY ThenOne, Zenon
  <2> QED
    BY <2>1, <2>2, <2>3, Zenon DEF Then
<1>3. Then(<<b, x>>, <<b, y>>) = <<b, x, b, y>>
  <2> DEFINE T == {b, x, y}
             p == <<b, x>>
             q == <<b>>
             r == <<y>>
  <2>1. p \in Seq(T) /\ q \in Seq(T) /\ r \in Seq(T)
    OBVIOUS
  <2>2. Then(Then(p, q), r) = Then(p, Then(q, r))
    <3> HIDE DEF T, p, q, r
    <3> QED
      BY <2>1, ThenIsAssociative
  <2>3. Then(p, q) = Append(p, b) /\ Append(p, b) = <<b, x, b>> /\ Then(q, r) = <<b, y>>
    BY <1>2, ThenOne, AppendedTo, ZenonT(30)
  <2>4. Then(<<b, x, b>>, r) = Append(<<b, x, b>>, y)
    BY ThenOne, Zenon
  <2>5. Append(<<b, x, b>>, y) = <<b, x, b, y>>
    BY AppendedFourth, Zenon
  <2> QED
    BY <2>2, <2>3, <2>4, <2>5, Zenon
<1>4. Then(<<b, x, b, y>>, <<b>>) = <<b, x, b, y, b>>
  <2>1. Then(<<b, x, b, y>>, <<b>>) = Append(<<b, x, b, y>>, b)
    BY ThenOne, Zenon
  <2> QED
    BY <2>1, AppendedFifth, Zenon
<1> QED
  BY <1>1, <1>2, <1>3, <1>4, Zenon DEF QgroupStart, b, x, y

LEMMA QgroupCells ==
    ASSUME NEW id, IdFits(id), NEW w \in RowWords,
           NEW divider \in {Lit(" "), Lit(" ") \o Lit("|") \o Lit(" ")}
    PROVE  Cells(QgroupStart \o id \o divider \o Lit(w) \o Lit(" ") \o Lit("date"))
               = Append(<<Lit("gr1"), Lit("user"), id, Lit(w)>>, Lit("date"))
<1> DEFINE g == Lit(Gap)
           bar == Lit("|")
           token == Lit(w)
           a == Lit("gr1")
           b == Lit("user")
           d == Lit("date")
           e == <<>>
           s1 == Then(e, Then(g, a))
           s2 == Then(s1, Then(g, b))
           s3 == Then(s2, Then(g, id))
           s4 == Then(s3, Then(g, token))
           s5 == Then(s4, Then(g, d))
           r3 == Then(s3, Then(g, bar))
           r4 == Then(r3, Then(g, token))
           r5 == Then(r4, Then(g, d))
           line == Then(Then(Then(Then(Then(Then(s2, g), id), divider), token), g), d)
<1>1. /\ IsSolid(a) /\ IsSolid(b) /\ IsSolid(d) /\ IsSolid(id) /\ IsSolid(token) /\ IsSolid(bar)
      /\ a # bar /\ b # bar /\ d # bar /\ id # bar /\ token # bar
  <2>1. "gr1" \in RowWords /\ "user" \in RowWords /\ "date" \in RowWords
    <3>1. "gr1" \in OtherWords /\ "user" \in OtherWords /\ "date" \in OtherWords
      BY DEF OtherWords
    <3> QED
      BY <3>1, OthersAreWords
  <2> QED
    BY <2>1, SolidTexts, BarIsSolid, Zenon
<1>2. g \in Texts /\ id \in Texts /\ token \in Texts /\ d \in Texts /\ bar \in Texts
  BY <1>1, LexemesOfBy, Zenon DEF IsSolid
<1>3. QgroupStart \o id \o divider \o token \o Lit(" ") \o d = line
  BY QgroupStarts, Zenon DEF Then, Gap
<1>4. divider = g \/ divider = Then(Then(g, bar), g)
  BY Zenon DEF Then, Gap
<1>5. e \in Texts /\ Cells(e) = <<>>
  BY NoCells, Zenon
<1> HIDE DEF g, bar, token, a, b, d, e
<1>6. s1 \in Texts /\ Cells(s1) = <<a>>
  <2>1. Append(<<>>, a) = <<a>>
    BY AppendedFirst, Zenon
  <2> QED
    BY <1>1, <1>5, <2>1, OneMoreCell, Zenon DEF g, bar
<1> HIDE DEF s1
<1>7. s2 \in Texts /\ Cells(s2) = <<a, b>>
  <2>1. Append(<<a>>, b) = <<a, b>>
    BY AppendedTo, Zenon
  <2> QED
    BY <1>1, <1>6, <2>1, OneMoreCell, Zenon DEF g, bar
<1> HIDE DEF s2
<1>8. s3 \in Texts /\ Cells(s3) = <<a, b, id>>
  <2>1. Append(<<a, b>>, id) = <<a, b, id>>
    BY AppendedTo, Zenon
  <2> QED
    BY <1>1, <1>7, <2>1, OneMoreCell, Zenon DEF g, bar
<1>9. Then(Then(s2, g), id) = s3
  BY <1>2, <1>7, ThenApart
<1> HIDE DEF s3
<1>10. Append(<<a, b, id>>, token) = <<a, b, id, token>>
  BY AppendedFourth, Zenon
<1>11. CASE divider = g
  <2>1. s4 \in Texts /\ Cells(s4) = <<a, b, id, token>>
    BY <1>1, <1>8, <1>10, OneMoreCell, Zenon DEF g, bar
  <2>2. Then(Then(s3, g), token) = s4
    BY <1>2, <1>8, ThenApart
  <2> HIDE DEF s4
  <2>3. Cells(s5) = Append(<<a, b, id, token>>, d)
    BY <1>1, <2>1, OneMoreCell, Zenon DEF g, bar
  <2>4. Then(Then(s4, g), d) = s5
    BY <1>2, <2>1, ThenApart
  <2> HIDE DEF s5
  <2>5. line = s5
    BY <1>9, <1>11, <2>2, <2>4, Zenon
  <2> QED
    BY <1>3, <2>3, <2>5, Zenon DEF token, a, b, d
<1>12. CASE divider = Then(Then(g, bar), g)
  <2>1. r3 \in Texts /\ Cells(r3) = <<a, b, id>>
    BY <1>1, <1>8, OneMoreCell, Zenon DEF g, bar
  <2>2. Then(s3, divider) = Then(r3, g)
    <3> DEFINE q == Then(g, bar)
    <3>1. q \in Texts
      BY <1>2, ThenApart
    <3> HIDE DEF q
    <3>3. g \in Texts /\ s3 \in Texts
      BY <1>2, <1>8, Zenon
    <3>2. Then(Then(s3, q), g) = Then(s3, Then(q, g))
      BY <3>1, <3>3, ThenApart
    <3> QED
      BY <1>12, <3>2, Zenon DEF q
  <2> HIDE DEF r3
  <2>3. r4 \in Texts /\ Cells(r4) = <<a, b, id, token>>
    BY <1>1, <1>10, <2>1, OneMoreCell, Zenon DEF g, bar
  <2>4. Then(Then(r3, g), token) = r4
    BY <1>2, <2>1, ThenApart
  <2> HIDE DEF r4
  <2>5. Cells(r5) = Append(<<a, b, id, token>>, d)
    BY <1>1, <2>3, OneMoreCell, Zenon DEF g, bar
  <2>6. Then(Then(r4, g), d) = r5
    BY <1>2, <2>3, ThenApart
  <2> HIDE DEF r5
  <2>7. line = r5
    BY <1>9, <2>2, <2>4, <2>6, Zenon
  <2> QED
    BY <1>3, <2>5, <2>7, Zenon DEF token, a, b, d
<1> QED
  BY <1>4, <1>11, <1>12, Zenon

LEMMA FiveIsMany == ~(5 < 4)
OBVIOUS

LEMMA QgroupIsRead ==
    ASSUME NEW id, IdFits(id), NEW w \in RowWords,
           NEW divider \in {Lit(" "), Lit(" ") \o Lit("|") \o Lit(" ")}
    PROVE  QgroupLine(QgroupStart \o id \o divider \o Lit(w) \o Lit(" ") \o Lit("date"))
               = RowsFor(U64(id) \ {0}, JobStatus(Parse(w), NoReason))
<1> DEFINE token == Lit(w)
           a == Lit("gr1")
           b == Lit("user")
           d == Lit("date")
           line == QgroupStart \o id \o divider \o token \o Lit(" ") \o d
           ws == Append(<<a, b, id, token>>, d)
<1>1. Cells(line) = ws
  BY QgroupCells, Zenon
<1>2. ParseState(token) = Parse(w)
  BY WordIsState, Zenon
<1> HIDE DEF line, token, a, b, d
<1> DEFINE five == <<a, b, id, token, d>>
<1>3. Len(ws) = 5 /\ ws[3] = id /\ ws[4] = token
  <2>1. ws = five
    BY AppendedFifth, Zenon
  <2>2. Len(five) = 5 /\ five[3] = id /\ five[4] = token
    OBVIOUS
  <2> QED
    BY <2>1, <2>2, Zenon
<1> HIDE DEF ws
<1>4. ~(Len(ws) < 4)
  BY <1>3, FiveIsMany, Zenon
<1>5. QgroupLine(line) = IF Len(ws) < 4 THEN {} ELSE RowsFor(U64(ws[3]) \ {0}, JobStatus(ParseState(ws[4]), NoReason))
  BY <1>1, Zenon DEF QgroupLine, Cells, RowsFor
<1>6. QgroupLine(line) = RowsFor(U64(id) \ {0}, JobStatus(Parse(w), NoReason))
  BY <1>2, <1>3, <1>4, <1>5, Zenon
<1> QED
  BY <1>6 DEF line, token, d

-----------------------------------------------------------------------------
(* What is kept of a job. *)

\* A signal is never read as the exit code 0.
LEMMA EndedWellIsRead ==
    ASSUME SlurmInv, input.part = "slurm", NEW row \in OnFile
    PROVE  Outcome(row).exit = {0} <=> \E f \in row.field : f.exit = 0 /\ f.signal = 0
<1>1. ASSUME NEW id \in Ids
      PROVE  filed[id].exit \in Nat /\ filed[id].signal \in Nat
  BY <1>1, ListingsAssumption DEF SlurmInv, SlurmStates, filed
<1>2. PICK e \in Nat, s \in Nat : row.field = {[exit |-> e, signal |-> s]}
  <2>1. CASE \E id \in Ids : row = FileRow(id)
    BY <1>1, <2>1 DEF FileRow
  <2>2. CASE \E id \in Ids : row = StepRow(id)
    BY <1>1, <2>2 DEF StepRow, FileRow
  <2>3. CASE \E j \in Arrays : row = Aggregate(j)
    BY <2>3 DEF Aggregate
  <2> QED
    BY <2>1, <2>2, <2>3 DEF OnFile
<1> DEFINE f == [exit |-> e, signal |-> s]
<1>3. Outcome(row).exit = {IF f.signal # 0 THEN 128 + f.signal ELSE f.exit}
  <2>1. ExitCode({f}) = {IF f.signal # 0 THEN 128 + f.signal ELSE f.exit}
    BY DEF ExitCode
  <2> HIDE DEF f
  <2> QED
    BY <1>2, <2>1 DEF Outcome, f
<1>4. f.exit = e /\ f.signal = s
  OBVIOUS
<1>5. (IF s # 0 THEN 128 + s ELSE e) = 0 <=> e = 0 /\ s = 0
  OBVIOUS
<1>6. row.field = {f}
  BY <1>2
<1> HIDE DEF f
<1>7. Outcome(row).exit = {IF s # 0 THEN 128 + s ELSE e}
  BY <1>3, <1>4, Zenon
<1> QED
  BY <1>4, <1>5, <1>6, <1>7

\* The columns of sacct are read as they were printed, with `by' and without.
LEMMA StateColumns ==
    ASSUME NEW w \in RowWords
    PROVE  /\ IsColumn(Lit(w)) /\ ParseState(Lit(w)) = Parse(w)
           /\ IsColumn(Lit(w) \o By12) /\ ParseState(Lit(w) \o By12) = Parse(w)
<1>1. IsColumn(Lit(w)) /\ ParseState(Lit(w)) = Parse(w) /\ ParseState(Lit(w) \o By12) = Parse(w)
  BY WordLacksBar, WordIsState, StateWithBy, Zenon DEF IsColumn
<1> DEFINE t == Lit(w)
           g == Lit(Gap)
           x == Lit("by")
           y == Dec(12)
           u == t \o (g \o x)
<1>2. g \in Texts /\ x \in Texts /\ y \in Texts /\ Bar \notin ToSet(g) /\ Bar \notin ToSet(x) /\ Bar \notin ToSet(y)
  <2>1. ToSet(<<Space>>) = {Space} /\ ToSet(<<Number(12)>>) = {Number(12)}
    BY OneLexeme
  <2>2. Lit(Gap) = <<Space>> /\ Dec(12) = <<Number(12)>>
    BY Zenon DEF Lit, Gap, Space, Dec
  <2>3. "by" \in RowWords
    <3>1. "by" \in OtherWords
      BY DEF OtherWords
    <3> QED
      BY <3>1, OthersAreWords
  <2>4. Bar \notin ToSet(x)
    BY <2>3, WordLacksBar
  <2>5. Bar \notin {Space} /\ Bar \notin {Number(12)}
    BY BarIsNot
  <2>6. Bar \notin ToSet(g) /\ Bar \notin ToSet(y)
    BY <2>1, <2>2, <2>5, Zenon
  <2> QED
    BY <2>4, <2>6, LexemesOfBy
<1>3. t \in Texts /\ Bar \notin ToSet(t)
  BY <1>1 DEF IsColumn
<1>4. t \o By12 = u \o (g \o y)
  BY <1>3, ByIs, Zenon
<1>5. Sign(Gap) \in Lexeme /\ Bar # Sign(Gap)
  <2>1. Sign(Gap) = Space
    BY Zenon DEF Gap, Space
  <2> QED
    BY <2>1, BarIsNot DEF Lexeme
<1> HIDE DEF t, x, y
<1>6. u \in Texts /\ Bar \notin ToSet(u)
  BY <1>2, <1>3, <1>5, LexemesBetween DEF Texts
<1> HIDE DEF u
<1>8. IsColumn(u \o (g \o y))
  BY <1>2, <1>5, <1>6, LexemesBetween DEF IsColumn, Texts
<1> QED
  BY <1>1, <1>4, <1>8, Zenon DEF t

LEMMA ListedIsRead ==
    ASSUME RowFits(input)
    PROVE  RowIsRead
<1>1. PICK w \in RowWords : input.token = Lit(w) /\ Parse(w) = input.state
  BY Zenon DEF RowFits, IsState
<1> DEFINE id == input.id
           x == input.exit.text
           words == input.words
           token == Lit(w)
           state == token \o (IF input.by THEN By12 ELSE <<>>)
           listed == JobStatus(input.state, input.reason)
           kept == JobStatus(input.state, NoReason)
           sacct == Join(<<id, state, words, x>>, Divider)
           short == Join(<<id, state, words>>, Divider)
           squeue == Join(<<id, token, words>>, Gap)
           qgroup(divider) == QgroupStart \o id \o divider \o token \o Lit(" ") \o Lit("date")
<1>2. /\ IdFits(id) /\ IsReason(input.reason, words) /\ IsColumn(words)
      /\ IsColumn(x) /\ ExitField(x) = input.exit.code
  <2>1. IdFits(id) /\ ExitFits(input.exit) /\ IsReason(input.reason, words)
    BY IdsFit, ExitsFit, Zenon DEF RowFits
  <2> QED
    BY <2>1, Zenon DEF ExitFits, IsReason, IsColumn
<1>3. IsColumn(state) /\ ParseState(state) = input.state
  <2>1. token \o <<>> = token
    <3>1. token \in Texts
      BY StateColumns DEF IsColumn
    <3> HIDE DEF token
    <3> QED
      BY <3>1 DEF Texts
  <2> QED
    BY <1>1, <2>1, StateColumns, Zenon
<1>4. ParseStatus(state, words) = listed
  BY <1>2, <1>3, Zenon DEF ParseStatus, IsReason
<1> HIDE DEF state
<1>5. /\ SacctLine(sacct, 4) = RowsFor(U64(id), listed)
      /\ SacctLine(short, 3) = RowsFor(U64(id), listed)
      /\ SacctExit(sacct) = input.exit.code
      /\ SacctTaskLine(sacct, id) = {listed}
      /\ SacctTaskLine(sacct, Dec(7)) = {}
  <2> HIDE DEF id, x, words, listed
  <2>1. /\ SacctLine(sacct, 4) = RowsFor(U64(id), ParseStatus(state, words))
        /\ SacctLine(short, 3) = RowsFor(U64(id), ParseStatus(state, words))
        /\ SacctExit(sacct) = ExitField(x)
        /\ SacctTaskLine(sacct, id) = {ParseStatus(state, words)}
        /\ SacctTaskLine(sacct, Dec(7)) = {}
    <3>1. IdFits(id) /\ IsColumn(state) /\ IsColumn(words) /\ IsColumn(x)
      BY <1>2, <1>3, Zenon DEF id, x, words
    <3> QED
      BY <3>1, SacctIsRead, Zenon
  <2>2. ExitField(x) = input.exit.code
    BY <1>2, Zenon DEF x
  <2> QED
    BY <1>4, <2>1, <2>2, Zenon DEF words, listed
<1>6. /\ Len(Words(words)) < 2 =>
            /\ SqueueLine(squeue) = RowsFor(U64(id), listed)
            /\ SqueueTaskLine(squeue, id) = {listed}
      /\ SqueueTaskLine(squeue, Dec(7)) = {}
  <2> DEFINE reason == input.reason
  <2>1. IdFits(id) /\ IsReason(reason, words)
    BY <1>2, Zenon
  <2> HIDE DEF id, words, reason
  <2>2. /\ Len(Words(words)) < 2 =>
              /\ SqueueLine(squeue) = RowsFor(U64(id), JobStatus(Parse(w), reason))
              /\ SqueueTaskLine(squeue, id) = {JobStatus(Parse(w), reason)}
        /\ SqueueTaskLine(squeue, Dec(7)) = {}
    BY <2>1, SqueueIsRead, Zenon
  <2>3. JobStatus(Parse(w), reason) = listed
    BY <1>1, Zenon DEF reason
  <2> QED
    BY <2>2, <2>3, Zenon
<1>7. \A divider \in {Lit(" "), Lit(" ") \o Lit("|") \o Lit(" ")} :
          QgroupLine(qgroup(divider)) = RowsFor(U64(id) \ {0}, kept)
  BY <1>1, <1>2, QgroupIsRead, Zenon
<1>8. /\ input.token = token /\ Divider = "|" /\ Gap = " "
      /\ state = input.token \o (IF input.by THEN Lit(" ") \o Lit("by") \o Lit(" ") \o Dec(12) ELSE <<>>)
  BY <1>1, Zenon DEF Divider, Gap, state, By12
<1> QED
  BY <1>5, <1>6, <1>7, <1>8, Zenon DEF RowIsRead, RowsFor, QgroupStart

\* What a listed row says is what is kept of it.
LEMMA ListedIsKept ==
    ASSUME RowFits(input)
    PROVE  LET status == JobStatus(input.state, input.reason)
               named == PyReason("parse", input.words)
           IN  /\ RowIsRead
               /\ JobStatus(SavedState(status.state), SavedReason(status.reason)) = status
               /\ PyStatus(status) = status /\ PyBuilt(PyState[status.state], named) = status
               /\ ParseStatus(PyFinished(status)[1], PyFinished(status)[2]) = status
               /\ named = input.reason /\ PyReasonName(named) = input.reason.name
               /\ \A how \in PyNamedReason \cup {"none"} :
                     PyReason(how, <<>>) = named <=> PyReasonName(named) = IF how = "none" THEN "None" ELSE how
               /\ SavedReason(PyReason("other", input.words)) = named
<1> DEFINE state == input.state
           reason == input.reason
           words == input.words
           status == JobStatus(state, reason)
           named == PyReason("parse", words)
<1>1. state \in JobState /\ IsReason(reason, words)
  BY Zenon DEF RowFits, IsState
<1>2. status.state = state /\ status.reason = reason
  BY DEF JobStatus
<1>3. ParseState(Lit(AsToken[state])) = state /\ ParseReason(ReasonText(reason)) = reason
  BY <1>1, StateArrives, Zenon DEF IsReason
<1>4. /\ named = reason /\ SavedReason(reason) = reason
      /\ SavedReason(PyReason("other", words)) = reason
      /\ \A how \in PyNamedReason \cup {"none"} :
            PyReason(how, <<>>) = reason <=> PyReasonName(reason) = IF how = "none" THEN "None" ELSE how
  BY <1>1, ReasonArrives, Zenon
<1> HIDE DEF status, named
<1>5. SavedState(state) = state
  BY <1>3, Zenon DEF SavedState
<1>6. PyStatus(status) = status
  BY <1>2, <1>3, Zenon DEF PyStatus, ParseStatus, status
<1>7. PyBuilt(PyState[state], named) = status
  <2>1. PyState[state] = state /\ InnerState[state] = state
    BY <1>1 DEF PyState, InnerState
  <2> QED
    BY <1>4, <2>1, Zenon DEF PyBuilt, status
<1>8. ParseStatus(PyFinished(status)[1], PyFinished(status)[2]) = status
  <2> DEFINE a == Lit(AsToken[state])
             b == ReasonText(reason)
  <2>1. PyFinished(status) = <<a, b>>
    BY <1>2, Zenon DEF PyFinished
  <2> HIDE DEF a, b
  <2>2. PyFinished(status)[1] = a /\ PyFinished(status)[2] = b
    BY <2>1
  <2> QED
    BY <1>3, <2>2, Zenon DEF ParseStatus, status, a, b
<1>9. PyReasonName(named) = reason.name
  BY <1>4, Zenon DEF PyReasonName
<1>10. JobStatus(SavedState(status.state), SavedReason(status.reason)) = status
  BY <1>2, <1>4, <1>5, Zenon DEF status
<1>11. RowIsRead
  BY ListedIsRead
<1> QED
  BY <1>2, <1>4, <1>6, <1>7, <1>8, <1>9, <1>10, <1>11, Zenon DEF status, named

-----------------------------------------------------------------------------

\* What a listed row is, and what SLURM shows.
OutcomeInv ==
    /\ SlurmInv
    /\ input.part = "listed" => RowFits(input)

LEMMA OutcomeInvInit == Init => OutcomeInv
<1>1. ASSUME Init
      PROVE  SlurmInv /\ (input.part = "listed" => input \in ListedRows)
  BY <1>1, SlurmInvInit, PartsOfInit DEF InitParts
<1> QED
  BY <1>1, ListedRowsFit, Zenon DEF OutcomeInv

\* A listed row stays as it is: no step is one of such an input.
LEMMA OutcomeInvNext == OutcomeInv /\ [Next]_input => OutcomeInv'
<1> SUFFICES ASSUME OutcomeInv, [Next]_input
             PROVE  OutcomeInv'
  OBVIOUS
<1>1. SlurmInv /\ SlurmInv' /\ "part" \in DOMAIN input
  BY SlurmInvNext DEF OutcomeInv, SlurmInv
<1>2. CASE Apart
  <2>1. input.part # "listed"
    <3>1. CASE Type
      BY <3>1 DEF Type
    <3>2. CASE Configure
      BY <3>2 DEF Configure
    <3>3. CASE LogSteps
      BY <3>3 DEF LogSteps, LogIsRead, LogGrows, LogIsCut, BeingRead
    <3> QED
      BY <1>2, <3>1, <3>2, <3>3 DEF Apart
  <2>2. input'.part = input.part
    BY <1>1, <1>2, PartsStay
  <2> QED
    BY <1>1, <2>1, <2>2 DEF OutcomeInv
<1>3. CASE StoreSaves
  <2>1. input.part = "store" /\ input'.part = input.part
    BY <1>1, <1>3, Zenon DEF StoreSaves
  <2>2. input'.part # "listed"
    BY <2>1
  <2> QED
    BY <1>1, <2>2, Zenon DEF OutcomeInv
<1>4. CASE StoreDeletes
  <2>1. input.part = "store" /\ input'.part = input.part
    BY <1>1, <1>4, Zenon DEF StoreDeletes
  <2>2. input'.part # "listed"
    BY <2>1
  <2> QED
    BY <1>1, <2>2, Zenon DEF OutcomeInv
<1>5. CASE SinkSteps
  <2>1. input.part = "sink" /\ input'.part = input.part
    BY <1>1, <1>5 DEF SinkSteps
  <2>2. input'.part # "listed"
    BY <2>1
  <2> QED
    BY <1>1, <2>2, Zenon DEF OutcomeInv
<1>6. CASE UNCHANGED input
  BY <1>1, <1>6, Zenon DEF OutcomeInv, RowFits
<1> QED
  BY <1>2, <1>3, <1>4, <1>5, <1>6 DEF Next, Apart, LogSteps

\* What is kept of a job is what became of it (sbatch/parse.rs): a signal is never read as
\* the exit code 0, but as 128 and its number, and of each row of ListedRows, for every
\* spelling of a state and a reason there is, the code reads what was printed, of the job it
\* was printed for and of no other; snapshots and Python keep it.
THEOREM OutcomesAreKept == Spec => []OutcomeIsKept
<1>1. OutcomeInv => OutcomeIsKept
  <2> SUFFICES ASSUME OutcomeInv
               PROVE  OutcomeIsKept
    OBVIOUS
  <2>1. input.part = "slurm" =>
            \A row \in OnFile : Outcome(row).exit = {0} <=> \E f \in row.field : f.exit = 0 /\ f.signal = 0
    BY EndedWellIsRead DEF OutcomeInv
  <2> QED
    BY <2>1, ListedIsKept, Zenon DEF OutcomeInv, OutcomeIsKept
<1> QED
  BY <1>1, OutcomeInvInit, OutcomeInvNext, PTL DEF Spec
=============================================================================
