------------------------------ MODULE StoreFiles ------------------------------
(***************************************************************************)
(* The files of the state stores (store.rs): what a store of snapshots of  *)
(* one kind writes, and what stores of either kind read from a directory   *)
(* that they share with each other, with files of older builds and with    *)
(* files of newer ones; and how the managers attach to what they find.     *)
(*                                                                         *)
(* `disk' holds for each uuid the file of that name, if there is one.  An  *)
(* Option is a set of at most one value, also for a field of a file that   *)
(* may be missing.  Writes that are cut short or overlap are the subject   *)
(* of SbatchManager.                                                       *)
(***************************************************************************)
EXTENDS Integers, Sequences, FiniteSets, Functions

CONSTANT Uuids

\* The kinds of snapshots, and the fields that stores and managers look at.
SbatchSnapshot(uuid, jobid, rest) ==
    [kind |-> "sbatch", uuid |-> uuid, jobid |-> {jobid}, pid |-> {}, rest |-> rest]
TssrunSnapshot(uuid, jobid, pid) ==
    [kind |-> "tssrun", uuid |-> uuid, jobid |-> jobid, pid |-> {pid}, rest |-> 0]

SCHEMA_VERSION == 1

Ok(found) == [is |-> "ok", found |-> found]
Error == [is |-> "error", found |-> {}]

-----------------------------------------------------------------------------
(* Files. *)

\* Mutant: a file does not say of which kind it is.
EncodeBody(snap) == [whole |-> TRUE, kind |-> {}, version |-> {SCHEMA_VERSION}, body |-> snap]

\* write_atomic_json(): the snapshot, with two fields added.
Encode(snap) == [whole |-> TRUE, kind |-> {snap.kind}, version |-> {SCHEMA_VERSION}, body |-> snap]

\* serde_json::from_value(): the fields of one kind do not make a snapshot of the other.
FromValue(kind, file) == IF file.body.kind = kind THEN Ok({file.body}) ELSE Error

\* decode_with_kind_check().  A version that is no number (here -1) is none we know.
Decode(kind, file) ==
    IF ~file.whole \/ file.version \notin {{}, {SCHEMA_VERSION}} THEN Error
    ELSE IF file.kind \notin {{}, {kind}} THEN Ok({})
    ELSE FromValue(kind, file)

-----------------------------------------------------------------------------
(* FileSystemStateStore, the operations of a store of one kind. *)

Save(disk, snap) == [disk EXCEPT ![snap.uuid] = {Encode(snap)}]

\* A file of any kind goes, and a missing one is no error.
Delete(disk, uuid) == [disk EXCEPT ![uuid] = {}]

Load(disk, kind, uuid) ==
    IF disk[uuid] = {} THEN Ok({}) ELSE Decode(kind, CHOOSE f \in disk[uuid] : TRUE)

\* What cannot be read, and what is of another kind, is passed over.
List(disk, kind) == UNION {Load(disk, kind, uuid).found : uuid \in DOMAIN disk}

\* What attach_jobid and attach_array_jobid look through, and the first of them, which
\* depends on the order of the directory.
FindAllByJobid(disk, kind, jobid) == {s \in List(disk, kind) : jobid \in s.jobid}
FirstOf(S) == IF S = {} THEN {{}} ELSE {{s} : s \in S}
FindByJobid(disk, kind, jobid) == FirstOf(FindAllByJobid(disk, kind, jobid))
FindByPid(disk, pid) == FirstOf({s \in List(disk, "tssrun") : pid \in s.pid})

-----------------------------------------------------------------------------
(* InMemoryStateStore: a map under a lock, for one kind of snapshots. *)

MemSave(map, snap) == [map EXCEPT ![snap.uuid] = {snap}]
MemDelete(map, uuid) == [map EXCEPT ![uuid] = {}]
MemLoad(map, uuid) == map[uuid]
MemList(map) == UNION Range(map)

-----------------------------------------------------------------------------
(* Attaching: what a manager makes a handle of, or why it does not. *)

Handle(snap) == [is |-> "handle", of |-> {snap}]
Refused(why) == [is |-> why, of |-> {}]
OfFound(found) == IF found = {} THEN Refused("not found") ELSE Handle(CHOOSE s \in found : TRUE)

\* SbatchManager::attach(): by file it asks for the kind, but not for the version.
SbatchAttach(disk, key) ==
    CASE key.by = "uuid" ->
            LET loaded == Load(disk, "sbatch", key.value)
            IN  {IF loaded.is = "error" THEN Refused("io") ELSE OfFound(loaded.found)}
      [] key.by = "jobid" ->
            LET all == FindAllByJobid(disk, "sbatch", key.value)
            IN  {IF Cardinality(all) > 1 THEN Refused("multiple") ELSE OfFound(all)}
      [] key.by = "file" ->
            LET file == CHOOSE f \in disk[key.value] : TRUE
                read == FromValue("sbatch", file)
            IN  {CASE disk[key.value] = {} \/ ~file.whole -> Refused("io")
                   [] disk[key.value] # {} /\ file.whole /\ file.kind \notin {{}, {"sbatch"}} -> Refused("kind")
                   [] OTHER -> IF read.is = "error" THEN Refused("io") ELSE OfFound(read.found)}

\* TssrunManager::attach(): by file it asks for neither.
TssrunAttach(disk, key) ==
    CASE key.by = "uuid" ->
            LET loaded == Load(disk, "tssrun", key.value)
            IN  {IF loaded.is = "error" THEN Refused("io") ELSE OfFound(loaded.found)}
      [] key.by = "jobid" -> {OfFound(found) : found \in FindByJobid(disk, "tssrun", key.value)}
      [] key.by = "pid" -> {OfFound(found) : found \in FindByPid(disk, key.value)}
      [] key.by = "file" ->
            LET file == CHOOSE f \in disk[key.value] : TRUE
                read == FromValue("tssrun", file)
            IN  {IF disk[key.value] = {} \/ ~file.whole \/ read.is = "error" THEN Refused("io")
                 ELSE OfFound(read.found)}

Attach(disk, kind, key) == IF kind = "sbatch" THEN SbatchAttach(disk, key) ELSE TssrunAttach(disk, key)
=============================================================================
