# A verification of slurm-async-runner in TLA+

slurm-async-runner submits SLURM jobs (`sbatch`, and KUDPC's `tssrun`), follows
them by polling `squeue`, `qgroup` and `sacct`, and keeps what it knows of each
job in a snapshot file so that another process can take over. All of it is
`async` Rust on tokio; Python calls it through PyO3.

This directory holds TLA+ modules that model it, TLC configurations that check
them on small instances, and proofs for TLAPS. `PROJECT.json` lists every run,
mutant, theorem, hazard and, under `map`, the source lines each definition
stands for. File names without a directory are relative to `src/src`.

To check one run: `tlc -config SbatchHandle.cfg MCSbatchHandle.tla`; to check
the proofs: `tlapm SbatchHandleProofs.tla`.

## 1. The system

| Part | State | Operations | Who calls whom |
|---|---|---|---|
| **Query cache** (`sbatch/query_cache.rs` and its three shapes) | one slot behind an async mutex: the last answer, its age and the keys it covers; a registry of recently requested keys | `capture()`: replay or fetch | wraps the dispatcher; shared by all handles of a manager, one cache per command |
| **Status queries** (`runner.rs`) | none | one command, parsed into `(state, reason, exit code)` per job; squeue before sacct; array rows folded | called by the handles through the cached dispatcher |
| **Sbatch handle** (`sbatch/handle.rs`) | the snapshot on a `watch` channel; `refresh_lock` | `refresh`, `refresh_with_sacct`, `wait_terminal`, log reads | cloned freely; queries, then saves to the store, then publishes |
| **Sbatch manager** (`sbatch/manager.rs`) | the store and the three caches | `spawn`, `spawn_array`, `run`, `run_with`, `attach`, `attach_array_jobid`, `cancel` | runs sbatch, saves, hands out handles |
| **State store** (`store.rs`) | a directory of `<uuid>.json` files, or a map | `save` (atomic, on a blocking thread), `load`, `list`, `delete`, lookups by jobid | shared between handles, managers and processes |
| **Tssrun handle** (`tssrun/handle.rs`) | the snapshot; two tee tasks; a wait task; their join handles | `wait`, `refresh`, `wait_terminal` | owner tasks save; attached handles only load |
| **Tssrun manager** (`tssrun/manager.rs`) | store, log sink | `spawn_with`, `attach`, `query_state` | starts the child and the tasks |
| **Dispatcher** (`dispatcher.rs`) | none | `run`, `capture` | starts processes |
| **Log sinks** (`tssrun/log.rs`) | two open files, or a buffer | `append`, `flush` | called by the tees, and by the wait task |
| **Vocabulary and options** (`entities/`) | values | parse, format, validate | used by the queries and the command builders |
| **Command builders** (`sbatch/cmd.rs`, `tssrun/cmd.rs`) | values | `build_argv` | used by the managers |
| **One-shot submission** (`manager.rs`) | none | `run_job` | builds an srun, gives it to the dispatcher |
| **Python bindings** (`py_export/`) | a mutex around a tssrun handle | conversions | call everything above |

What is hard in it:

- **Suspension and cancellation.** Every `await` is a point where other tasks
  run and where the future may be dropped (`timeout`, `select!`,
  `asyncio.wait_for`). Locks are then released, but a write given to
  `spawn_blocking` goes on.
- **Three sources that lag.** A listing drops a job, the accounting database
  learns of its end later, and a cached answer is older than both. "No row" may
  mean gone, not yet there, or a command that could not answer.
- **Shared copies.** The snapshot exists on the watch channel, on disk, in the
  locals of every call under way, and in other processes.
- **A submission is not undoable.** After sbatch has accepted a job, a parse or
  a save may still fail, or the caller may have gone.
- **Liveness.** `wait_terminal()` and `wait()` must end with the job.

What makes each part correct, in a sentence: the cache never answers anything a fresh
query within the last TTL could not have answered, with one command in flight that asks
for exactly the jobs that are being asked about; the sbatch handle records an outcome
only if it is one, and once; the manager never loses a jobid SLURM has given out, and
what it returns is on disk; no reader of the store meets a file that is half written;
the tssrun handle's tasks never disagree, and `wait()` returns with all that was
printed; a value that is printed - an option, a state, a command line, a template of a
log's name - is read back as the same value or refused; and how a command ended is what
its caller is told. Where the code does less, section 5 says so.

## 2. The modules

| Module | Models | Composition |
|---|---|---|
| `StatusOracle` | *abstract*: what a shared status query promises | - |
| `QueryCache` | `capture()` of the cache | refines `StatusOracle` |
| `WaitPolls` | `wait_terminal()`'s polls and failure counter on one cache | EXTENDS `QueryCache` |
| `SbatchHandle` | the handle, `run()`'s wait, the queries, SLURM | the cache as an answer that is replayed until it expires |
| `SbatchManager` | submission, attachment, the directory | the handle's wait is one step |
| `TssrunHandle` | child, pipes, tees, wait task, store, attached reader | - |
| `Queries` | which rows of a listing count, array lookups, bulk queries, state tokens | what `SbatchHandle` takes as an answer |
| `Status` | the same rows word by word; states and reasons in all their forms | EXTENDS `Queries`, `Text` |
| `Text` | texts as sequences of lexemes; split, join, numbers | - |
| `ArraySpec`, `TimeLimit`, `Dependency`, `ResourceSpec` | one option each: its text, its parser, what Python builds of it | EXTEND `Text` |
| `SbatchOptions` | signals, mail types, a job's configuration and its JSON | EXTENDS the four |
| `Commands` | the argv of sbatch, tssrun and srun, and how such a line is read | EXTENDS `SbatchOptions` |
| `QueryText` | the argv of the queries, and what each cache takes and runs instead | EXTENDS `Text` |
| `LogFiles` | where a job's log is; reading its end | EXTENDS `Text` |
| `LogSinks` | `append()` and `flush()` over files whose writes land later | - |
| `StoreFiles` | what stores of both kinds make of one directory; `attach()` by each key | the contents `SbatchManager` leaves out |
| `Processes` | how a command ended, whether the working directory is still there, and what the callers make of it | EXTENDS `Commands`, `LogFiles`, `Status` |
| `QueryCacheProofs`, `WaitPollsProofs`, `SbatchHandleProofs`, `SbatchManagerProofs`, `TssrunHandleProofs` | theorems about the module of that name | EXTEND it and `TLAPS` |
| `TextProofs`, `OptionProofs`, `QueriesProofs` | lemmas on texts, logs and their templates, and sinks; on array specs, the other options, job keys and command lines; and the theorems of `MCQueries` | each EXTENDS the one before it |
| `MCDocs` | a statement of the docs that the code contradicts | EXTENDS `MCQueries` |
| `MC...` | values for the constants of an instance, symmetry; `MCQueries` also the inputs of all the stateless modules and what is asked of them | EXTEND their modules |

Definitions next to another one and marked *Mutant* are plausible bugs; no
specification uses them. Each property is checked to be violated when the
definition they belong to is replaced by one of them.

### QueryCache

`slot.entry`, `slot.recent` and the mutex are `entry`, `recent`, and `queue`
with `pc`. One `capture()` is `Request` (it queues for the lock), then `Hit`, or
`BeginFetch` - `Sample` or `SampleFails` - `EndFetch`: the fetch takes time and
the controller is sampled somewhere in it. The future may be dropped in the
queue (`CancelQueued`) or under the lock (`CancelFetch`). Time is a counter; an
`Instant` is a value of it. The queue is FIFO, as tokio's mutex is. A listing is
the set of jobs with a row, since what a cache can get wrong is presence; a
spawn error and an error status are both "failure". An entry's keys decide
whether it may be replayed to a request (lines 237-241); the model keeps the
subset test, the `< ttl`, the `2 * ttl` retention with its pruning on a miss
only, and that failures are stored as well. `polled` is history: when a request for a
key last had the lock; unlike the registry it is never pruned.

`StatusOracle` says what may be concluded from an answer: a missing row means
the job has left, a row or a failure is at most `Staleness` old.
`Staleness` is the TTL less one instant plus the time one command may run.

The qgroup shape has no keys and one command for all: it is the cache of a
single key which every request has.

### WaitPolls

Adds to every caller the loop of `wait_terminal()`: poll, count, sleep. `blame`
remembers which commands the failures in a row come from. The outcome of a poll
is the cache's answer; a row may be a terminal one (squeue still lists a job
that has just ended).

### SbatchHandle

SLURM's truth (`job`, `listed`, `acct`) and what the handle has (`watch`,
`store`) are apart; the listings purge and the accounting flushes in any order
and at any time, and a node failure may requeue the job under the same id. Each
call is a program counter whose labels are the awaits of `refresh()`
(lock - qgroup - squeue - save - publish) and of the second half of
`refresh_with_sacct()` (lock2 - squeue2 - sacct - save2 - publish2); between two
labels the code runs without suspension, so these are the atomic steps.
`watch.send_replace` and the release of the lock are one step because no await
lies between them. An array task skips qgroup (handle.rs:336-343). `Drop` is a
dropped future: the lock guard goes, and a save under way becomes an orphan that
`LateSave` writes at some later time.

States are those the control tells apart: pending, running, two terminal ones,
and `Unknown`, a token that `parse()` does not know. Reasons and timestamps are
left out, and of an exit code only its presence is kept (the sentinel at
handle.rs:490-497 asks for no more).

### SbatchManager

A submission is sbatch (`SbatchOk`, `SbatchFails`, `SbatchGarbled`, `SbatchKilled`), and
a save for each task. A snapshot is known by its submission, its place in it, and its
task: an array spec is the list that `expand_array_indices()` makes of it, in which
overlapping entries name a task twice, and each place gets a snapshot of its own.

`write_atomic_json()` runs on a blocking thread: `writes` is the temporary file, which
`Fill` fills and `Persist` gives the name of the entry, or `WriteFails` removes. The call
waits for its end (`SaveEnds`, `SaveFails`); if the call is dropped, the write goes on.
`list()` reads the directory entry by entry (`ReadEntry`) while others save and delete.
It may or may not see what arrives during the scan, and it passes over what is gone or
does not decode. A file that is there but cannot be read just then is skipped with a
warning (`SkipEntry`, into `skipped`), as in store.rs:178-188.

A dropped submission leaves an sbatch that still runs. `Crash` is the death of the
process: all calls and writes go, the files stay. `PowerLoss` takes the machine: nothing
was synced, so that any entry may be torn or gone afterwards. `cell` is what `on_spawn` of
`run_with()` has told its caller; `told`, `lost`, `deleted`, `spoiled` and a scan's
`there` (what was on disk, whole, when it began) are history.

### TssrunHandle

The child, and the processes that inherit its pipes, have banners to print on two pipes
of bounded size; who meets a full one is blocked (`Emit`). The child exits when it has
nothing left to print (`ChildExits`), so that a pipe nobody empties holds it for ever,
or it is killed (`ChildKilled`, which nothing makes happen). Pipes close in their own
time after that. A tee that has met a line that is not UTF-8 has dropped its end of the
pipe: what is printed later is lost. Each task changes the watch channel, copies it, and
saves the copy in three steps, as tee_lines and the wait task do, with no order between
tasks. A second process attaches through the store and polls. The owner may refresh, and
may die.

### The modules without a state of their own

The rest of the crate is functions, and the modules from `Queries` to `Processes` define
them as such. `MCQueries` has one variable, `input`; its part says which module is
looked at, and its steps are what changes such a value in use: one more lexeme is typed,
Python sets a field of a configuration, a store of one kind saves or deletes, a step of
a sink, a chunk of a log is read, or the log grows or is cut meanwhile. What may vary
without changing what is asked - the jobs and tasks, how squeue and sacct list them and
in which orders, the logs found and what is written to them - is a constant of
`MCQueries`, so that the proofs have any. An Option, or a Result, is a set of at most
one value throughout.

**Queries, Status.** `Tokens`, `Parse`, `AsToken` and `ExitCode` are the conversions,
`ByJob` and `OfTask` the two families of row parsers, `QueryBatch` the bulk query over
what squeue and sacct print. `MCQueries` gives what they print: the rows of the keys
asked about, those of steps, and sacct's aggregate of pending tasks. `Status` has the
lines themselves (`SqueueLine`, `SacctLine`, `QgroupLine`, the two lookups of a task;
`Words` are the parts between spaces without the empty ones), and the way of a state and
a reason through serde (`SavedState`, `SavedReason`) and through Python (`PyStatus`,
`PyReason` ...).

**Text and the options.** A text is a sequence of lexemes: a sign or a word that
stands for itself, or a number whatever its spelling. `ParseUnsigned` is
`str::parse` of a width, `U32` and `U64` its instances; the widths are constants. Each
option has `...Text` (its Display), `Parse...` (its FromStr) and `Py...` (what the
PyO3 constructors and getters build and return, which is more than the parser
accepts). `ExpandArrayIndices` is the loop of `spawn_array()`.

**Commands.** `SbatchArgv`, `TssrunArgv` and `SrunArgv` are the `build_argv()`s, with
`Absolutize` of `util/path.rs` and `render_export()`. `ReadArgv` is external: how
sbatch and tssrun take a command line apart, word by word as `getopt_long` does, which
is what makes an argv right or wrong.

**QueryText.** `SqueueQuery`, `SacctQuery`, `QgroupQuery` and `SacctStateQuery` are the
lines `runner.rs` writes; `SqueueParse` and `SacctParse` the shapes that recognise
them; `RunInstead` the line the cache runs for the keys of all its callers.

**LogFiles.** `ResolveLogPath` puts the tokens in one after the other, as
`parse.rs` does. `StartRead` is `read_last_lines()` up to its loop and `ReadChunk` one
turn of the loop, over what the file holds at that look: each is a step of its own,
because the job writes meanwhile.

**LogSinks.** A line goes into a file in two writes, text and newline. tokio's
`File` hands each to a blocking thread and returns: it lands later (`Land`), or
fails (`LandFails`), and the next operation waits for it and is told. `Flush`
is the wait task's.

**StoreFiles.** A file is whole or not, has a kind, a version and a body. `FromValue`
and `Load` are what a store makes of it, `List` skips what it cannot read;
`SbatchAttach` and `TssrunAttach` are the managers' `attach()` by uuid, jobid, pid or
file. Next to each directory `MCQueries` keeps an `InMemoryStateStore`
for each kind, which gets the calls of that kind's store and no other; `taken` has the
uuids whose entry the store of the other kind was told to delete.

**Processes.** `Capture` and `Dispatch` are `TokioDispatcher`; `Spawn`, `SpawnArray`,
`RunWith`, `Cancel`, `QueryStatus`, `RunJob`, `TssrunSpawn` go from how a command ended
to what a call returns, with the error it makes and the facts that error holds.
`AbsoluteAfter` is what lies between sbatch's answer and the first save: the script's
path is made absolute once more, which fails if the working directory is `gone`. `Py...`
is what Python gets or catches.

## 3. The runs

| Run | Instance | Shows |
|---|---|---|
| `cache` | 2 callers, 2 jobs, TTL 2, commands of up to 1 instant, 3 instants | `NoFabricatedVanish`, `FewFetches`, refinement of `StatusOracle` |
| `polls` | 2 waits of a job each, TTL = poll = 1, commands of up to 1 instant, 3 instants | `EveryRequestEnds` under cancellation, `HiccupSurvived` when the poll interval is the TTL, `BatchIsCurrent`: a command asks for its caller's jobs and for exactly those that were polled within `2 * TTL` |
| `wait_hiccup` | 1 wait, poll 1, TTL 6, cap 5 | *violated*: `HiccupSurvived` |
| `handle` | a caller that runs, waits and finalizes and one that refreshes, a single job; one failure, killed squeue, requeue or dropped future | outcomes are real and final, saved before seen, one writer; no false end |
| `handle_live` | an array task that may end in an unknown state, a finalizer and a waiter, one failure | `WaitEnds`, `OutcomeIsRecorded`; outcomes are real |
| `two_finalizers` | two clones finalize | *violated*: `FinishedIsNotErased` |
| `manager` | 2 calls at once, a job, alone or as the array 2,1,2, two troubles of any kind | no job is stranded; spawned is saved, in the order of the spec; an attachment to the array misses nothing it could read and has each snapshot once, in the order of the tasks, one to the job picks none of several; no reader meets half a file |
| `run_dropped` | 1 call | *violated*: `NothingToCancel` |
| `tssrun` | 2 jobid banners, pipes of one line, 1 trouble of any kind | copies agree and tell the truth; `wait()` drains and returns, though the child blocks on full pipes |
| `tssrun_attached` | a jobid and a node banner | *violated*: `AttachedWaitEnds` |
| `docs_task_handles` | the array specs of `queries` | *violated*: `OneHandlePerTask` |
| `queries` | the inputs of section 2's stateless modules, part by part | the twelve properties below |

What `queries` asks of the functions:

| Property | Inputs | It says |
|---|---|---|
| `SharedListingsAreTrue`, `BatchIsTransparent` | jobs 1 and 3, tasks 2_0 and 2_1, each in squeue or not and in sacct or not, two row orders, one command failing | a handle finds its own row in a listing made for many; a bulk query is the union of single ones |
| `OutcomeIsKept` | every state by each of its tokens, every reason, unknown ones; rows of jobs, tasks, steps, sums | what was printed is what the snapshot holds after a save and a load, and what Python is given; a signal is never a success (its exit code is 128 and its number, as parse.rs:109-115 says and the docs of `exit_code()` deny: section 5) |
| `OptionsSurvive` | every text of up to 5 lexemes per option, and of 7 for `--rsc`; valid values and what only Python can build; a configuration whose fields are set in any order | a value that is printed is read back as itself (a dependency of one clause as joined by And) or refused if it breaks what the parser checks (which for `--rsc` is less than the docs say: section 5), never as another |
| `HandlesMatchTasks` | the array specs among them, ranges of up to 10 tasks | a handle for each task SLURM starts and no other; where entries overlap a task has several (`docs_task_handles`) |
| `QueriesReachTheirCache` | every list of jobs of up to 5 lexemes; neighbours of the command lines | a query about jobs is taken by its own cache, which asks the same; anything else goes past as a whole |
| `CommandSaysItsOptions` | no option, each, each pair, all; scripts that look like options or have no name; environments | what sbatch or tssrun reads off the argv is what the command object says |
| `CommandEndsAreTold` | up to 2 lines of output, codes 0 and 1, a signal, no such program; the working directory gone afterwards or not; 0 to 2 saves that succeed | a job that was announced is in a handle or named in the error, unless the working directory is gone (section 5); a failure is passed on and never read as an answer |
| `StoresKeepApart` | 3 uuids, files from before of any kind and version, whole or not | stores of both kinds in one directory are as two maps, but for what each deletes of the other's (section 5); `attach()` finds what was asked for |
| `LogPathIsResolved` | templates of up to 4 lexemes, with and without task and name | the path is the template read once from left to right; tasks have logs of their own if it tells them apart; for names in which no token arises |
| `TailIsTrue` | files of up to 4 characters, one of two bytes; the file grows or is cut between any two chunks | the answer is the last lines of the file as it was opened, unless the job wrote over what had been cut; a call fails only if the file was cut |
| `LogKeepsItsLines` | 3 lines and 1, four kinds of sink, up to 2 failing writes | lines stay in order, each in its file; a failure costs one line; after `wait()` only a newline is under way |

Bounds, and why they suffice:

- *Callers.* Two: each property is about a call and one that overlaps it. The
  proofs have any number.
- *Keys.* Two jobs, one that was asked about and one that was not, are what the
  subset rule needs (`cache`), and what it takes for a batch to have too many or too few
  (`polls`).
- *TTL and horizon.* In `cache` a TTL of 2 separates "fresh" and "exactly TTL", and 3
  instants are an entry, its expiry and what follows it. The registry forgets after
  `2 * TTL`. In `polls` the TTL is 1 and the last instant 2, so that a wait which was dropped
  leaves the batches at the last instant and not before, and one that polls every TTL is
  late by an instant in many ways. `cache` ends before its `2 * TTL`.
- *Poll and cap.* `wait_hiccup` is the situation of `docs/process-flow.md:361` (a
  poll of 10 s under the default TTL of 60 s) with the code's cap of 5;
  elsewhere the cap is 2, the least that has a streak.
- *Mishaps.* In `SbatchHandle` one in all, of those its constants admit (`OneMishap`),
  in `TssrunHandle` one, in `SbatchManager` two, of any kind: a failure, a line that is
  not UTF-8, an unreadable file, a deletion, a dropped future, a crash, a loss of power,
  a requeue. Two overlapping calls and one mishap are where the code's handling differs;
  with `OneMishap` the model checker goes no further than the first, and the theorems
  have any number.
- *One job* in `manager`: the jobs of others matter to a scan only because it must pass over
  them, which is shown by `ArraysAreFound` and `AttachIsSure` for any.
- *Texts.* `MaxTyped` is 5 lexemes (4 for templates, 7 for `--rsc`), which is each
  grammar's longest form or one that has all of its signs: `1-2:3`, `a:7+5` and a second
  clause, `R:9@60`. With 7 a resource specification repeats a key, or mixes those of CPU
  and GPU. `MaxU32` is 100000 and `MaxU64` is 200000: a day has 86400 seconds, so that a
  limit of one fits and one of two does not, as with the real widths much later.
- *A chunk of 2 bytes* splits lines and characters in every way; `TAIL_READ_CHUNK` only
  has to be positive for `ReadChunk`.
- *Three uuids*: two snapshots of one kind that a jobid may share, and one of the
  other.
- *Pipe of one line.* The tighter, the more the child blocks: with two banners on one
  stream it cannot exit before the tee has read the first. `tssrun` has no node banner;
  that copies agree on the node is shown by the theorem `JobIsAgreed` only.
- `CHECK_DEADLOCK FALSE` where a run ends: a job has ended, the trouble is
  spent, all calls have returned.

Fairness:

- `QueryCache`, `WaitPolls`: a caller at the head of the queue gets the lock, every
  command ends, a finished fetch is stored. tokio polls a ready task, and a
  command under the controller's own timeouts ends. No fairness on requests or
  cancellations. In `WaitPolls` a poll that is due is made.
- `SbatchHandle`: SLURM runs the job to its end, purges and accounts for it; the
  step a call can take is taken; strong fairness for the lock, because tokio's
  mutex is FIFO and a waiter is not overtaken for ever. `OutcomeIsRecorded`
  assumes a client that asks again and again (`PersistentSpec`): an outcome that
  is not there yet is left for "a later call" (sbatch/handle.rs:430-433).
- `TssrunHandle`: who can print a banner does, a child with nothing left to print exits,
  a pipe is closed after that when nobody has anything left to print on it, a task that
  can go on does. A child that is blocked on a full pipe does not exit, and nobody has
  to kill it. No fairness on lines that are not UTF-8, refreshing or attaching.

## 4. What the proofs show

For all values of the constants under the named ASSUMEs:

- `QueryCacheProofs`: `TypeCorrect`, `NoVanishIsFabricated`, `CacheImplementsOracle`,
  `FetchesAreFew`, `BatchesAreCurrent`. The invariant (`IInv`) adds to the type and to
  one call at a time under the lock (`OneInLock`) that only submitted jobs reach a
  request, the registry, a batch or an entry (`Submitted`), and what an entry and a
  fetch in progress know of the world and since when (`EntryTrue`, `FlightTrue`).
  Without these "no row" in an entry would say nothing about a job that was submitted
  later. The refinement maps `waiting` to "inside capture()": `Request`, the answering
  steps, the cancellations and the world's steps map to the oracle's, the others stutter
  (a failing sample is the oracle's `QueryFails`). `FetchesAreFew` counts: by `LoadInv`,
  each fetch that was begun in a window of the TTL has brought a key into the entry that
  was not in it before, and the fetch in progress brings another. `BatchesAreCurrent`
  rests on `RegistryTrue`: where the registry has forgotten a key that `polled` has not,
  `2 * TTL` have passed.
- `WaitPollsProofs`: `WaitsUseTheCache` (each step of the waits is one of the cache or
  leaves it alone) and with it `WaitsKeepTheCachesPromises`: the five results on the
  cache, with the waits on it; `HiccupIsSurvived`, by `StreakInv`: where the poll
  interval is not below the TTL, each failure of a streak is of a command of its own.
- `SbatchHandleProofs`: `TypeCorrect`, `OutcomesAreReal`, `OutcomeIsFinal`.
  `FinishedIsReal` is about every copy of the snapshot, orphaned writes included,
  and needs that every answer a cache replays and the accounting row are states
  the job has reached. `OutcomeIsFinal` assumes one finalizer: with two it is
  false (`two_finalizers`). Its invariant says that only the lock owner holds a
  copy that may be published, and that a copy made under the lock carries the
  outcome the watch channel has. In the second half `WritersAreOne`, from `Inside` (a
  call is between the lock and its release exactly if it holds the lock); `DiskKeepsUp`,
  from `Kept` (until a future is dropped, the disk is what the watch channel shows,
  or the copy of the call that is about to publish); `EndsAreNotInvented`, from
  `Untold` (while the job lives and squeue was never killed, it is listed, no cached
  answer and no copy says otherwise, and nobody has gone on to finalize). The last
  is used backwards: who was told of an end was told by one. `DiskKeepsUp` assumes
  one finalizer, as `OutcomeIsFinal` does.
- `SbatchManagerProofs`: `JobsAreKnown` (a job SLURM has accepted is in a call
  under way, known to a caller, or its call was dropped or died, or has lost its working
  directory); `FilesAreWhole`, from `DiskInv` (a write that is done has its entry on disk, or
  somebody has deleted it): no entry is torn but by a loss of power, because a file is
  filled before it gets its name; `SpawnsAreSaved`, from `Divides` (the handles
  a spawn has made and the tasks it has still to save are, one after the other, the spec
  it was given, also if the spec has a task twice); `AttachIsSure`, from
  `Looking` (what was whole on disk when a scan began is still to be read, has been
  found or warned of, or was deleted); `ManagerTypes`; `ArraysAreFound`, from
  `Looking` at the end of a scan and from the sort by task, which loses and doubles nothing
  (`ByTaskSorts`).
- `TssrunHandleProofs`: `TypeCorrect`, `EndIsTrue`, `JobIsAgreed`, `WaitHasDrained`,
  `WatchOnlyGrows`. `ExitSeen` is what the program counters say (the exit task has
  passed "run" only if the child has ended, and who waits for it has seen
  both tees done); `PipesKeep` follows a banner from its print to the snapshot: it
  is in a pipe or on the watch channel. Without that a drained pipe says nothing
  about the copy.
- `TextProofs` has no theorem but the lemmas of the two modules after it. *Texts*: where
  a definition is recursive and an induction would be needed, the argument looks at the
  smallest or the largest number for which the claim fails (`Smallest`, `Largest`, over
  finite sets of numbers). So sequences are put one after the other (`FlattenGathers`),
  and a text that is the join of parts splits into these parts again (`SplitJoin`, by
  the longest beginning of the list for which it does). *Ends of logs*: an end of a text
  with more than n line feeds has the last n lines of the text (`LinesOfTheEnd`), whether
  or not it begins in the middle of a character - the argument the comment of
  `read_last_lines()` makes - and what has been read is the end of the file as it was
  opened (`ReadKeeps`), which each chunk keeps (`ChunkKeeps`), and growing and cutting
  too (`GrowthKeeps`, `CutKeeps`). *Sinks*: `SinkKeeps` follows each line from the tee
  through the two writes into its file, and counts the failures.
- `OptionProofs`: `HandlesAreTasks`, the expansion of every array spec that the parser
  accepts. The loop over an entry has a closed form (`EveryFrom`, with its number of
  steps `Steps`) that satisfies its recursion (`LoopExists`) and is the only one that
  does (`LoopIsOne`). `PrintedLimitIsRead`, the arithmetic of a time limit. And for each
  option its *form*, the values of any size that Python may build, with two lemmas: what
  is printed of a value of the form is read as that value, or as nothing if it breaks a
  constraint (`SpecIsRead`, `LimitIsRead`, `MailIsRead`, `SignalIsRead`,
  `DependencyIsRead`, `ResourcesAreRead`, and `BuiltIsRead` for lists of job keys); and
  what is read of any text is of the form and keeps the constraints (`SpecIsForm` and so
  on). Which sign separates what is all that matters there: no entry has a comma, no
  clause both separators, no number a colon.
- `QueriesProofs`: over any jobs, stores, logs and lines. `ListsAreOfOneKind`,
  `SavedIsLoaded`, `AttachesToItsOwn`, for any directory whatever is in it;
  `StoresInOneDirectory`, from `StoresInv` (the directory and the map of each kind hold
  the same, uuid by uuid, but for the entries that the other kind's store was told to
  delete). `ListingsAreShared` and `BatchesAreTransparent`, from what a listing in any
  order answers for one key (`AnswerTells`, `QueryTells`). `LogsKeepTheirLines` and
  `TailsAreTrue`, from the lemmas above (`LogInv`). `HandlesAreMade`, from
  `HandlesAreTasks` for what is typed and from the shape of the values that Python
  builds (`ValuesInv`). `QueriesAreCached`, from `BuiltIsRead` and from what separates
  the shapes the caches take: the word in each place (`WordsDiffer`, `TakenShapes`), and
  the number of words. `FormIsRead` and `ReadHasForm` collect the lemmas of the options,
  for values and texts of any size; `OptionsAreKept` applies them to what is typed and
  built (`ValuesHaveForm`), and to configurations, of which each field holds nothing or
  a value of its own (`ConfigInv`).

  - `LogPathsAreResolved`, from `TokensAtOnce`: the code puts the tokens of a template in
    one after the other, the docs say what each stands for, and the two agree for every
    template if `NoTokenArises`, that is if no text that is put in makes a token with what
    is around it. It needs that: the replacement of one token is seen by the next, so that a
    job named `%u` is given the user's name, and an empty text lets a `%` meet the letter
    behind it (section 5). The names that tasks are given here have no such letter.
  - `CommandsSayTheirOptions`, from `SbatchIsSaid` and `TssrunIsSaid`. `getopt_long` takes a
    line word by word, and so does the proof: after the words of some flags, what has been
    read is exactly what these flags say, and what comes next is read as it would be at the
    beginning (`TellsOptions`, `FlagIsTold`). That a value which looks like an option is not
    taken for one rests on its flag, which takes the word behind it whatever it is; that a
    script is none rests on its path, which is absolute; and the value of each option that
    has a form of its own is read back by the lemma of its option. `CanBeTold` is what such
    an object has to be in order to be told apart at all: an array spec or a dependency that
    its own parser accepts.
  - `CommandEndsTold`. What the code reads off sbatch's lines is what they announce, of
    any number of lines (`LinesAreRead`, `JobsAreTold`). A submission comes to one of
    the ends of `SubmissionEnds`: not run, refused, without a jobid, without a working
    directory (`PathIsMissed`), not saved, or done; and for each of them, and for what
    `run()`, `cancel()`, the queries, srun and tssrun make of an end, there is a lemma
    that says what the caller is told (`SubmissionTold`, `RunTold`, `CancelTold`,
    `QueryTold`, `SrunTold`, `InteractiveTold`).
  - `OutcomesAreKept`. The tables of states and of reasons name a token for one thing each
    (`TokenIsParsed`, `ReasonTokensDiffer`), no token has a space or a divider in it
    (`WordIsSolid`), and of words that are put together with spaces, or columns with
    dividers, the parser sees just these (`OneMoreWord`, `SqueueWords`, `ColumnsAre`,
    `QgroupCells`). So `SacctIsRead`, `SqueueIsRead` and `QgroupIsRead` hold of every token of
    every state. The invariant, `OutcomeInv`, is that a listed row is one of those
    (`RowFits`); `StateArrives` and `ReasonArrives` are the way through snapshots and Python.
    An id with a dot in it is a step's and no number (`DotIsNoNumber`), so that skipping
    steps, as sacct's parser does, loses no job.

Only model-checked: what needs fairness (`EveryRequestEnds`, `WaitEnds`,
`OutcomeIsRecorded`), which is outside TLAPS's reach. Every safety property that a run
shows is stated by a theorem. Of `queries` the theorems are about the inputs of
`MCQueries`, with any jobs, listings, logs and numbers where these are constants. But
what `MCQueries` itself bounds is bounded in the theorems as well: a typed text has 5
lexemes (7 for `--rsc`), a template 4, with a fixed set of job names, users and hosts; a
query that is built asks about one or two keys of fixed numbers; sbatch prints up to two
lines of a fixed set. So `QueriesAreCached`, `OptionsAreKept`, `LogPathsAreResolved` and
`CommandEndsTold` say no more than that; what holds of texts, lists and templates of any
size are `FormIsRead`, `ReadHasForm`, `TokensAtOnce` and the lemmas.

## 5. Disagreements found

Each is a run that expects a violation, with the text it contradicts in
`PROJECT.json`:

1. **A single failed squeue can end a wait** (`wait_hiccup`). The cache replays a
   failure for its TTL, and `wait_terminal(poll)` counts every replay. With the
   10 s poll of the docs and the default TTL, one failure is five.
2. **A finalizer can erase another's outcome** (`two_finalizers`).
   `refresh_with_sacct()` decides with the snapshot it had before it took the
   lock again.
3. **An attached tssrun wait may never end** (`tssrun_attached`). A tee's save of an
   older copy may land after the save of the exit, and nothing saves again.
4. **A timed-out `run_with()` may leave a job whose id nobody has** (`run_dropped`).
   `on_spawn` is called after the snapshot is saved and not when sbatch returns.
5. **A task may have several handles** (`docs_task_handles`): one for each entry of the
   array spec that names it, where sbatch/manager.rs:192-193 says one per task. A later
   `attach()` to the task is then ambiguous.

Seen on the way, without a run of their own; the properties above leave these out or state
what the code does, and say so:

*Ends and outcomes*
- A job that was killed has an exit code, 128 and the signal's number, as parse.rs:109-115
  documents. The docs of `exit_code()` (sbatch/handle.rs:94-95, 122-123) say None.
- A terminal row of squeue has no exit code (runner.rs:159-193), and the outcome found
  in it has none either. After a requeue a handle may say finished and running at once.
- A command that a signal killed counts as exit code 0 (dispatcher.rs:209). A killed
  squeue reads as "vanished", so that `run()` may return MissingFinished for a job that
  runs; a killed sbatch leaves a job without an id (`SbatchKilled`), or a handle if it
  had printed; a killed scancel is a successful `cancel()`; a killed srun is a 0 of
  `run_job()`.
- squeue's parser takes the first word of a reason, sacct's the whole column. A sum row
  of qgroup whose third word is a number reads as a job. `JobReason::variant_name`
  is said to match `as_str`, but NodeNotAvail is printed as ReqNodeNotAvail.

*Submission*
- A spawn may lose the jobid after it has parsed it: the script's
  path is made absolute once more before the snapshot is saved (sbatch/manager.rs:161
  and 239), and if the working directory has gone, the error names no job.
- An incomplete CPU specification, `p=4` alone, is accepted, where
  resource_spec.rs:137-138 and 150 want all of p, t, c and m.
- `spawn()` takes a command with an array spec (only `run()` refuses one), and its one
  handle then asks for a job no row of `squeue -r` names.
- Python can build a stepped range with step 0, of which `expand_array_indices` makes a
  loop without end; a resource spec with nothing in it, which prints as the empty
  text, so that a configuration that holds it cannot be read back; and a dependency of
  one clause joined by Or, which reads back as And.
- The docs of `run_with_jobid_callback` (py_export/sbatch.rs:285-287) say that an
  exception of `on_spawn` aborts the run as a RuntimeError; the code lets the run finish
  and raises the original exception then, or drops it if the run itself fails.

*Stores*
- `list()` skips a file that it cannot read, with a warning (store.rs:178-188), so that
  `attach_array_jobid()` may say `Ok(vec![])`, documented as "no array-task snapshots
  stored" (sbatch/manager.rs:339-340), of an array that is on disk. In the same way
  `attach()` by jobid may take the one of two snapshots that it could read.
- `delete()` goes by the uuid and not by the kind (store.rs:206): it removes an entry of the
  other kind, though the kinds are said to coexist in a directory (store.rs:117-119).
- `attach()` by file does not look at the version, and tssrun's not at the kind.
- `attach()` by pid takes any snapshot with that pid, also that of a finished process whose
  pid was used again (tssrun/store.rs:32).
- A snapshot is renamed into place but never synced (store.rs:266-286): after a loss of power
  it may be empty or gone, also one that was saved long before.
- A failing first save of a tssrun job is only warned about.

*Tssrun and logs*
- An owner's `refresh()` may put an older snapshot over a newer one
  (tssrun/handle.rs:306-310); a line that is not UTF-8 ends its tee (:468).
- The docs of `wait_terminal()` (tssrun/handle.rs:320-322) say that it does not refresh
  when the snapshot is terminal already; it refreshes first in any case. From Python it
  waits for a `wait()` that holds the handle's mutex.
- The wait task flushes before the tees have drained: when `wait()` returns, the last
  newline may not have landed. A failed write is reported to the next append, whose
  line is lost, or swallowed by the flush; a failing flush of stdout skips that of stderr.
- `resolve_log_path` substitutes one token after the other: in a job name the tokens that
  come later are substituted too, and `%%j`, which SLURM takes for a literal `%j`, is not
  left alone. A relative template is resolved against the reader's directory, also for
  a job that was given `--chdir`.

## 6. Plan

Done, in this order: the cache and its promise; the sbatch handle; the tssrun
handle; the manager and the directory; waits on the cache; the query functions; the
options, commands, caches' allow-lists, logs, sinks, store files and ends of
commands; the statement of the docs in `MCDocs`; and the proofs above.

To come:

1. **Two handles of one job in one process** (sbatch/manager.rs:294), each with a lock
   of its own over one file: which no property covers. `SbatchHandle` would
   give each caller a handle, and the directory the last say; what the code promises
   then has to be found first.
2. **Compositions**: the handle over `StatusOracle` rather than over an answer that
   expires at any time; `attach()` of `SbatchManager` over the files of `StoreFiles`.

## 7. Not modelled, and why

- **Starting a process, JSON's own syntax, the file system's paths, logging**: the
  operating system's and libraries'; only their failures appear.
- **Getters that copy a field, `__repr__` and `__eq__`, the factories of sinks and stores,
  the common traits but for `attach()`, re-exports, stub generation**: delegation
  and conversion without behaviour of their own.
- **`live_env()`**: reads `/proc` of a pid, which may have been reused since.
- **Time of day**: timestamps in snapshots are for the reader; no decision
  depends on one.
- **The banner parsers of tssrun**: abstracted to the kind of line they accept.
- **What a cancelled job does**: one scancel is `Cancel` of `Processes`; what becomes of
  the job is SLURM's `JobStops`.
- **Jobid reuse by SLURM**: outside the code's control.
