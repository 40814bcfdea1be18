----------------------------- MODULE MCQueries -----------------------------
(* The functions that only look at their arguments, on many small ones: what  *)
(* the query functions make of every state of SLURM, what the parsers make of *)
(* what a user may type or Python may build, what a command line says, and    *)
(* what the end of a log file is.                                             *)
EXTENDS Queries, Status, Commands, QueryText, LogFiles, LogSinks, StoreFiles, Processes

CONSTANTS
    Ids,            \* the jobs and the tasks of arrays that SLURM has
    SqueueShows,    \* what squeue may show: the token of each of them, or None
    SacctShows,     \* what sacct may show: the token, or None, and exit code of each
    LogsFound,      \* what may be in a log that is read
    LogPieces,      \* what may be appended to it
    MaxLines,       \* how many of its lines may be asked for
    Orders          \* the orders rows may be printed in: the place of each first column

VARIABLE input      \* what is looked at: input.part says which of these it is

None == "none"

-----------------------------------------------------------------------------
(* States of SLURM: what squeue and sacct show, in which order, and which of   *)
(* the commands fails.                                                         *)

Step(id) == [id EXCEPT !.kind = "step"]
Sum(j) == [kind |-> "aggregate", job |-> j, task |-> NoTask]
Plain == {id.job : id \in {i \in Ids : i.kind = "job"}}
Arrays == {id.job : id \in {i \in Ids : i.kind = "task"}}
ListedIds == Ids \cup {Step(id) : id \in Ids} \cup {Sum(j) : j \in Arrays}

ASSUME ListingsAssumption ==
    /\ Ids \subseteq [kind : {"job"}, job : Nat, task : {NoTask}]
                      \cup [kind : {"task"}, job : Nat, task : Nat]
    /\ IsFiniteSet(Ids)
    /\ \A o \in Orders : /\ o \in [ListedIds -> Nat]
                         /\ \A x, y \in ListedIds : o[x] = o[y] => x = y
    /\ \A f \in SacctShows : \A id \in Ids : f[id].exit \in Nat /\ f[id].signal \in Nat

SlurmStates ==
    [part : {"slurm"}, queued : SqueueShows, filed : SacctShows, order : Orders,
     failing : {{}, {"squeue"}, {"sacct"}}]

queued == input.queued
filed == input.filed
order == input.order
failing == input.failing

\* In the instance: two plain jobs and an array of two tasks.  Each is in the queue, where
\* it waits, by the long form or the short one, or runs, or is not; and each is on file or
\* not.  Rows come in ascending order or in descending order.
FewIds == Jobs({1, 3}) \cup {Key(2, 0), Key(2, 1)}
QueueToken(id) == CASE id.job = 1 -> "RUNNING" [] id.job = 3 -> "PD" [] OTHER -> "PENDING"
AnyQueue == {[id \in Ids |-> IF id \in live THEN QueueToken(id) ELSE None] : live \in SUBSET Ids}
AnyFile == [Ids -> {[token |-> None, exit |-> 0, signal |-> 0],
                    [token |-> "COMPLETED", exit |-> 0, signal |-> 0],
                    [token |-> "FAILED", exit |-> 0, signal |-> 9]}]
Rank(id) == 10 * id.job + 2 * id.task + (IF id.kind = "step" THEN 0 ELSE 1)
BothWays == {[id \in ListedIds |-> Rank(id)], [id \in ListedIds |-> 99 - Rank(id)]}

\* The batch step of a filed job, and the row sacct prints for the tasks of an array
\* that are still pending.
QueueRow(id) == [id |-> id, token |-> queued[id], field |-> {}]
FileRow(id) == [id |-> id, token |-> filed[id].token,
                field |-> {[exit |-> filed[id].exit, signal |-> filed[id].signal]}]
StepRow(id) == [FileRow(id) EXCEPT !.id = Step(id)]
Aggregate(j) == [id |-> Sum(j), token |-> "PENDING", field |-> {[exit |-> 0, signal |-> 0]}]

InQueue == {QueueRow(id) : id \in {i \in Ids : queued[i] # None}}
OnFile == LET known == {i \in Ids : filed[i].token # None}
          IN  {FileRow(i) : i \in known} \cup {StepRow(i) : i \in known}
                  \cup {Aggregate(j) : j \in Arrays}

Before(S, r) == {s \in S : order[s.id] < order[r.id]}
InOrder(S) == [i \in 1..Cardinality(S) |-> CHOOSE r \in S : Cardinality(Before(S, r)) = i - 1]

Squeue(keys) ==
    LET rows == InOrder(Printed(InQueue, keys))
    IN  [status |-> IF "squeue" \in failing THEN "failed"
                    ELSE IF rows = <<>> THEN "vanished" ELSE "ok", rows |-> rows]
Sacct(keys) ==
    [status |-> IF "sacct" \in failing THEN "failed" ELSE "ok",
     rows |-> InOrder(Printed(OnFile, keys))]

Query(wanted) ==
    LET queue == Squeue(Jobs(wanted))
    IN  QueryBatch(wanted, queue, Sacct(Jobs(Missing(wanted, queue))))

-----------------------------------------------------------------------------
(* Rows of listings: every state by each of its tokens, with a few reasons,   *)
(* and every reason, with a few states; of jobs, tasks, steps and sums.       *)

RowIds == {Dec(5), Dec(0), Dec(5) \o Lit("_") \o Dec(2), Dec(5) \o Lit(".") \o Lit("batch"),
           Dec(5) \o Lit("_") \o Lit("[") \o Dec(1) \o Lit("]")}
Exits == {[text |-> Dec(1) \o Lit(":") \o Dec(0), code |-> {1}], [text |-> <<>>, code |-> {}],
          [text |-> Dec(0) \o Lit(":") \o Dec(9), code |-> {137}]}

\* A state and the ways to print it; `CANCELLED by 1234' is sacct's alone.
PrintedStates ==
    {[is |-> s, text |-> Lit(token)] : s \in JobState, token \in (UNION {Tokens[t] : t \in DOMAIN Tokens}) \cup {"NEW"}}
\* A reason and the ways to print it.
PrintedReasons ==
    {[is |-> Known(r), text |-> Lit(ReasonToken(r))] : r \in KnownReason}
        \cup {[is |-> NoReason, text |-> t] : t \in {<<>>, Lit("None"), Lit(" ")}}
        \cup {[is |-> Other(t), text |-> t] : t \in {Lit("New"), Lit("New") \o Lit(" ") \o Lit("nodes")}}

ShownStates ==
    {s \in PrintedStates : \/ s.is = "Unknown" /\ s.text = Lit("NEW")
                           \/ s.is # "Unknown" /\ s.text[1].is \in Tokens[s.is]}
RowsOf(ids, ss, rs, exits) ==
    {[part |-> "listed", id |-> i, state |-> s.is, token |-> s.text, by |-> by,
      reason |-> r.is, words |-> r.text, exit |-> e] :
        i \in ids, s \in ss, by \in BOOLEAN, r \in rs, e \in exits}
ListedRows ==
    LET few == {s \in ShownStates : s.text \in {Lit("PD"), Lit("NEW")}}
        unusual == {r \in PrintedReasons : r.text = <<>> \/ r.is.name = "Other"}
    IN  RowsOf({Dec(5)}, ShownStates, unusual, {CHOOSE e \in Exits : TRUE})
            \cup RowsOf(RowIds, few, unusual, Exits) \cup RowsOf({Dec(5)}, few, PrintedReasons, Exits)

-----------------------------------------------------------------------------
(* Texts: what a user may type, lexeme by lexeme.  A lexeme that is a number  *)
(* or a word is not followed by another.                                      *)

Vocabulary == {"R", "USR1", "usr1", "after", "afterok", "singleton", "p", "g", "m", "G", "BEGIN", "ALL"}
Lexemes(kind) ==
    LET signs(S) == {Sign(c) : c \in S}
        numbers(S) == {Number(n) : n \in S}
    IN  CASE kind = "array" -> signs({",", "-", ":", "%"}) \cup numbers({0, 2, 3, MaxU32})
          [] kind = "time" -> signs({"-", ":", "+"}) \cup numbers({0, 1, 90, MaxU32 + 1})
          [] kind = "dependency" -> signs({":", ",", "?", "+", "after", "afterok", "singleton"}) \cup numbers({7})
          [] kind = "resources" -> signs({"p", "g", "m", "G", "=", ":"}) \cup numbers({0, 4})
          [] kind = "signal" -> signs({"R", "USR1", "usr1", ":", "@"}) \cup numbers({0, 9, 65})
          [] kind = "mail" -> signs({"BEGIN", "ALL", "usr1", ","})
          [] kind = "keys" -> signs({"_", ",", "+", "["}) \cup numbers({5, MaxU32 + 1, MaxU64 + 1})
          [] kind = "template" -> signs({"%", "j", "A", "a", "x", "u", "N", "/"})
Kinds == {"array", "time", "dependency", "resources", "signal", "mail", "keys", "template"}
MaxTyped == 5
Separate(x, y) == IF x.is = "number" THEN y.is # "number" ELSE ~({x.is, y.is} \subseteq Vocabulary \cup {"number"})

\* Seven lexemes hold two keys of a resource specification with their values.
Typed ==
    {[part |-> "text", kind |-> k, text |-> <<>>,
      left |-> CASE k = "template" -> 4 [] k = "resources" -> 7 [] OTHER -> MaxTyped] : k \in Kinds}

Type ==
    /\ input.part = "text"
    /\ input.left > 0
    /\ \E x \in Lexemes(input.kind) :
          /\ input.text # <<>> => Separate(Last(input.text), x)
          /\ input' = [input EXCEPT !.text = Append(@, x), !.left = @ - 1]

-----------------------------------------------------------------------------
(* Values: what Python may build, valid or not, and values that are valid.    *)

Few == {0, 2, 3}

ArrayValues ==
    LET entries == PythonEntries(Few) \cup {Stepped(MaxU32 - 2, MaxU32, 2)}
        lists == {<<e>> : e \in entries} \cup {<<e, f>> : e, f \in {g \in entries : g.step < 3}}
    IN  {PyArraySpec(is, cap) : is \in lists \cup {<<>>}, cap \in {{}, {0}, {4}}}
TimeValues == {1, 59, 60, 3599, 3600, 86399, 86400, 90061, MaxU32}
ASSUME ValuesAssumption ==
    Few \subseteq 0..MaxU32 /\ TimeValues \subseteq 1..MaxU32 /\ {"R", "USR1"} \subseteq Names

DependencyValues ==
    LET refs == {JobRef(7, {}), JobRef(0, {0}), JobRef(8, {5})}
        clauses == PyClauses({<<>>} \cup {<<r>> : r \in refs} \cup {<<q, r>> : q, r \in refs})
        few == {c \in clauses : Len(c.job_refs) < 2 /\ c.dep_type \in {"after", "afterok", "singleton"}}
    IN  {PyDependency(cs, j) : cs \in {<<>>} \cup {<<c>> : c \in clauses} \cup {<<b, c>> : b, c \in few},
                               j \in {"And", "Or"}}
ResourceParts ==
    {[k \in DOMAIN NoResources |->
        CASE k = "p" -> p [] k = "t" -> t [] k = "c" -> t [] k = "m" -> m [] k = "g" -> g] :
        p \in {{}, {0}, {4}}, t \in {{}, {8}},
        m \in {{}} \cup {PyMemory(n, u) : n \in {0, 8}, u \in MemoryUnit}, g \in {{}, {0}, {1}}}
SignalValues ==
    [allow_resignal : BOOLEAN, signal : {Lit("USR1"), Lit("R"), Dec(9)}, seconds_before_end : {{}, {60}}]
MailValues == UNION {PyMailTypes(t) : t \in BoundedSeq(MailType, 2)}
KeyValues ==
    LET keys == {PlainKey(5), PlainKey(MaxU64), ArrayTask(6, 0), ArrayTask(5, MaxU32)}
    IN  {<<k>> : k \in keys} \cup {<<k, l>> : k, l \in keys}

Values(kind) ==
    CASE kind = "array" -> ArrayValues
      [] kind = "time" -> TimeValues
      [] kind = "dependency" -> DependencyValues
      [] kind = "resources" -> UNION {PyResourceSpec(p) : p \in ResourceParts}
      [] kind = "signal" -> SignalValues
      [] kind = "mail" -> MailValues
      [] kind = "keys" -> KeyValues
      [] kind = "template" -> {}

\* What Python sets the fields of a configuration to, which starts with a partition.
FieldValues(f) ==
    CASE f = "partition" -> {"gr1"}
      [] f = "time_limit" -> {90061}
      [] f = "array_spec" -> {[indices |-> <<Stepped(0, 7, 2)>>, max_concurrent |-> {2}]}
      [] f = "dependency" ->
            {PyDependency(<<[dep_type |-> "afterok", job_refs |-> <<JobRef(7, {})>>]>>, "And")}
      [] f = "resource_spec" -> UNION {PyResourceSpec(p) : p \in {q \in ResourceParts : q["t"] = {} /\ q["m"] = {}}}
      [] f = "mail_types" -> {<<"END", "FAIL">>}
      [] f = "nice" -> {3}
      [] f = "comment" -> {"text"}
      [] f = "job_name" -> {"name"}
Configure ==
    /\ input.part = "config"
    /\ \E f \in DOMAIN input.config :
          \/ input' = [input EXCEPT !.config = PySet(@, f, {})]
          \/ \E v \in FieldValues(f) : input' = [input EXCEPT !.config = PySet(@, f, {v})]

-----------------------------------------------------------------------------
(* Commands with up to two options, or all of them.                           *)

UsrSignal == [allow_resignal |-> TRUE, signal |-> Lit("USR1"), seconds_before_end |-> {60}]
Options ==
    [job_name |-> <<Lit("job")>>, partition |-> <<Lit("gr1")>>, time_limit |-> <<90061>>,
     rsc |-> <<NoResources, [NoResources EXCEPT !["p"] = {2}, !["m"] = {Memory(4, "G")}]>>,
     output |-> <<Lit("%j.out")>>, error |-> <<Lit("-e")>>,
     chdir |-> <<Lit("/") \o Lit("home"), Lit("runs"), <<>> >>,
     array_spec |-> <<[indices |-> <<Stepped(0, 7, 2), Single(9)>>, max_concurrent |-> {2}]>>,
     dependency |-> <<PyDependency(<<[dep_type |-> "after", job_refs |-> <<JobRef(7, {5})>>],
                                     [dep_type |-> "singleton", job_refs |-> <<>>]>>, "Or")>>,
     mail_user |-> <<Lit("me")>>, mail_types |-> <<<<"END", "FAIL">>>>,
     signal |-> <<UsrSignal>>,
     comment |-> <<Lit("-J"), Lit("--nice") \o Lit("=") \o Dec(1)>>, nice |-> <<-3, 3>>]
Environments ==
    LET var(n, v) == [name |-> n, value |-> v]
    IN  {<<>>, <<var(Lit("A"), Lit("1x")), var(Lit("B"), <<>>)>>,
         <<var(Lit("A"), Lit("x") \o Lit(",") \o Lit("B") \o Lit("=") \o Lit("y"))>>,
         <<var(Lit("A") \o Lit("=") \o Lit("B"), Lit("x"))>>}

\* Every way to give the options S, and no others, a value.
Settings(S) ==
    {[o \in DOMAIN Options |-> IF o \in S THEN {Options[o][pick[o]]} ELSE {}] :
        pick \in {f \in [S -> 1..3] : \A o \in S : f[o] <= Len(Options[o])}}
SettingsInUse ==
    UNION {Settings(S) : S \in {{}, DOMAIN Options} \cup {{o, p} : o, p \in DOMAIN Options}}

\* A script whose name looks like an option, and one without a name.
Programs == {Lit("run"), Lit("--x11"), <<>>}
Arguments == {<<>>, <<Lit("-J"), Lit("x")>>}

WithOptions(o, e, b, s, a) ==
    [f \in DOMAIN o \cup {"env", "no_requeue", "script", "args"} |->
        CASE f = "env" -> e [] f = "no_requeue" -> b [] f = "script" -> s [] f = "args" -> a
          [] f \in DOMAIN o -> o[f]]
SbatchCommands ==
    {[part |-> "sbatch",
      cmd |-> WithOptions(o, e, b, s, IF b THEN <<Lit("-J"), Lit("x")>> ELSE <<>>)] :
        o \in SettingsInUse, e \in Environments, b \in BOOLEAN, s \in {Lit("run"), <<>>}}
TssrunCommands ==
    {[part |-> "tssrun",
      cmd |-> [partition |-> p, time_limit |-> t, rsc |-> r, x11 |-> x, program |-> s, args |-> a]] :
        p \in {{}, {Lit("gr1")}}, t \in {{}, {60}}, r \in {{}} \cup {{Options.rsc[i]} : i \in {1, 2}},
        x \in BOOLEAN, s \in Programs, a \in Arguments}

-----------------------------------------------------------------------------
(* Commands that ended: what sbatch, or another command, printed, and how     *)
(* many of the snapshots could be saved.                                      *)

SubmitLines ==
    {Lit("warning"), Lit(" ") \o <<Submitted>> \o Dec(5), <<Submitted>> \o Dec(6) \o Lit("_") \o Dec(0),
     <<Submitted>> \o Dec(MaxU64 + 1), <<Submitted>> \o Lit("x")}
ErrorLines == {<<>>, <<<<>>, Lit(" ")>>, <<Lit("sbatch: error")>>, <<Lit("slurm:") \o <<InvalidId>>>>}

PlainCmd == WithOptions([o \in DOMAIN Options |-> {}], <<>>, FALSE, Lit("run"), <<>>)
SubmittedCommands ==
    {[PlainCmd EXCEPT !.output = {Lit("%") \o Lit("a") \o Lit(".out")}],
     [PlainCmd EXCEPT !.array_spec = {Options.array_spec[1]}, !.output = {Lit("%") \o Lit("j")}, !.error = {Lit("err")}],
     [PlainCmd EXCEPT !.script = <<>>]}
TaskSpec == [indices |-> <<Interval(0, 1)>>, max_concurrent |-> {}]

CommandEnds ==
    {[part |-> "process", cmd |-> c, saves |-> k,
      process |-> [end |-> e, code |-> IF e = "exit" THEN n ELSE 0, stdout |-> out, stderr |-> err,
                  gone |-> g]] :
        c \in SubmittedCommands, k \in 0..2, e \in {"exit", "signal", "missing"}, n \in {0, 1},
        out \in BoundedSeq(SubmitLines, 2), err \in ErrorLines, g \in BOOLEAN}

-----------------------------------------------------------------------------
(* Log files that a job writes, or somebody cuts, while their end is read.    *)

Characters == {<<"n">>, <<"r">>, <<"a">>, <<"hi", "lo">>}
FewLogs == {FlattenSeq(cs) : cs \in BoundedSeq(Characters, 4)}
FewPieces == {<<"n">>, <<"a", "n">>, <<"hi", "lo">>}

Byte == UNION {ToSet(c) : c \in Characters}

ASSUME LogsAssumption ==
    LogsFound \subseteq Seq(Byte) /\ LogPieces \subseteq Seq(Byte) /\ MaxLines \in Nat

\* A call for the last n lines of a log: what it was when it was opened, what it is, and
\* whether it was cut since, and written to where it was cut.
LogRead(f, n) ==
    [part |-> "log", n |-> n, opened |-> f, file |-> f, reader |-> StartRead({f}, n),
     cut |-> FALSE, over |-> FALSE]
LogReads == {LogRead(f, n) : f \in LogsFound, n \in 0..MaxLines}

BeingRead == input.part = "log" /\ input.reader.is = "reading"
LogIsRead ==
    BeingRead /\ input' = [input EXCEPT !.reader = ReadChunk(@, input.file, input.n)]
LogGrows ==
    /\ BeingRead /\ Len(input.file) <= Len(input.opened)
    /\ \E g \in LogPieces :
          input' = [input EXCEPT !.file = @ \o g,
                                 !.over = @ \/ Len(input.file) < Len(input.opened)]
LogIsCut ==
    /\ BeingRead /\ ~input.cut
    /\ \E k \in 0..(Len(input.file) - 1) :
          input' = [input EXCEPT !.file = SubSeq(@, 1, k), !.cut = TRUE]

-----------------------------------------------------------------------------
(* Log sinks in use: a few lines on each stream, in files that were there     *)
(* before or not, of which MaxFailures writes fail.                           *)

FewLines == [Stdout |-> <<1, 2, 3>>, Stderr |-> <<11>>]
NothingOrLine == {<<>>, <<99, Newline>>}

Sinks ==
    {[part |-> "sink", found |-> found, sink |-> Create(kind, found, SinkLines)] :
        kind \in {"file", "memory", "std", "null"}, found \in FilesFound}

SinkSteps ==
    /\ input.part = "sink"
    /\ \E k \in SinkNext(input.sink) :
          k.failures <= MaxFailures /\ input' = [input EXCEPT !.sink = k]

-----------------------------------------------------------------------------
(* A directory of snapshots that a store of each kind uses, with files in it  *)
(* from before: of this build or an older, a newer or a broken one.           *)

Stores == {"sbatch", "tssrun"}

\* The odd uuids are those of sbatch jobs.
Snapshots(uuid) ==
    IF uuid % 2 = 1 THEN {SbatchSnapshot(uuid, 1, rest) : rest \in 0..1}
    ELSE {TssrunSnapshot(uuid, jobid, 7) : jobid \in {{}, {1}}}

FilesBefore(uuid) ==
    {[whole |-> w, kind |-> k, version |-> v, body |-> b] :
        w \in BOOLEAN, k \in {{}, {"sbatch"}, {"tssrun"}}, v \in {{}, {1}, {2}, {-1}}, b \in Snapshots(uuid)}

\* A file names the kind of its body, or, if an older build wrote it, none.
FilesThatMayBe(uuid) ==
    {f \in FilesBefore(uuid) : f.kind \in {{}, {f.body.kind}} /\ (~f.whole => f.version = {} /\ f.kind = {})}
Readable(f) == f.whole /\ f.version \in {{}, {1}}

\* Next to each store, one in memory that gets the same calls, and knows the readable
\* files from before; `first' holds the files from before that are as they were, and
\* `taken' the uuids whose entry the store of the other kind was told to delete.
StoresBefore ==
    {[part |-> "store", disk |-> d, first |-> d, taken |-> {},
      mem |-> [k \in Stores |->
                  [u \in Uuids |-> {f.body : f \in {g \in d[u] : Readable(g) /\ g.body.kind = k}}]]] :
        d \in {e \in [Uuids -> UNION {{{}} \cup {{f} : f \in FilesThatMayBe(u)} : u \in Uuids}] :
                  \A u \in Uuids : \A f \in e[u] : f.body.uuid = u}}

StoreSaves ==
    /\ input.part = "store"
    /\ \E u \in Uuids : \E snap \in Snapshots(u) :
          input' = [input EXCEPT !.disk = Save(@, snap), !.first[u] = {}, !.taken = @ \ {u},
                                 !.mem[snap.kind] = MemSave(@, snap)]
StoreDeletes ==
    /\ input.part = "store"
    /\ \E k \in Stores : \E u \in Uuids :
          input' = [input EXCEPT !.disk = Delete(@, u), !.first[u] = {},
                                 !.taken = IF \E l \in Stores \ {k} : input.mem[l][u] # {}
                                           THEN @ \cup {u} ELSE @,
                                 !.mem[k] = MemDelete(@, u)]

-----------------------------------------------------------------------------

Init ==
    \/ input \in SlurmStates
    \/ input \in ListedRows
    \/ input \in StoresBefore
    \/ input \in Sinks
    \/ input \in CommandEnds
    \/ input \in Typed
    \/ \E k \in Kinds : \E v \in Values(k) : input = [part |-> "value", kind |-> k, value |-> v]
    \/ input = [part |-> "config", config |-> PyConfig("gr1", [nice |-> {3}])]
    \/ input \in SbatchCommands
    \/ input \in TssrunCommands
    \/ input \in LogReads

Next ==
    \/ Type \/ Configure \/ StoreSaves \/ StoreDeletes \/ SinkSteps
    \/ LogIsRead \/ LogGrows \/ LogIsCut

Spec == Init /\ [][Next]_input

-----------------------------------------------------------------------------

\* The row-parsers' contract with the cache (runner.rs:556-563): from a listing that
\* was made for many handles each takes what its own query would have given it, and
\* that is the row of its own job or task.
SharedListingsAreTrue == input.part = "slurm" =>
    \A id \in Ids : \A others \in SUBSET (Ids \ {id}) :
        /\ "squeue" \notin failing =>
              Answer(Rows(Squeue({AskedOfSqueue(k) : k \in others \cup {id}})), id)
                 = {Outcome(r) : r \in {s \in InQueue : s.id = id}}
        /\ "sacct" \notin failing =>
              Answer(Rows(Sacct({AskedOfSacct(k) : k \in others \cup {id}})), id)
                 = {Outcome(r) : r \in {s \in OnFile : s.id = id}}

\* A bulk query gives each job what a query for it alone gives, the live row first;
\* a failing command makes it fail rather than guess.
BatchIsTransparent == input.part = "slurm" =>
    \A wanted \in SUBSET Plain :
        LET answer == Query(wanted) IN
        /\ \A result \in answer : \A j \in wanted :
              /\ Query({j}) = {[i \in {j} |-> result[j]]}
              /\ queued[Key(j, NoTask)] # None =>
                    result[j] = Outcome(QueueRow(Key(j, NoTask)))
              /\ StateOf({j}, {result}) = {result[j]}
        /\ answer = {} => failing # {}

\* What the parsers read of a row, when it is about the job `id' or its task: the state and
\* reason that were printed.  squeue's columns are words, so that only the first word of a
\* reason is read there; the context of a state has a word of its own in sacct's column.
RowIsRead ==
    LET id == input.id
        state == input.token \o (IF input.by THEN Lit(" ") \o Lit("by") \o Lit(" ") \o Dec(12) ELSE <<>>)
        listed == JobStatus(input.state, input.reason)
        job == U64(id)
        sacct == Join(<<id, state, input.words, input.exit.text>>, "|")
        squeue == Join(<<id, input.token, input.words>>, " ")
        qgroup(divider) == <<Sign(" "), Sign("gr1"), Sign(" "), Sign("user"), Sign(" ")>> \o id
                               \o divider \o input.token \o Lit(" ") \o Lit("date")
    IN  /\ SacctLine(sacct, 4) = {[job |-> j, status |-> listed] : j \in job}
        /\ SacctLine(Join(<<id, state, input.words>>, "|"), 3) = {[job |-> j, status |-> listed] : j \in job}
        /\ SacctExit(sacct) = input.exit.code
        /\ SacctTaskLine(sacct, id) = {listed}
        /\ Len(Words(input.words)) < 2 =>
              /\ SqueueLine(squeue) = {[job |-> j, status |-> listed] : j \in job}
              /\ SqueueTaskLine(squeue, id) = {listed}
        /\ \A divider \in {Lit(" "), Lit(" ") \o Lit("|") \o Lit(" ")} :
              QgroupLine(qgroup(divider)) =
                  {[job |-> j, status |-> JobStatus(input.state, NoReason)] : j \in job \ {0}}
        /\ SacctTaskLine(sacct, Dec(7)) = {} /\ SqueueTaskLine(squeue, Dec(7)) = {}

\* What is kept of a job is what became of it: a job that was killed by a signal never
\* reads as one that ended well: it has 128 and the signal's number for its exit code, as
\* parse.rs:109-115 says (exit_code() of the handle is said to have none then); and the state
\* and reason that a command printed, in whatever form, are what the snapshot holds after it
\* was written and read, and what Python is given.
OutcomeIsKept ==
    /\ input.part = "slurm" =>
          \A row \in OnFile :
              Outcome(row).exit = {0} <=> \E f \in row.field : f.exit = 0 /\ f.signal = 0
    /\ input.part = "listed" =>
          LET status == JobStatus(input.state, input.reason)
              named == PyReason("parse", input.words)
          IN  /\ RowIsRead
              /\ JobStatus(SavedState(status.state), SavedReason(status.reason)) = status
              /\ PyStatus(status) = status /\ PyBuilt(PyState[status.state], named) = status
              /\ ParseStatus(PyFinished(status)[1], PyFinished(status)[2]) = status
              /\ named = input.reason /\ PyReasonName(named) = input.reason.name
              /\ \A how \in PyNamedReason \cup {"none"} :
                    PyReason(how, <<>>) = named <=> PyReasonName(named) = IF how = "none" THEN "None" ELSE how
              /\ SavedReason(PyReason("other", input.words)) = named

-----------------------------------------------------------------------------
(* The values of the options. *)

ParseOf(kind, t) ==
    CASE kind = "array" -> ParseArraySpec(t)
      [] kind = "time" -> ParseTimeLimit(t)
      [] kind = "dependency" -> ParseDependency(t)
      [] kind = "resources" -> ParseResourceSpec(t)
      [] kind = "signal" -> ParseSignalSpec(t)
      [] kind = "mail" -> ParseMailTypes(t)
      [] kind = "keys" -> ParseCsv(t)
      [] kind = "template" -> {}
TextOf(kind, v) ==
    CASE kind = "array" -> ArrayText(v)
      [] kind = "time" -> TimeText(v)
      [] kind = "dependency" -> DependencyText(v)
      [] kind = "resources" -> ResourceText(v)
      [] kind = "signal" -> SignalText(v)
      [] kind = "mail" -> MailTypesText(v)
      [] kind = "keys" -> BuildCsv(v)

\* The constraints that the parsers enforce, and that a value built by Python may break.
\* They are those of the docs, except that the docs want all four keys in a CPU
\* specification of --rsc (resource_spec.rs:137-138, 150).
Valid(kind, v) ==
    CASE kind = "array" ->
            /\ v.indices # <<>> /\ v.max_concurrent # {0}
            /\ \A e \in ToSet(v.indices) : e.start <= e.end /\ e.step > 0
      [] kind = "dependency" ->
            /\ v.clauses # <<>>
            /\ \A c \in ToSet(v.clauses) :
                  /\ c.dep_type = "singleton" <=> c.job_refs = <<>>
                  /\ \A r \in ToSet(c.job_refs) : r.delay_minutes # {} => c.dep_type = "after"
      [] kind = "resources" -> v # NoResources
      [] OTHER -> TRUE

\* What is read back is what was printed, with one exception: nothing joins a single
\* clause, so that a dependency of one clause reads back as joined by And, whatever it was
\* built with.
Canonical(kind, v) ==
    IF kind = "dependency" /\ Len(v.clauses) = 1 THEN [v EXCEPT !.join = "And"] ELSE v

\* What comes of building a value anew from what Python reads off it, in each way.
PyRebuilt(kind, v) ==
    IF kind = "array"
    THEN LET again(e) == LET w == PyEntryView(e)
                         IN  CASE w.kind = "single" -> {Single(i) : i \in w.value}
                               [] w.kind = "range" -> {Interval(a, b) : a \in w.start, b \in w.end}
                               [] w.kind = "stepped" ->
                                     {Stepped(a, b, s) : a \in w.start, b \in w.end, s \in w.step}
         IN  {[indices : Collect([i \in DOMAIN v.indices |-> again(v.indices[i])]),
               max_concurrent : {v.max_concurrent}]}
    ELSE {PyResourceSpec(v), FromParts(v),
          {OfCpu(c) : c \in PyCpuSpec(v)} \cup {OfGpu(g) : g \in UNION {PyGpu(n) : n \in PyGpuSpec(v)}}}
         \cup {{OfCpu(cpu) : cpu \in PyCpu(p, t, c, m)} :
                  p \in v["p"], t \in v["t"], c \in v["c"], m \in v["m"]}

\* A value that is printed is read back in its canonical form, which is itself but for the
\* join of a single clause, or, if it breaks the constraints of the parser, as nothing, but
\* never as any other value: so with snapshots and configurations that are
\* stored, and with what sbatch is told.
OptionsSurvive ==
    /\ input.part = "value" =>
          ParseOf(input.kind, TextOf(input.kind, input.value)) =
              IF Valid(input.kind, input.value) THEN {Canonical(input.kind, input.value)} ELSE {}
    /\ (input.part = "value" /\ input.kind = "time") =>
          /\ PyTimeLimit(input.value) = {input.value}
          /\ FromTimeDelta(ToTimeDelta(input.value) + 999) = {input.value}
    /\ (input.part = "value" /\ input.kind \in {"array", "resources"}) =>
          PyRebuilt(input.kind, input.value) = {{input.value}}
    /\ input.part = "text" =>
          \A v \in ParseOf(input.kind, input.text) :
              Valid(input.kind, v) /\ ParseOf(input.kind, TextOf(input.kind, v)) = {v}
    /\ input.part = "config" =>
          ConfigFromJson(ConfigToJson(input.config)) =
              IF input.config.resource_spec = {NoResources} THEN {} ELSE {input.config}

\* The array specifications that the input holds, up to ranges of MaxSpread tasks.
MaxSpread == 10
Specs ==
    {v \in (CASE input.part = "text" -> IF input.kind = "array" THEN ParseArraySpec(input.text) ELSE {}
               [] input.part = "value" -> IF input.kind = "array" THEN {input.value} ELSE {}
               [] input.part \notin {"text", "value"} -> {}) :
        \A e \in ToSet(v.indices) : e.step > 0 /\ e.end <= e.start + MaxSpread}

\* spawn_array() makes a handle for every task that SLURM starts, and for no other, and none
\* at all only for what the parser rejects.  A task has one handle as long as no two entries
\* overlap, and otherwise it has several (see OneHandlePerTask of MCDocs).
HandlesMatchTasks ==
    \A spec \in Specs :
        LET made == ExpandArrayIndices(spec)
            entries == spec.indices
        IN  /\ ToSet(made) = UNION {TasksOf(entries[i]) : i \in DOMAIN entries}
            /\ IsInjective(made) <=>
                  \A i, j \in DOMAIN entries :
                      i < j => TasksOf(entries[i]) \cap TasksOf(entries[j]) = {}
            /\ made = <<>> => ~Valid("array", spec)

-----------------------------------------------------------------------------
(* Command lines. *)

\* Command lines that differ from argv in one word, or lack one.
Neighbours(argv) ==
    {[argv EXCEPT ![i] = w] : i \in DOMAIN argv \ {5}, w \in {<<>>, Lit("-l"), Lit("-n")}}
        \cup {RemoveAt(argv, i) : i \in DOMAIN argv} \cup {Append(argv, Lit("-a"))}

\* A query about jobs and tasks, and only that, is taken by the cache for its command,
\* which asks SLURM about the same jobs and tasks in its place.  A list that is not made
\* of jobs and tasks goes past the caches as a whole.
QueriesReachTheirCache ==
    (input.part = "text" /\ input.kind = "keys") =>
        LET csv == input.text
            names == Split(csv, ",")
            squeue == SqueueQuery(csv)
            sacct == SacctQuery(csv)
        IN  /\ TakenBy(SacctStateQuery(csv)) = {} /\ TakenBy(QgroupQuery) = {"qgroup"}
            /\ SqueueParse(squeue) = SacctParse(sacct)
            /\ \A keys \in SqueueParse(squeue) :
                  /\ TakenBy(squeue) = {"squeue"} /\ TakenBy(sacct) = {"sacct"}
                  /\ Len(keys) = Len(names)
                  /\ \A i \in DOMAIN keys : ParseKey(names[i]) = {keys[i]}
                  /\ SqueueParse(RunInstead("squeue", keys)) = {keys}
                  /\ SacctParse(RunInstead("sacct", keys)) = {keys}
            /\ \A near \in Neighbours(squeue) \cup Neighbours(sacct) \cup Neighbours(QgroupQuery) :
                  TakenBy(near) # {} => near \in {squeue, sacct, QgroupQuery}

\* What sbatch makes of the command line of a command object is what the object says.
SbatchSays(cmd) ==
    LET argvs == SbatchArgv(cmd)
        texts == {"-J", "-p", "-o", "-e", "--mail-user", "--comment"}
    IN  /\ argvs = {} <=> \/ cmd.script = <<>> \/ cmd.chdir = {<<>>}
                          \/ \E v \in ToSet(cmd.env) :
                                (ToSet(v.name) \cup ToSet(v.value)) \cap {Sign(","), Sign("=")} # {}
        /\ PySbatchCmd([cmd EXCEPT !.time_limit = TimeWords(@), !.rsc = {ResourceText(r) : r \in @}]) =
               {cmd} \ {c \in {cmd} : c.rsc = {NoResources}}
        /\ \A argv \in argvs :
              LET line == ReadArgv(argv)
                  read(f) == ValueOf(line, f)
              IN  /\ [f \in texts |-> read(f)] =
                         [f \in texts |->
                             CASE f = "-J" -> cmd.job_name [] f = "-p" -> cmd.partition
                               [] f = "-o" -> cmd.output [] f = "-e" -> cmd.error
                               [] f = "--mail-user" -> cmd.mail_user [] f = "--comment" -> cmd.comment]
                  /\ UNION {ParseTimeLimit(t) : t \in read("-t")} = cmd.time_limit
                  /\ {ParseResourceSpec(t) : t \in read("--rsc")} = {{r} : r \in cmd.rsc \ {NoResources}}
                  /\ UNION {ParseArraySpec(t) : t \in read("-a")} = cmd.array_spec
                  /\ UNION {ParseDependency(t) : t \in read("-d")} = cmd.dependency
                  /\ UNION {ParseMailTypes(t) : t \in read("--mail-type")} = cmd.mail_types
                  /\ UNION {ParseSignalSpec(t) : t \in read("--signal")} = cmd.signal
                  /\ read("--nice") = {SignedText(n) : n \in cmd.nice}
                  /\ read("--no-requeue") # {} <=> cmd.no_requeue
                  /\ {ExportedIn(t) : t \in read("--export")} = {cmd.env} \ {<<>>}
                  /\ Head(line.rest) \in Absolutize(cmd.script)
                  /\ \A p \in cmd.chdir : read("--chdir") = Absolutize(p)
                  /\ Tail(line.rest) = cmd.args /\ line.open = {}

\* The same of tssrun.
TssrunSays(cmd) ==
    /\ TssrunArgv(cmd) = {} <=> cmd.program = <<>>
    /\ \A argv \in TssrunArgv(cmd) :
          LET line == ReadArgv(argv) IN
          /\ ValueOf(line, "-p") = cmd.partition
          /\ UNION {ParseTimeLimit(t) : t \in ValueOf(line, "-t")} = cmd.time_limit
          /\ {ParseResourceSpec(t) : t \in ValueOf(line, "--rsc")} = {{r} : r \in cmd.rsc \ {NoResources}}
          /\ ValueOf(line, "--x11") # {} <=> cmd.x11
          /\ Head(line.rest) \in Absolutize(cmd.program)
          /\ Tail(line.rest) = cmd.args /\ line.open = {}

\* What sbatch and tssrun make of their command line is what the command object says:
\* no value is taken for an option, no option for a value, nothing is lost; and every
\* value with a form of its own is read as it was written.  Variables that the list of
\* sbatch cannot hold, and paths that cannot be made absolute, are refused.
CommandSaysItsOptions ==
    /\ input.part = "sbatch" => SbatchSays(input.cmd)
    /\ input.part = "tssrun" => TssrunSays(input.cmd)

-----------------------------------------------------------------------------
(* Ends of commands. *)

\* The jobs that sbatch says it has submitted.
Announced(stdout) ==
    {n \in {5, 6} : \E i \in DOMAIN stdout : \E k \in 1..(Len(stdout[i]) - 1) :
                      stdout[i][k] = Submitted /\ stdout[i][k + 1] = Number(n)}
\* What a message holds.
Mentions(message, n) == \E i \in DOMAIN message : Number(n) \in ToSet(message[i])
Shows(message, lines) == \A i \in DOMAIN lines : lines[i] \in ToSet(message)

\* How the waiting and the last query of run() may go.
Later ==
    [wait : {"ok", "error"}, sacct : {"ok", "error"},
     finished : {{}, {[state |-> "Completed", exit |-> {0}]}, {[state |-> "Failed", exit |-> {1}]},
                 {[state |-> "Unknown", exit |-> {}]}}]

\* sbatch has submitted the job and said so, and then the working directory is missed.
Stranded(p) == p.gone /\ p.code = 0

\* A submission, of `needed' snapshots, that came to r.
SubmissionIsTold(p, ran, saves, needed, r) ==
    LET announced == Announced(p.stdout)
        well == ran /\ p.code = 0
        said == PySpawn(r)
    IN  /\ r.is = "Ok" <=> well /\ announced # {} /\ ~p.gone /\ saves >= needed
        /\ said.returned = IF r.is = "Ok" THEN {r.handles} ELSE {}
        /\ r.is = "Ok" => Len(r.handles) = needed
        /\ \A i \in DOMAIN r.handles : r.handles[i].jobid \in announced \cap r.jobid
        /\ ran /\ announced # {} /\ ~Stranded(p) =>
              \E n \in announced : n \in r.jobid \/ Mentions(said.message, n)
        /\ ran /\ ~well => /\ r.code = {p.code} /\ Shows(r.output, p.stdout)
                           /\ \A line \in ToSet(p.stderr) : Trim(line) # <<>> => line \in ToSet(said.message)

\* A run(), of a plain job or not, that began with `spawned' and came to r.
RunIsTold(announced, plain, spawned, later, r) ==
    /\ r.called = IF plain /\ spawned.is = "Ok" THEN spawned.jobid ELSE {}
    /\ r.is = "Ok" <=> /\ r.called # {} /\ later.wait = "ok" /\ later.sacct = "ok"
                       /\ \E f \in later.finished : f.state = "Completed"
    /\ \A raises \in BOOLEAN :
          LET said == PyRun(r, raises) IN
          /\ said.returned # {} <=> r.is = "Ok" /\ ~raises
          /\ announced # {} /\ plain /\ r.called = {} =>
                \E n \in announced : Mentions(said.message, n)

\* A cancel() that came to r.
CancelIsTold(p, r) ==
    /\ PyCancel(r).raised = {} <=> p.end # "missing" /\ p.code = 0
    /\ r.is = "Scancel" => Shows(r.output, p.stdout)

\* A query that ended so.
QueryIsTold(p) ==
    \A tool \in {"squeue", "sacct"} : \A out \in Capture(<<Lit(tool)>>, p) :
        LET status == QueryStatus(tool, out) IN
        /\ status = "ok" <=> p.code = 0
        /\ status = "vanished" => tool = "squeue" /\ Shows(out.stderr, <<Lit("slurm:") \o <<InvalidId>>>>)

\* Whoever starts a command is told how it ended.  A job that sbatch says it has submitted
\* is in a handle or named in the error, in Rust and in Python, also if sbatch fails
\* afterwards or the snapshot is not saved - but not if the working directory, which the
\* (relative) path of the script is relative to, is gone after sbatch (manager.rs:161, 239).
\* There is no handle of a job that was not announced, run() calls back for exactly the jobs
\* it has a handle of and is only content with a job that COMPLETED, and what a failing
\* command printed is passed on, never read as an answer.
CommandEndsAreTold == input.part = "process" =>
    LET p == input.process
        cmd == input.cmd
        ran == p.end # "missing" /\ cmd.script # <<>>
        srun(dry) == RunJob(Lit("srun"), cmd.script, dry, p)
        interactive == [partition |-> {}, time_limit |-> {}, rsc |-> {}, x11 |-> FALSE,
                        program |-> cmd.script, args |-> <<>>]
    IN  /\ \A spawned \in {Spawn(cmd, p, input.saves)} :
              /\ SubmissionIsTold(p, ran, input.saves, 1, spawned)
              /\ \A later \in Later :
                    RunIsTold(IF ran /\ ~Stranded(p) THEN Announced(p.stdout) ELSE {}, cmd.array_spec = {},
                              spawned, later, RunWith(cmd, spawned, later))
        /\ SubmissionIsTold(p, ran, input.saves, 2, SpawnArray(cmd, TaskSpec, p, input.saves))
        /\ CancelIsTold(p, Cancel(5, p))
        /\ QueryIsTold(p)
        /\ PyTssrunSpawn(TssrunSpawn(interactive, p)).raised = {} <=> ran
        /\ srun(FALSE) = IF ran THEN {p.code} ELSE {}
        /\ srun(TRUE) = IF cmd.script = <<>> THEN {} ELSE {0}

-----------------------------------------------------------------------------
(* Stores. *)

\* What is left of a map when the entries that the other store deletes are gone.
Left(map, taken) == [u \in DOMAIN map |-> IF u \in taken THEN {} ELSE map[u]]

\* Stores of both kinds in one directory save, load, list and look up as if each had a map
\* of its own, in which the readable files of older builds are entries: no store sees an
\* entry of the other, and none is disturbed by one, or by a file that nobody can read,
\* which only a load of it by name reports.  What a manager attaches to is of its kind, and
\* what was asked for.  Only delete() reaches across: an entry that one store is told to
\* delete goes whatever its kind (store.rs:206).
StoresKeepApart ==
    input.part = "store" =>
        LET disk == input.disk IN
        \A k \in Stores :
            LET map == Left(input.mem[k], input.taken) IN
            /\ List(disk, k) = MemList(map)
            /\ \A u \in Uuids :
                  /\ Load(disk, k, u).found = MemLoad(map, u)
                  /\ Load(disk, k, u).is = "error" =>
                        \E f \in input.first[u] : ~Readable(f) \/ (f.kind = {} /\ f.body.kind # k)
            /\ \A key \in [by : {"uuid", "file"}, value : Uuids] \cup [by : {"jobid"}, value : 1..2]
                            \cup (IF k = "tssrun" THEN [by : {"pid"}, value : 6..7] ELSE {}) :
                  LET meant == {s \in MemList(map) :
                                   CASE key.by \in {"uuid", "file"} -> s.uuid = key.value
                                     [] key.by = "jobid" -> key.value \in s.jobid
                                     [] key.by = "pid" -> key.value \in s.pid}
                      results == Attach(disk, k, key)
                  IN  /\ \A r \in results : r.of \subseteq meant \/ key.by = "file"
                      /\ \A r \in results : \A s \in r.of : s.kind = k
                      /\ meant # {} =>
                            \A r \in results : r.of # {} \/ (r.is = "multiple" /\ Cardinality(meant) > 1)

-----------------------------------------------------------------------------
(* Logs. *)

\* What the tokens of a template that are known stand for.
Meaning(jobid, task, name, user, host) ==
    LET known == {"A", "j", "u", "N"} \cup (IF task = {} THEN {} ELSE {"a"})
                                     \cup (IF name = {} THEN {} ELSE {"x"})
    IN  [c \in {Sign(w) : w \in known} |->
            CASE c.is \in {"A", "j"} -> Dec(jobid)
              [] c.is = "a" -> Dec(CHOOSE i \in task : TRUE)
              [] c.is = "x" -> CHOOSE t \in name : TRUE
              [] c.is = "u" -> user
              [] c.is = "N" -> host]

\* The log of a job is sought where its template says, with the tokens that are known
\* put in and the others left alone, whatever the order in which the code puts them in.
\* (So long as the name of the job makes no token with what is around it: of a job
\* called "%u" the name is put in, and then the user for that.)  The tasks of an array have
\* logs of their own if the template tells them apart.
LogPathIsResolved ==
    /\ input.part = "process" =>
        LET tasks == SpawnArray(input.cmd, TaskSpec, input.process, input.saves).handles
            logs == [i \in DOMAIN tasks |-> LogPath(tasks[i], 0)]
        IN  /\ IsInjective(logs) \/ \A t \in input.cmd.output : Sign("a") \notin ToSet(t)
            /\ \A i \in DOMAIN tasks : Cardinality(logs[i]) = 1 /\ LogPath(tasks[i], 1) = input.cmd.error
            /\ \A i \in DOMAIN tasks : LogPath(tasks[i], 2) = {}
    /\ (input.part = "text" /\ input.kind = "template") =>
        \A task \in {{}, {4}}, name \in {{}, {Lit("job")}} :
            ResolveLogPath(input.text, 12, task, name, Lit("j"), Lit("a")) =
                Substitute(input.text, Meaning(12, task, name, Lit("j"), Lit("a")))

\* The end of a log is what its last lines were when the file was opened, also when the
\* job goes on writing, and whatever is in the file; no call fails unless the file was cut,
\* and if it was, the answer is that same one, or an error, until it is written to again.
TailIsTrue ==
    input.part = "log" =>
        LET answer == LogLines({"log"}, input.reader, input.n)
        IN  /\ ~input.over => answer \subseteq {LastOf(Lines(Lossy(input.opened)), input.n)}
            /\ input.reader.is = "failed" => input.cut
            /\ ReadLogToEnd({"log"}, {input.opened}) \subseteq {Lossy(input.opened)}

\* The first n pieces of a file that holds these lines: a line and its newline take turns.
Pieces(lines, n) == [i \in 1..n |-> IF i % 2 = 1 THEN lines[(i + 1) \div 2] ELSE Newline]

\* A log keeps the lines of its streams, each in its file, in their order, behind what was
\* there before.  While no write fails, every line that a tee has read is in it, and when
\* wait() returns only the last newline may be under way; a failure, which nobody but the
\* next write learns of, costs no more than one line.
LogKeepsItsLines == input.part = "sink" =>
    LET k == input.sink IN
    \A s \in Streams :
        LET lines == SinkLines[s]
            read == Len(lines) - Len(k.pipe[s])
            given == {i \in DOMAIN k.given : k.given[i].stream = s}
            f == k.file[s]
            all == f.disk \o f.busy
            texts == {i \in (Len(input.found) + 1)..Len(all) : all[i] # Newline}
            pieces == Pieces(lines, 2 * read - (IF k.tee[s] = "newline" THEN 1 ELSE 0))
        IN  /\ k.kind \in {"memory", "std"} =>
                  /\ Cardinality(given) = read
                  /\ \A i \in given : k.given[i].line = lines[Cardinality({j \in given : j <= i})]
            /\ k.kind = "file" =>
                  /\ IsPrefix(input.found, f.disk)
                  /\ \E kept \in [texts -> 1..read] :
                        /\ \A i \in texts : all[i] = lines[kept[i]]
                        /\ \A i, j \in texts : i < j => kept[i] < kept[j]
                  /\ read - Cardinality(texts) <= k.failures
                  /\ k.failures = 0 => all = input.found \o pieces
                  /\ k.failures = 0 /\ Returned(k) =>
                        read = Len(lines) /\ f.busy \in {<<>>, <<Newline>>}
=============================================================================
