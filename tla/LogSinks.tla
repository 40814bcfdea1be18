------------------------------- MODULE LogSinks -------------------------------
(***************************************************************************)
(* The log of a tssrun child (tssrun/log.rs) between the tees that append  *)
(* its lines and the wait task that flushes them (tssrun/handle.rs): what  *)
(* is in the log when wait() returns, and what a failing write costs.      *)
(*                                                                         *)
(* A sink in use is a record: its kind; the lines that the tees have still *)
(* to read; its two files, each with what is on disk, the piece a blocking *)
(* thread is writing, and whether a failure waits to be reported; what a   *)
(* sink without files was given; where the tees and the wait task are; and *)
(* how many writes have failed.                                            *)
(***************************************************************************)
EXTENDS Naturals, Sequences, FiniteSets

CONSTANTS
    Line,           \* the lines there may be
    SinkLines,      \* what the child prints on each stream
    FilesFound,     \* what may be in a file from before, piece by piece
    MaxFailures     \* how many writes may fail

Streams == {"Stdout", "Stderr"}
Newline == 0

ASSUME SinksAssumption ==
    /\ Newline \notin Line
    /\ SinkLines \in [Streams -> Seq(Line)]
    /\ FilesFound \subseteq Seq(Line \cup {Newline})
    /\ MaxFailures \in Nat

\* FileLogSink::create() appends to what it finds in the files.
Create(kind, found, lines) ==
    [kind |-> kind, pipe |-> lines, given |-> <<>>,
     file |-> [s \in Streams |-> [disk |-> found, busy |-> <<>>, failed |-> FALSE]],
     tee |-> [s \in Streams |-> "read"], waiter |-> "child", failures |-> 0]

-----------------------------------------------------------------------------
(* tokio::fs::File: a write is taken over by a blocking thread.  The next     *)
(* operation waits for it, and is the one that reports its failure.           *)

Ready(f) == f.busy = <<>>
Written(f, piece) ==
    IF f.failed THEN [f EXCEPT !.failed = FALSE] ELSE [f EXCEPT !.busy = <<piece>>]
Landed(f) == [f EXCEPT !.disk = @ \o f.busy, !.busy = <<>>]
Lost(f) == [f EXCEPT !.busy = <<>>, !.failed = TRUE]

Land(k, s) ==
    IF Ready(k.file[s]) THEN {} ELSE {[k EXCEPT !.file[s] = Landed(@)]}
LandFails(k, s) ==
    IF Ready(k.file[s]) THEN {}
    ELSE {[k EXCEPT !.file[s] = Lost(@), !.failures = @ + 1]}

-----------------------------------------------------------------------------
(* The tees and the wait task. *)

\* Mutant: both streams go to the file of stdout.
FileOfStdout(s) == "Stdout"

FileOf(s) == s

\* append() holds the lock of its file from the text to the newline.
Unlocked(k, s) == \A r \in Streams : k.tee[r] = "newline" => r = s \/ FileOf(r) # FileOf(s)

\* The text of the next line; on a failure that is only reported now, append() ends and
\* the line is not written.
AppendText(k, s) ==
    LET f == k.file[FileOf(s)]
    IN  IF k.kind = "file" /\ k.tee[s] = "read" /\ k.pipe[s] # <<>> /\ Unlocked(k, s) /\ Ready(f)
        THEN {[k EXCEPT !.pipe[s] = Tail(@), !.file[FileOf(s)] = Written(@, Head(k.pipe[s])),
                        !.tee[s] = IF f.failed THEN "read" ELSE "newline"]}
        ELSE {}

\* Its newline, or the end of append() with the failure of the text.
AppendNewline(k, s) ==
    IF k.tee[s] = "newline" /\ Ready(k.file[FileOf(s)])
    THEN {[k EXCEPT !.file[FileOf(s)] = Written(@, Newline), !.tee[s] = "read"]}
    ELSE {}

\* The sinks without files: a buffer, the streams of this process, or nothing.
AppendAtOnce(k, s) ==
    IF k.kind # "file" /\ k.tee[s] = "read" /\ k.pipe[s] # <<>>
    THEN {[k EXCEPT !.pipe[s] = Tail(@),
                    !.given = IF k.kind = "null" THEN @
                              ELSE Append(@, [stream |-> s, line |-> Head(k.pipe[s])])]}
    ELSE {}

TeeEnds(k, s) ==
    IF k.tee[s] = "read" /\ k.pipe[s] = <<>> THEN {[k EXCEPT !.tee[s] = "done"]} ELSE {}

\* The wait task flushes when the child has ended, whatever the tees have still to read;
\* it flushes stderr only if stdout reports no failure, and tells nobody of one.
Flush(k) ==
    LET s == k.waiter
        f == k.file[s]
        next == CASE k.kind # "file" -> "done"
                  [] k.kind = "file" /\ s = "Stdout" -> IF f.failed THEN "done" ELSE "Stderr"
                  [] k.kind = "file" /\ s = "Stderr" -> "done"
    IN  IF s \in Streams /\ (\A r \in Streams : k.tee[r] = "newline" => FileOf(r) # s) /\ Ready(f)
        THEN {[k EXCEPT !.waiter = next, !.file[s].failed = FALSE]}
        ELSE {}
ChildEnds(k) == IF k.waiter = "child" THEN {[k EXCEPT !.waiter = "Stdout"]} ELSE {}

\* wait() has joined the tees and the wait task.
Returned(k) == k.waiter = "done" /\ \A s \in Streams : k.tee[s] = "done"

SinkNext(k) ==
    ChildEnds(k) \cup Flush(k)
        \cup UNION {AppendText(k, s) \cup AppendNewline(k, s) \cup AppendAtOnce(k, s) \cup TeeEnds(k, s)
                        \cup Land(k, s) \cup LandFails(k, s) : s \in Streams}
=============================================================================
