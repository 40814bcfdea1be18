------------------------------- MODULE LogFiles -------------------------------
(***************************************************************************)
(* The log files of a job: where they are (sbatch/parse.rs,                *)
(* resolve_log_path) and how their end is read (sbatch/handle.rs,          *)
(* read_last_lines), while the job goes on writing.                        *)
(***************************************************************************)
EXTENDS Text

CONSTANT Chunk      \* TAIL_READ_CHUNK, in bytes

ASSUME ChunkAssumption == Chunk \in Nat \ {0}

\* The text with every token, a % before one of the lexemes in DOMAIN meaning, gone for
\* what it means: from left to right, so that a % of a text put in starts no token.
TokenAt(t, known, i) == i \in 1..(Len(t) - 1) /\ t[i] = Sign("%") /\ t[i + 1] \in known
Substitute(t, meaning) ==
    LET token(i) == TokenAt(t, DOMAIN meaning, i)
    IN  FlattenSeq([i \in DOMAIN t |-> IF token(i) THEN meaning[t[i + 1]]
                                       ELSE IF token(i - 1) THEN <<>> ELSE <<t[i]>>])

\* str::replace("%c", by)
Replace(t, c, by) == Substitute(t, [x \in {Sign(c)} |-> by])

\* Mutant: without a task, %a is the whole array.
ReplaceAlways(t, c, option) ==
    IF option = {} THEN Replace(t, c, <<>>) ELSE Replace(t, c, CHOOSE v \in option : TRUE)

\* A token whose value is not known is left as it is.
ReplaceIfKnown(t, c, option) ==
    IF option = {} THEN t ELSE Replace(t, c, CHOOSE v \in option : TRUE)

\* resolve_log_path_with(): one token after the other, in this order.
ResolveLogPath(template, jobid, task, name, user, host) ==
    LET jobs == Replace(Replace(template, "A", Dec(jobid)), "j", Dec(jobid))
        own == ReplaceIfKnown(ReplaceIfKnown(jobs, "a", {Dec(i) : i \in task}), "x", name)
    IN  Replace(Replace(own, "u", user), "N", host)

-----------------------------------------------------------------------------
(* A file is a sequence of bytes: line feeds "n", carriage returns "r", other *)
(* characters of one byte, and of two: "hi" then "lo".                        *)

\* from_utf8_lossy(): half a character becomes a mark, "?".
Lossy(bytes) ==
    [i \in DOMAIN bytes |->
        IF \/ bytes[i] = "hi" /\ (i = Len(bytes) \/ bytes[i + 1] # "lo")
           \/ bytes[i] = "lo" /\ (i = 1 \/ bytes[i - 1] # "hi")
        THEN "?" ELSE bytes[i]]

\* str::lines(): a line ends at a line feed, and the last one may lack it; a carriage
\* return before the line feed belongs to neither.
Ends(bytes) == {i \in DOMAIN bytes : bytes[i] = "n" \/ i = Len(bytes)}
LineOf(bytes, from, end) ==
    SubSeq(bytes, from,
           IF bytes[end] # "n" THEN end
           ELSE IF end > from /\ bytes[end - 1] = "r" THEN end - 2 ELSE end - 1)

Lines(bytes) ==
    LET end(k) == IF k = 0 THEN 0 ELSE Nth(Ends(bytes), k)
    IN  [k \in 1..Cardinality(Ends(bytes)) |-> LineOf(bytes, end(k - 1) + 1, end(k))]

LastOf(lines, n) == SubSeq(lines, IF Len(lines) > n THEN Len(lines) - n + 1 ELSE 1, Len(lines))

Feeds(bytes) == Cardinality({i \in DOMAIN bytes : bytes[i] = "n"})

\* Mutant: it stops when it has read n line feeds.
EnoughFeedsExactly(buf, n) == Feeds(buf) >= n

\* The first line in the buffer may be the end of a longer one.
EnoughFeeds(buf, n) == Feeds(buf) > n

\* read_last_lines(), which is at work, done or has failed: what it has read begins
\* behind pos.  Of a file that is not there, a log call makes an empty one.
StartRead(file, n) ==
    LET length == IF n = 0 \/ file = {} THEN 0 ELSE Len(CHOOSE f \in file : TRUE)
    IN  [is |-> IF length = 0 THEN "done" ELSE "reading", pos |-> length, buf |-> <<>>]

\* One turn of the loop: a chunk is read before what was read last.  read_exact() fails
\* where the file has become too short.
ReadChunk(r, file, n) ==
    LET from == IF r.pos > Chunk THEN r.pos - Chunk ELSE 0
        all == SubSeq(file, from + 1, r.pos) \o r.buf
    IN  IF Len(file) < r.pos THEN [r EXCEPT !.is = "failed"]
        ELSE [is |-> IF from = 0 \/ EnoughFeeds(all, n) THEN "done" ELSE "reading",
              pos |-> from, buf |-> all]

\* log_lines() and read_log_to_end(): a job without a log template has no log to read, and
\* the whole log must be in UTF-8.
LogLines(path, r, n) ==
    IF path = {} \/ r.is # "done" THEN {} ELSE {LastOf(Lines(Lossy(r.buf)), n)}
ReadLogToEnd(path, file) ==
    CASE path = {} -> {}
      [] path # {} /\ file = {} -> {<<>>}
      [] path # {} /\ file # {} -> {f \in file : Lossy(f) = f}
=============================================================================
