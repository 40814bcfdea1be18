-------------------------------- MODULE Status --------------------------------
(***************************************************************************)
(* The lines of squeue, sacct and qgroup, word by word, and the pair of    *)
(* state and reason that is read off them (runner.rs,                      *)
(* entities/slurm/status.rs), written to snapshots and handed to Python    *)
(* (py_export/manager.rs, py_export/runner.rs, py_export/sbatch.rs).       *)
(***************************************************************************)
EXTENDS Queries, Text

\* JobReason, but for None and Other.
KnownReason == {
    "Priority", "Dependency", "DependencyNeverSatisfied", "Resources", "Reservation",
    "ResvDeleted", "BeginTime", "Licenses", "NodeNotAvail", "JobHeldUser", "JobHeldAdmin",
    "BadConstraints", "Cleaning", "Prolog", "JobArrayTaskLimit", "BurstBufferResources",
    "BurstBufferStageIn", "NodeReboot", "MaxRequeueExceeded", "PlannedReservation",
    "FedJobLock", "OutOfMemory", "Preemption", "WaitingForScheduling", "AdminHold",
    "PartitionDown", "PartitionInactive", "PartitionNodeLimit", "PartitionTimeLimit",
    "PartitionConfig", "FrontEndDown", "FrontEndUserDown", "DownNodes", "SystemFailure",
    "JobLaunchFailure", "NonZeroExitCode", "RaisedSignal", "TimeLimit", "InactiveLimit",
    "Deadline", "InvalidAccount", "InvalidQOS", "AccountNotAllowed", "QOSNotAllowed",
    "QOSUsageThreshold", "QOSJobLimit", "QOSResourceLimit", "QOSTimeLimit", "QOSGrpCpuLimit",
    "QOSGrpCpuMinutesLimit", "QOSGrpCpuRunMinutesLimit", "QOSGrpJobsLimit",
    "QOSGrpMemoryLimit", "QOSGrpNodeLimit", "QOSGrpSubmitJobsLimit", "QOSGrpWallLimit",
    "QOSMaxCpuMinutesPerJobLimit", "QOSMaxCpuPerJobLimit", "QOSMaxCpuPerNodeLimit",
    "QOSMaxCpuPerUserLimit", "QOSMaxJobsPerAccountLimit", "QOSMaxJobsPerUserLimit",
    "QOSMaxNodePerJobLimit", "QOSMaxNodePerUserLimit", "QOSMaxSubmitJobPerAccountLimit",
    "QOSMaxSubmitJobPerUserLimit", "QOSMaxWallDurationPerJobLimit", "QOSMinCpuNotSatisfied",
    "AssociationJobLimit", "AssociationResourceLimit", "AssociationTimeLimit",
    "AssocGrpCpuLimit", "AssocGrpCpuMinutesLimit", "AssocGrpCpuRunMinutesLimit",
    "AssocGrpJobsLimit", "AssocGrpMemoryLimit", "AssocGrpNodeLimit", "AssocGrpSubmitJobsLimit",
    "AssocGrpWallLimit", "AssocMaxJobsLimit", "AssocMaxCpuPerJobLimit",
    "AssocMaxCpuMinutesPerJobLimit", "AssocMaxNodePerJobLimit",
    "AssocMaxWallDurationPerJobLimit", "AssocMaxSubmitJobLimit", "BlockMaxError",
    "BlockFreeAction"}

\* The word SLURM has for a reason.
ReasonToken(r) == IF r = "NodeNotAvail" THEN "ReqNodeNotAvail" ELSE r

NoReason == [name |-> "None", text |-> <<>>]
Known(r) == [name |-> r, text |-> <<>>]
Other(t) == [name |-> "Other", text |-> t]

\* str::trim(); some words without those that are w; and str::split_whitespace().
Trim(t) ==
    LET solid == {i \in DOMAIN t : t[i] # Sign(" ")}
    IN  IF solid = {} THEN <<>> ELSE SubSeq(t, Min(solid), Max(solid))
Without(words, w) == FlattenSeq([i \in DOMAIN words |-> IF words[i] = w THEN <<>> ELSE <<words[i]>>])
Words(t) == Without(Split(t, " "), <<>>)

\* JobReason::parse() and as_str().
ParseReason(t) ==
    LET word == Trim(t)
    IN  IF word \in {<<>>, Lit("None")} THEN NoReason
        ELSE IF Len(word) = 1 /\ \E r \in KnownReason : ReasonToken(r) = word[1].is
        THEN Known(CHOOSE r \in KnownReason : ReasonToken(r) = word[1].is)
        ELSE Other(word)
ReasonText(reason) ==
    CASE reason.name = "None" -> Lit("None")
      [] reason.name = "Other" -> reason.text
      [] reason.name \in KnownReason -> Lit(ReasonToken(reason.name))

\* Mutant: what follows the state ("CANCELLED by 1234") is not cut off.
ParseStateWhole(t) == IF Len(t) = 1 THEN Parse(t[1].is) ELSE "Unknown"

\* JobState::parse(): the first word counts.
ParseState(t) == LET ws == Words(t) IN IF ws = <<>> THEN "Unknown" ELSE Parse(Head(ws)[1].is)

JobStatus(state, reason) == [state |-> state, reason |-> reason]
ParseStatus(state, reason) == JobStatus(ParseState(state), ParseReason(reason))

-----------------------------------------------------------------------------
(* Lines.  An Option, as in Text, is a set of at most one value.              *)

\* parse_squeue: the job, and words two and three.
SqueueLine(t) ==
    LET ws == Words(t)
    IN  IF Len(ws) < 2 THEN {}
        ELSE {[job |-> j, status |-> ParseStatus(ws[2], IF Len(ws) > 2 THEN ws[3] ELSE <<>>)] : j \in U64(ws[1])}

\* splitn(n, '|')
Columns(t, n) ==
    LET parts == Split(t, "|")
    IN  IF Len(parts) <= n THEN parts
        ELSE Append(SubSeq(parts, 1, n - 1), Join(SubSeq(parts, n, Len(parts)), "|"))

\* parse_sacct, and the exit code of parse_sacct_with_exit_code: a step is skipped.
SacctLine(t, n) ==
    LET cs == Columns(t, n)
    IN  IF Len(cs) < 2 \/ Sign(".") \in ToSet(cs[1]) THEN {}
        ELSE {[job |-> j, status |-> ParseStatus(cs[2], IF Len(cs) > 2 THEN cs[3] ELSE <<>>)] : j \in U64(cs[1])}

\* <exit>:<signal>, of numbers: sacct prints none below 0, nor a signal to which the
\* code's i32 could not add 128.
ExitField(t) ==
    LET parts == SplitOnce(t, ":")
    IN  IF Len(parts) = 1 THEN {}
        ELSE ExitCode({[exit |-> e, signal |-> s] : e \in U32(parts[1]), s \in U32(parts[2])})
SacctExit(t) == LET cs == Columns(t, 4) IN IF Len(cs) < 4 THEN {} ELSE ExitField(cs[4])

\* parse_qgroup_l: the dividers of columns are passed over, and a job 0 is a count in a
\* line that sums up.
QgroupLine(t) ==
    LET ws == Without(Words(t), Lit("|"))
    IN  IF Len(ws) < 4 THEN {}
        ELSE {[job |-> j, status |-> JobStatus(ParseState(ws[4]), NoReason)] : j \in U64(ws[3]) \ {0}}

\* The row of one task, whose first column is the text of its key.
SqueueTaskLine(t, key) ==
    LET ws == Words(t)
    IN  IF Len(ws) < 2 \/ Head(ws) # key THEN {}
        ELSE {ParseStatus(ws[2], IF Len(ws) > 2 THEN ws[3] ELSE <<>>)}
SacctTaskLine(t, key) ==
    LET cs == Columns(t, 4)
    IN  IF Len(cs) < 2 \/ Head(cs) # key THEN {}
        ELSE {ParseStatus(cs[2], IF Len(cs) > 2 THEN cs[3] ELSE <<>>)}

-----------------------------------------------------------------------------
(* Where a status goes. *)

\* To a snapshot and back: state and reason are strings there.
SavedState(state) == ParseState(Lit(AsToken[state]))
SavedReason(reason) == ParseReason(ReasonText(reason))

\* To Python, by JobStatus.parse(as_token, as_str), or as two strings of FinishedInfo.
PyStatus(status) == ParseStatus(Lit(AsToken[status.state]), ReasonText(status.reason))
PyFinished(status) == <<Lit(AsToken[status.state]), ReasonText(status.reason)>>

\* What Python can build: JobStatus(state, reason) of a state and of the reasons that have
\* a constructor of their own, of parse(), and of other(), which takes any text.
PyNamedReason == {"Priority", "Resources", "Dependency", "BeginTime", "TimeLimit", "OutOfMemory",
                  "NonZeroExitCode", "JobHeldUser", "JobHeldAdmin"}
PyReason(how, t) ==
    CASE how = "none" -> NoReason
      [] how = "parse" -> ParseReason(t)
      [] how = "other" -> Other(t)
      [] how \in PyNamedReason -> Known(how)
\* JobState of Python has the same names, and each stands for the state of its name.
PyState == [s \in JobState |-> s]
InnerState == [s \in JobState |-> s]
PyBuilt(state, reason) == JobStatus(InnerState[state], reason)
\* JobReason.name
PyReasonName(reason) == reason.name
=============================================================================
