SPECIFICATION Spec
CONSTANTS
    MaxU32 = 100000
    MaxU64 = 200000
    Names = {"R", "USR1"}
    Cwd = "work"
    Chunk = 2
    Uuids = {1, 2, 3}
    Line = {1, 2, 3, 11, 99}
    SinkLines <- FewLines
    FilesFound <- NothingOrLine
    MaxFailures = 2
    LogsFound <- FewLogs
    LogPieces <- FewPieces
    MaxLines = 2
    Ids <- FewIds
    SqueueShows <- AnyQueue
    SacctShows <- AnyFile
    Orders <- BothWays
INVARIANTS
    SharedListingsAreTrue
    BatchIsTransparent
    OutcomeIsKept
    OptionsSurvive
    HandlesMatchTasks
    QueriesReachTheirCache
    CommandSaysItsOptions
    CommandEndsAreTold
    StoresKeepApart
    LogPathIsResolved
    TailIsTrue
    LogKeepsItsLines
CHECK_DEADLOCK FALSE
