SPECIFICATION PersistentSpec
CONSTANTS
    Caller = {a, b}
    Finalizer = {a}
    Waiter = {b}
    Runner = {}
    Cached = {}
    IsArray = TRUE
    JobEnds = {"COMPLETED", "Unknown"}
    FailureCap = 2
    MaxRequeues = 0
    MaxFaults = 1
    MaxGlitches = 0
    MaxDrops = 0
INVARIANTS FinishedIsReal
PROPERTIES WaitEnds OutcomeIsRecorded
CHECK_DEADLOCK FALSE
