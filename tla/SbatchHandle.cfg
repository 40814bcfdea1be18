SPECIFICATION Spec
CONSTANTS
    Caller = {a, b}
    Finalizer = {a}
    Waiter = {}
    Runner = {a}
    Cached = {"squeue"}
    IsArray = FALSE
    JobEnds = {"COMPLETED", "NODE_FAIL"}
    FailureCap = 2
    MaxRequeues = 1
    MaxFaults = 1
    MaxGlitches = 1
    MaxDrops = 1
INVARIANTS TypeOK FinishedIsReal NoFalseEnd StoreKeepsUp OneWriter
PROPERTIES FinishedIsFinal
CHECK_DEADLOCK FALSE
CONSTRAINT OneMishap
