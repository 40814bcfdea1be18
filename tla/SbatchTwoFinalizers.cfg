SPECIFICATION Spec
CONSTANTS
    Caller = {a, b}
    Finalizer = {a, b}
    Waiter = {}
    Runner = {}
    Cached = {}
    IsArray = FALSE
    JobEnds = {"COMPLETED"}
    FailureCap = 2
    MaxRequeues = 0
    MaxFaults = 0
    MaxGlitches = 0
    MaxDrops = 0
PROPERTIES FinishedIsNotErased
CHECK_DEADLOCK FALSE
