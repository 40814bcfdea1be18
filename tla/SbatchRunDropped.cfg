SPECIFICATION Spec
CONSTANTS
    Client = {a}
    Arrays <- NoArrays
    MaxJobs = 1
    MaxTroubles = 1
INVARIANTS NothingToCancel
CHECK_DEADLOCK FALSE
