SPECIFICATION WSpec
CONSTANTS
    Caller = {c1, c2}
    Key = {k1, k2}
    Requests <- SingleKeys
    JobOf <- OwnJob
    TTL = 1
    MaxFetch = 1
    Horizon = 2
    Poll = 1
    FailureCap = 2
INVARIANTS
    HiccupSurvived
    BatchIsCurrent
PROPERTIES
    EveryRequestEnds
CHECK_DEADLOCK FALSE
