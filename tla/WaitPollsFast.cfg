SPECIFICATION WSpec
CONSTANTS
    Caller = {c1}
    Key = {k1}
    Requests <- SingleKeys
    JobOf <- OwnJob
    TTL = 6
    MaxFetch = 0
    Horizon = 6
    Poll = 1
    FailureCap = 5
INVARIANTS
    HiccupSurvived
CHECK_DEADLOCK FALSE
