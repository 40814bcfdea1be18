SPECIFICATION FairSpec
CONSTANTS
    j1 = j1
    j2 = j2
    n1 = n1
    JobLine = {j1, j2}
    NodeLine = {}
    PipeSize = 1
    MaxTroubles = 1
INVARIANTS TypeOK FinishedIsTrue CopiesAgree WaitDrains
PROPERTIES WatchGrows WaitEnds
CHECK_DEADLOCK FALSE
