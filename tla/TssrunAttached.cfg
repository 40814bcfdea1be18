SPECIFICATION FairSpec
CONSTANTS
    j1 = j1
    j2 = j2
    n1 = n1
    JobLine = {j1}
    NodeLine = {n1}
    PipeSize = 1
    MaxTroubles = 0
PROPERTIES AttachedWaitEnds
CHECK_DEADLOCK FALSE
