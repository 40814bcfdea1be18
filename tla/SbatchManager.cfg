SPECIFICATION Spec
CONSTANTS
    Client = {a, b}
    Arrays <- Overlapping
    MaxJobs = 1
    MaxTroubles = 2
INVARIANTS TypeOK NoJobIsStranded SpawnedIsSaved ArrayIsFound AttachIsUnambiguous EntriesAreWhole
SYMMETRY Symmetry
CHECK_DEADLOCK FALSE
