SPECIFICATION FairProfileSpec
CONSTANTS
    Absent = Absent
    MaxId = 3
    Contents = {a, b}
    BatchSize = 2
    MaxVersion = 2
    MaxRuns = 1
    MaxSwitches = 1
INVARIANTS
    SemanticFresh
    RunCovers
PROPERTIES
    EveryRunEnds
CHECK_DEADLOCK FALSE
