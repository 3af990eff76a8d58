SPECIFICATION ProfileSpec
CONSTANTS
    Absent = Absent
    MaxId = 2
    Contents = {a, b}
    BatchSize = 2
    MaxVersion = 2
    MaxRuns = 1
    MaxSwitches = 0
PROPERTIES
    CutoverCovered
CHECK_DEADLOCK FALSE
