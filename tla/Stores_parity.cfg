\* Two processes, every shape: each query has one answer.
CONSTANTS
    NBins = 4
    Batch = 2
    MaxEvents = 3
    MaxChanges = 1
    BatchSize = 2
    Uses <- MCUses
    PointNames = {1, 2}
    PointPids = {1, 2}
    ChangedTimes <- MCChanged
    Levels <- MCLevels
SPECIFICATION Spec
INVARIANTS
    IterExact
    StoresAgree
    DerivedExact
CHECK_DEADLOCK FALSE
