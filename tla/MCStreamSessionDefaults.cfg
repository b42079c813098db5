CONSTANTS
    Programs <- DefaultProportions
    ChunkPoints = 6
    TargetAhead = 5
    MaxHorizon = 30
    StartBuffer = 2
    MaxDelay = 1
SPECIFICATION Spec
INVARIANT StaysAhead
CHECK_DEADLOCK FALSE
