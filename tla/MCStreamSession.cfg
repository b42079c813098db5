CONSTANTS
    Programs <- SomePrograms
    ChunkPoints = 2
    TargetAhead = 3
    MaxHorizon = 6
    StartBuffer = 2
    MaxDelay = 1
SPECIFICATION FairSpec
INVARIANTS NoMessageRefused KeepsAhead
PROPERTY SessionEnds
CHECK_DEADLOCK FALSE
