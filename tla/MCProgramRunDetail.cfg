CONSTANTS
    Runs = {r1}
    Chunks <- DetailChunks
    RunConfigs <- DetailConfigs
    Poses = {0, 1}
    MaxHorizon = 1
    StartBuffer = 1
    MaxCycle = 2
    NoRun = NoRun
    SignalPaths = {"handler", "interrupt"}
    JointMin = 0
    JointMax = 2
    MaxRelative = 2
    MaxVelocity = 2
    MaxAcceleration = 6
    MinSegment = 1
    MaxChunkPoints = 2
    MaxPoints = 3
    MaxDuration = 2
    StartTolerance = 0
    TrackingLimit = 2
SPECIFICATION FairSpec
INVARIANTS
    TargetsWithinLimits
    AtMostOneLateTarget
    TrajectoryValid
    ReceiptsTileTheBuffer
    CompletedPlayedDeclaredProgram
    SealedNeverUnderruns
    LookaheadBounded
PROPERTIES
    BufferAndCursorAdvance
    AbandonedRunEnds
