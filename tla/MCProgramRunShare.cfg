CONSTANTS
    Runs = {r1, r2}
    Chunks <- ShareChunks
    RunConfigs <- ShareConfigs
    Poses = {0}
    MaxHorizon = 2
    StartBuffer = 1
    MaxCycle = 1
    NoRun = NoRun
    SignalPaths = {"handler"}
    JointMin = 0
    JointMax = 2
    MaxRelative = 2
    MaxVelocity = 2
    MaxAcceleration = 6
    MinSegment = 1
    MaxChunkPoints = 2
    MaxPoints = 3
    MaxDuration = 2
    StartTolerance = 0
    TrackingLimit = 1
SPECIFICATION Spec
SYMMETRY RunSymmetry
INVARIANTS
    OneRunOnTheBus
    TerminalHasReleased
    CleanExitIsDisabled
