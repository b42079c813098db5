CONSTANTS
    Runs = {r1, r2}
    MaxAttempts = 4
    MaxBoots = 3
SPECIFICATION Spec
SYMMETRY RunSymmetry
INVARIANTS
    AcknowledgedIsReplayed
    OneProcessPerRun
CHECK_DEADLOCK FALSE
