CONSTANTS
    Runs = {r1, r2}
    MaxAttempts = 4
    MaxBoots = 3
SPECIFICATION Spec
INVARIANTS
    EvidenceCanBeReplayed
CHECK_DEADLOCK FALSE
