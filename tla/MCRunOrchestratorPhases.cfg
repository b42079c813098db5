CONSTANTS
    r1 = r1
    r2 = r2
    w1 = w1
    w2 = w2
    zone1 = zone1
    zone2 = zone2
    Runs = {r1, r2}
    NoRun = NoRun
    NoGrant = NoGrant
    Workers = {w1, w2}
    Targets = {zone1, zone2}
    Phases <- TwoPhases
    Need <- TwoDomains
    EventLimit = 4
    CancelAwaits <- AnyAwait
SPECIFICATION FairSpec
INVARIANTS
    TypeOK
    JournalTellsOneRun
    PhaseBarrier
    CompletedMeansPlayed
    SafeIdle
    PlansUndisturbed
PROPERTIES
    EveryRunEnds
