CONSTANTS
    Calls = {c1, c2}
    CloseCall = CloseCall
    PipeLimit = 1
    EventLimit = 1
    MaxEvents = 2
SPECIFICATION FairSpec
INVARIANTS
    OwnAnswer
    EventsWithoutGap
    ClosedIsDead
PROPERTIES
    NothingAfterTimeout
    WrittenCallReturns
CHECK_DEADLOCK FALSE
