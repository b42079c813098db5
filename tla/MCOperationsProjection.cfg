CONSTANTS
    Workers = {w1, w2}
    Pages = {p1}
    Poller = Poller
    EventCapacity = 2
    MaxChanges = 3
    MaxTrouble = 1
SPECIFICATION Spec
INVARIANTS
    NeverOlder
    NoWakeUpLost
PROPERTIES
    AnswerIsFresh
    StreamInOrder
    PagesCatchUp
