\* Four messages, one of them too long; a queue of one; three lost connections.
CONSTANTS
    Size <- ShortLongShort
    MaxLength = 2
    QueueSize = 1
    PowLimit = 2
    MaxLosses = 3
SPECIFICATION Spec
CHECK_DEADLOCK FALSE
INVARIANTS
    TypeOK
    NothingInvented
    EveryMessageIsAccountedFor
PROPERTIES
    StopEndsIt
