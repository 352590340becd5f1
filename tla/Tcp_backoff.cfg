\* The same source: a thread that nobody has stopped goes on connecting.
CONSTANTS
    Size <- ShortLongShort
    MaxLength = 2
    QueueSize = 1
    PowLimit = 2
    MaxLosses = 3
SPECIFICATION Spec
CHECK_DEADLOCK FALSE
INVARIANTS
    KeepsConnecting
