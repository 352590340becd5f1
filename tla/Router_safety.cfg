\* Two sources, a queue of one, two stops or crashes, overwritten files.
CONSTANTS
    s1 = s1  s2 = s2  f1 = f1  f2 = f2  h1 = h1  h2 = h2  w1 = w1  w2 = w2
    Sources <- TwoSources
    Files <- TwoFiles
    SourceOf <- OneEach
    Hashes <- TwoHashes
    Absent = Absent
    Workers <- TwoWorkers
    NoItem = NoItem
    MaxAttempts = 2
    QueueSize = 1
    Preserve <- OnlyS2
    Rewrites = TRUE
    MaxWrites = 2
    MaxRestarts = 2
SPECIFICATION Spec
SYMMETRY WorkerSymmetry
INVARIANTS
    TypeOK
    NeverTwiceInFlight
    LiveIsRefused
    AckedWasAccepted
PROPERTIES
    OnlyLateQueuedReopens
