\* Producers that overwrite nothing, and a queue with room for every item.
CONSTANTS
    s1 = s1  s2 = s2  f1 = f1  f2 = f2  h1 = h1  h2 = h2  w1 = w1  w2 = w2
    Sources <- OneSource
    Files <- TwoFiles
    SourceOf <- BothOfS1
    Hashes <- TwoHashes
    Absent = Absent
    Workers <- OneWorker
    NoItem = NoItem
    MaxAttempts = 2
    QueueSize = 2
    Preserve <- NoSources
    Rewrites = FALSE
    MaxWrites = 2
    MaxRestarts = 1
SPECIFICATION FairSpec
INVARIANTS
    PayloadMatchesHash
    InterruptedIsLive
PROPERTIES
    OnlyDeliveredContentIsRemoved
    EveryFileSettles
