\* Two requests at a time, two processes, three imports in two different seconds.
CONSTANTS
    h1 = h1  h2 = h2  p1 = p1  p2 = p2  g0 = g0  g1 = g1  g2 = g2  g3 = g3  n1 = n1  n2 = n2
    Threads <- TwoThreads
    Viewers <- OneViewer
    Pids <- TwoPids
    NoThread = NoThread
    NoPid = NoPid
    MaxRequests = 3
    MaxConsoleDeaths = 1
    Builds <- FourBuilds
    NoStore = NoStore
    Unopened = Unopened
    FirstStore = g0
    BackupNames <- TwoNames
    NoName = NoName
SPECIFICATION Spec
INVARIANTS
    TypeOK
    EveryParserIsKnown
    StoreSurvives
    StoresAreDistinct
    ServedStoreIsCurrent
PROPERTIES
    ParserIsRestored
