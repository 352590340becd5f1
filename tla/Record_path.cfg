\* Two messages of a vessel; rows of the reference stores can be read.
CONSTANTS
    ship = ship
    NoKey = NoKey
    NoRow = NoRow
    VesselKey = ship
    ReadableRows = TRUE
    Followed <- OneOfEachKind
    Identities <- ThreeIdentities
    Databases <- SevenDatabases
    MaxMessages = 2
SPECIFICATION Spec
CHECK_DEADLOCK FALSE
INVARIANTS
    TransmittedIsEmitted
    
    AnswerIsTrue
PROPERTIES
    KnownIsKept
