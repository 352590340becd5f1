\* Two messages of a vessel; the query layer as it is.
CONSTANTS
    ship = ship
    NoKey = NoKey
    NoRow = NoRow
    VesselKey = ship
    ReadableRows = FALSE
    Followed <- OneOfEachKind
    Identities <- ThreeIdentities
    Databases <- SevenDatabases
    MaxMessages = 2
SPECIFICATION Spec
CHECK_DEADLOCK FALSE
INVARIANTS
    KnownVesselIsAccepted
