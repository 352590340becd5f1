\* Two handler threads, two vessels, six lines of which one is repeated.
CONSTANTS
    t1 = t1  t2 = t2  v1 = v1  v2 = v2  near = near  far = far  own = own  other = other
    o1 = o1  o2 = o2  o3 = o3
    Threads <- TwoThreads
    Messages <- FourMessages
    TwoPart <- TwoMessages
    Objects <- ThreeObjects
    NoObject = NoObject
    NoMessage = NoMessage
    Vessels <- TwoVessels
    VesselOf <- Owner
    Jumps <- OneJump
    Known <- OneKnown
    Feeds <- ThreeFeeds
    MaxDeaths = 1
    NoVessel = NoVessel
SPECIFICATION Spec
CHECK_DEADLOCK FALSE
INVARIANTS
    NoForeignValues
    OrderedMessageIsWhole
    AckedIsSpooled
    JumpIsReported
PROPERTIES
    OnlyDeathTruncates
    OnlyRacesErase
