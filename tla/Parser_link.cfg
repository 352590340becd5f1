\* Two workers with a message each, two connections, two sends of a message.
CONSTANTS
    w1 = w1  w2 = w2  m1 = m1  m2 = m2  c1 = c1  c2 = c2  c3 = c3
    Workers <- TwoWorkers
    Messages <- TwoMessages
    Conns <- TwoConns
    NoWorker = NoWorker
    NoMessage = NoMessage
    NoConn = NoConn
    MaxSends = 2
SPECIFICATION Spec
INVARIANTS
    TypeOK
    NothingStale
    WorkIsBounded
PROPERTIES
    DeliveryPromise
    DisconnectAllReturns
