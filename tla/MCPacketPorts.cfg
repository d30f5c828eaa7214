CONSTANTS
    t1 = t1
    t2 = t2
    p1 = p1
    p2 = p2
    id1 = id1
    id2 = id2
    Threads <- MCThreads
    Controllers = {c1}
    Ports = {p1, p2}
    ConnectionIds = {id1, id2}
    Wiring <- MCWiring
    MayCrash = {p2}
    bufferLength = 2
    MaxPackets <- MCMaxPackets
    MaxCalls = 1
    None = None
SPECIFICATION FairSpec
INVARIANTS
    TypeOK
    SlotsConserved
    NoOverwrite
    NoTornPacket
    FanOutComplete
    SameOrder
PROPERTIES
    ImplementsChannels
    PushReturns
    ControlReturns
CHECK_DEADLOCK FALSE
