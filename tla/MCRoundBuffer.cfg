CONSTANTS
    Producers = {p1, p2}
    Consumers = {c1, c2}
    Pollers = {q1}
    a = a
    b = b
    c = c
    Packets <- MCPackets
    Len_ <- MCLen
    capacity_ = 5
    HEADER = 2
    MaxPackets = 4
SPECIFICATION Spec
INVARIANTS
    TypeOK
    RingHoldsWholePackets
PROPERTIES
    IsPacketQueue
    EnqueueReturns
    PacketsAreTaken
