CONSTANTS
    ip1 = ip1
    c1 = c1
    c2 = c2
    p1 = p1
    d1 = d1
    d2 = d2
    Clients = {c1, c2}
    Ips = {ip1}
    IpOf <- MCIpOf
    max_global_ = 2
    max_per_ip_ = 1
    Dejavus = {d1, d2}
    Workers = {w1}
    RequestCapacity = 1
    SendCapacity = 1
    ReplyPackets = 2
    MaxPackets = 2
    Pool = {p1}
    Askers <- MCAskers
    Senders = {c1, p1}
    DataThreads = {t1}
    DataCapacity = 1
    Tokens = 1
SPECIFICATION Spec
INVARIANTS
    TypeOK
    SlotsAreAccounted
    RepliesReachTheAsker
PROPERTIES
    SlotsComeBack
    
    
CHECK_DEADLOCK FALSE
