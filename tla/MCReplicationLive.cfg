SPECIFICATION FairSpec
CONSTANTS
    f1 = f1
    f2 = f2
    s1 = s1
    s2 = s2
    Writers = {w1}
    MaxTrxId = 3
    Followers = {f1}
    Conns = {s1}
    Owner <- OneFollowerOwner
    NoConn = NoConn
    Idle = Idle
    MaxQueue = 1
    MaxStream = 5
    MaxAcks = 1
    MaxFaults = 0
    Faults = {}
CHECK_DEADLOCK FALSE
PROPERTIES
    InHandIsDelivered
