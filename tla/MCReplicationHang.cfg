SPECIFICATION Spec
CONSTANTS
    f1 = f1
    f2 = f2
    s1 = s1
    s2 = s2
    Writers = {w1}
    MaxTrxId = 2
    Followers = {f1}
    Conns = {s1}
    Owner <- OneFollowerOwner
    NoConn = NoConn
    Idle = Idle
    MaxQueue = 1
    MaxStream = 2
    MaxAcks = 0
    MaxFaults = 0
    Faults = {}
CHECK_DEADLOCK FALSE
INVARIANTS
    NoThreadHangs
