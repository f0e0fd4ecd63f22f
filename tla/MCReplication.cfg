SPECIFICATION Spec
CONSTANTS
    f1 = f1
    f2 = f2
    s1 = s1
    s2 = s2
    Writers = {w1, w2}
    MaxTrxId = 3
    Followers = {f1}
    Conns = {s1}
    Owner <- OneFollowerOwner
    NoConn = NoConn
    Idle = Idle
    MaxQueue = 1
    MaxStream = 4
    MaxAcks = 1
    MaxFaults = 1
    Faults = {"apply", "link", "follower", "primary"}
SYMMETRY WriterSymmetry
CHECK_DEADLOCK FALSE
INVARIANTS
    TypeOK
    UniqueIds
    FollowersHoldOnlyCommitted
    
