SPECIFICATION Spec
CONSTANTS
    f1 = f1
    f2 = f2
    s1 = s1
    s2 = s2
    Writers = {w1}
    MaxTrxId = 2
    Followers = {f1, f2}
    Conns = {s1, s2}
    Owner <- TwoFollowersOwner
    NoConn = NoConn
    Idle = Idle
    MaxQueue = 1
    MaxStream = 3
    MaxAcks = 2
    MaxFaults = 0
    Faults = {}
SYMMETRY FollowerSymmetry
CHECK_DEADLOCK FALSE
PROPERTIES
    ReleasedMeansReplicated
