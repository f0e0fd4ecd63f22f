SPECIFICATION Spec
CONSTANTS
    Writers = {w1, w2}
    Keys = {k1, k2}
    Values = {v1}
    Deleted = Deleted
    NoPart = NoPart
    NoWriter = NoWriter
    MaxTrxId = 3
INVARIANTS
    TypeOK
    ConflictOrder
    DbIsReplay
PROPERTY
    ImplementsCommitLog
