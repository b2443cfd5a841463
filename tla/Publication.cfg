SPECIFICATION FairSpec
CONSTANTS
    u1 = u1
    u2 = u2
    Uuid = {u1, u2}
    NullId = NullId
    NoVid = NoVid
    Cur = Cur
    MaxGen = 2
    MaxFailures = 2
INVARIANTS
    Coherent
    NeverRefused
    ServesTrue
PROPERTIES
    Settles
    HistoryPreserved
    Implements
CHECK_DEADLOCK FALSE
