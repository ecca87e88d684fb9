\* Autoscaling is turned on for a pool whose desired size stays in the object.
CONSTANTS
    a = a
    b = b
    p1 = p1
    p2 = p2
    p3 = p3
    p4 = p4
    Names = {a, b}
    PoolIDs = {p1, p2, p3, p4}
    NoPool = NoPool
    Nil = Nil
    MaxSize = 2
    SharedCache = {TRUE}
    MaxFaults = 1
    MaxEdits = 1
    MaxRemovals = 0
    Asked <- SizedAsked
    AtFirst <- SizedFirst
SPECIFICATION FairSpec
PROPERTY
    Converges
CHECK_DEADLOCK FALSE
