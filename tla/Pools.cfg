\* Two names, four ids; the wishes and the pools at first are those of MCNodePools.
CONSTANTS
    a = a
    b = b
    p1 = p1
    p2 = p2
    p3 = p3
    p4 = p4
    Names = {a, b}
    PoolIDs = {p1, p2, p3, p4}
    NoPool = NoPool
    Nil = Nil
    MaxSize = 2
    SharedCache = {TRUE}
    MaxFaults = 1
    MaxEdits = 1
    MaxRemovals = 1
    Asked <- MCAsked
    AtFirst <- MCAtFirst
SPECIFICATION FairSpec
INVARIANTS
    PoolsTypeOK
    NoneCreatedTwice
    OneDeletionAtATime
    DeletedEmpty
    KeepsWanted
    PoolsInv
    SyncInv
PROPERTIES
    ActiveInSync
    KeepsPoolsPromise
    Converges
CHECK_DEADLOCK FALSE
