\* The object of an imported cluster has the ids of its pools; another client deletes one.
CONSTANTS
    a = a
    b = b
    p1 = p1
    p2 = p2
    p3 = p3
    p4 = p4
    Names = {a, b}
    PoolIDs = {p1, p2, p3, p4}
    NoPool = NoPool
    Nil = Nil
    MaxSize = 2
    SharedCache = {FALSE}
    MaxFaults = 1
    MaxEdits = 1
    MaxRemovals = 1
    Asked <- ImportedAsked
    AtFirst <- ImportedFirst
SPECIFICATION Imported
PROPERTY
    NothingOverlooked
CHECK_DEADLOCK FALSE
