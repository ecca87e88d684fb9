CONSTANTS
    Clusters = {c1, c2}
    NoID = NoID
    SharedCache = {TRUE}
    MaxFaults = 1
    MaxEdits = 0
SPECIFICATION NewCluster
INVARIANT NoRecordedClusterLeft
CHECK_DEADLOCK FALSE
