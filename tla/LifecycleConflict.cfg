CONSTANTS
    Clusters = {c1, c2}
    NoID = NoID
    SharedCache = {TRUE}
    MaxFaults = 0
    MaxEdits = 1
SPECIFICATION NewCluster
INVARIANT OneClusterWithoutFaults
CHECK_DEADLOCK FALSE
