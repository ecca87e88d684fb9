CONSTANTS
    Clusters = {c1, c2}
    NoID = NoID
    SharedCache = {TRUE, FALSE}
    MaxFaults = 1
    MaxEdits = 1
SPECIFICATION FairSpec
PROPERTIES
    DeletionCompletes
    CreationCompletes
CHECK_DEADLOCK FALSE
