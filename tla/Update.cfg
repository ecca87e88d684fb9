CONSTANTS
    Clusters = {c1}
    NoID = NoID
    SharedCache = {TRUE}
    MaxFaults = 1
    MaxEdits = 1
    MaxVersion = 2
    MaxTasks = 2
    MaxMishaps = 1
SPECIFICATION ImportedCluster
INVARIANTS
    UpdateTypeOK
    NoTaskForgotten
    UpdateInv
PROPERTIES
    ActiveMeansDone
    UpdateCompletes
CHECK_DEADLOCK FALSE
