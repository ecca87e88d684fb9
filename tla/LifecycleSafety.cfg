CONSTANTS
    Clusters = {c1, c2}
    NoID = NoID
    SharedCache = {TRUE, FALSE}
    MaxFaults = 2
    MaxEdits = 1
SYMMETRY Symmetry
SPECIFICATION Spec
INVARIANTS
    TypeOK
    IInv
    DeletesOnlyItsOwn
    SecretBeforeActive
    NoSilentLeak
    AloneInv
    OneClusterIfLeftAlone
PROPERTY
    KeepsPromise
CHECK_DEADLOCK FALSE
