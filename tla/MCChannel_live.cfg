SPECIFICATION FairSpec
CONSTANTS
    Tensors = {t1, t2}
    None = None
    Values = {0, 1}
    NoValue = NoValue
    Compute <- Flip
    Inputs = {0}
    Smalls = {TRUE, FALSE}
    Modes <- LiveModes
    MaxQueue = 2
    MaxLeft = 1
INVARIANTS
    ValueCorrect
    ResultOrError
    HostComputeReady
PROPERTIES
    WaitsEnd
    SyncReturns
