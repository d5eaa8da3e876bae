SPECIFICATION FairSpec
CONSTANTS
    Procs = {0, 1, 2}
    Keys = {k1, k2}
    k1 = k1
    k2 = k2
    None = None
    CompNodeHash <- MCHash
    Programs <- BarrierTwice
    MaxWorkers = 12
    LossyCalls = {}
    MaxLost = 1
CHECK_DEADLOCK FALSE
PROPERTY CallsReturn
