SPECIFICATION FairSpec
CONSTANTS
    Tensors = {t1, t2}
    None = None
    Values = {0, 1}
    NoValue = NoValue
    Compute <- Flip
    Inputs = {0}
    Smalls = {FALSE}
    Modes <- FailMode
    MaxQueue = 3
    MaxLeft = 1
PROPERTIES
    GetValueReturns
