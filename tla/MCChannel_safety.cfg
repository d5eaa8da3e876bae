SPECIFICATION Spec
CONSTANTS
    Tensors = {t1, t2, t3}
    None = None
    Values = {0, 1}
    NoValue = NoValue
    Compute <- Flip
    Inputs = {0}
    Smalls = {FALSE}
    Modes <- SafetyModes
    MaxQueue = 2
    MaxLeft = 1
SYMMETRY TensorSymmetry
INVARIANTS
    IInv
    PoolSafe
    NoLostNotify
