SPECIFICATION FairSpec
CONSTANTS
    Procs = {0, 1, 2}
    Keys = {k1, k2}
    k1 = k1
    k2 = k2
    None = None
    CompNodeHash <- MCHash
    Programs <- MCPrograms
    MaxWorkers = 12
    LossyCalls = {"get_mm_server_port"}
    MaxLost = 1
INVARIANTS
    RegisterAgree
    Delivered
    BarrierTogether
PROPERTY
    CallsReturn
