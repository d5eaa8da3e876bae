SPECIFICATION Spec
CONSTANTS
    Streams = {s1, s2}
    Threads = {t1, t2}
    NoStream = NoStream
    Sizes = {1, 2}
    Memory = 3
    Reserves = {0, 2}
    MinReq = 2
    MaxOverhead = 2
    GrowthFactor = 1
    MaxUsed = 3
SYMMETRY Symmetry
INVARIANTS
    Partition
    HeadExact
    Coalesced
    UsedCovers
PROPERTIES
    OomOnlyWhenFull
