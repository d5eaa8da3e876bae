SPECIFICATION FairSpec
CONSTANTS
    Producers = {p1}
    Worker = w
    WorkerAdds = FALSE
    BlockSize = 2
    MaxItems = 4
    SizeBits = 4
    MaxTask = 7
PROPERTIES
    CallsReturn
