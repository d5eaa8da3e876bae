SPECIFICATION Spec
CONSTANTS
    Producers = {p1, p2}
    Worker = w
    WorkerAdds = TRUE
    BlockSize = 2
    MaxItems = 6
    SizeBits = 4
    MaxTask = 5
SYMMETRY ProducerSymmetry
INVARIANTS
    SlotValid
    BlocksAccounted
    HeadNeverRunsOut
    WaitAllSound
PROPERTIES
    EmptyWhenSeenEmpty
    ImplementsTaskFifo
