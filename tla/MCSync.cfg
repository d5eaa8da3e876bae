SPECIFICATION FairSpec
CONSTANTS
    Producers = {p1, p2}
    SizeMax = 4
    MaxSpin = 1
INVARIANTS
    WaitSound
    ConsumerWakeup
    ProducerWakeup
PROPERTIES
    ImplementsTaskSync
    CallsReturn
    DtorReturns
