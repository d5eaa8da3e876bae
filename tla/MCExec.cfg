SPECIFICATION FairSpec
CONSTANTS
    cn1 = cn1
    cn2 = cn2
    cn3 = cn3
    Nodes = {cn1, cn2, cn3}
    Graphs <- MCGraphs
    MaxRuns = 3
    MaxDefrag = 1
INVARIANTS
    ReadyCountsFetched
    AllCallsRun
PROPERTIES
    KernelsOrdered
    ExecutionReturns
CHECK_DEADLOCK FALSE
