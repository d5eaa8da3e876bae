SPECIFICATION FairSpec
CONSTANTS
    Callers = {c1, c2}
    m_nr_threads = 3
    Parallelism = {0, 2, 3}
INVARIANTS
    EveryIndexOnce
    TaskAlive
PROPERTIES
    PoolReturns
