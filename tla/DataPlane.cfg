SPECIFICATION Spec
CONSTANTS
    Threads = {t1, t2}
    Places = {p1, p2}
    Sizes = {1, 3}
    SlotSize = 2
    PoolSize = 7
    BulkSize = 4
    Quota = 11
    InBandThreshold = 1
    MaxNodes = 2
SYMMETRY Symmetry
CHECK_DEADLOCK FALSE
INVARIANTS
    PoolAccounting
    FirstFitExact
    OutputIsOwn
    
