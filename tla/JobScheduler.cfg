\* Six jobs of two pools, three at a time: one key in the first pool, more than the cap
\* in the second.
SPECIFICATION FairSpec
CONSTANTS
    a = a
    b = b
    N = 6
    Pools = {a, b}
    PoolOf <- Interleaved
    TotalConcurrency = 3
    MaxPoolConcurrency = 3
    PoolSize <- Sizes
INVARIANTS
    SlotsAreShared
PROPERTIES
    RunsTheBatch
CHECK_DEADLOCK FALSE
