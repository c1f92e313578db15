SPECIFICATION FairSpec
CONSTANTS
    Threads = {t1, t2}
    NumBlocks = 3
    IdxMod = 8
    TagMod = 3
    MaxAllocs = 4
    MaxStall = 2
INVARIANTS
    TypeOK
    PoolIntact
    MetricsSettle
PROPERTIES
    ImplementsPool
    OpsEnd
CHECK_DEADLOCK FALSE
