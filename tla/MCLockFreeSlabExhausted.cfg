SPECIFICATION Spec
CONSTANTS
    Threads = {t1, t2}
    NumBlocks = 2
    IdxMod = 8
    TagMod = 4
    MaxAllocs = 3
    MaxStall = 3
INVARIANTS
    ReadsInPool
CHECK_DEADLOCK FALSE
