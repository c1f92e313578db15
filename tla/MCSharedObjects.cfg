SPECIFICATION AllSpec
CONSTANTS
    Threads = {t1, t2}
    Feeders = {t1}
    Consumers = {c1}
    MaxLength = 2
    Trades <- AllTrades
    MaxTrades = 3
    Bookings <- AllBookings
    RingSize = 3
    MinTrades = 2
    LossLimit = 3
    PnlLimit = 5
    Window = 1
    Break = 1
    MaxRecords = 4
    MaxTime = 3
INVARIANTS
    AllTypeOK
    PairAtRest
    HintHolds
    JournalExact
    MutualExclusion
    WindowComplete
    BlockedInSequence
PROPERTIES
    OrdersServed
    RefusalJustified
    RecordsEnd
CHECK_DEADLOCK FALSE
