SPECIFICATION AllSpec
CONSTANTS
    Threads = {t1, t2}
    Feeders = {t1}
    Consumers = {c1}
    MaxLength = 1
    Trades <- AllTrades
    MaxTrades = 1
    Bookings <- AllBookings
    RingSize = 2
    MinTrades = 2
    LossLimit = 3
    PnlLimit = 5
    Window = 1
    Break = 2
    MaxRecords = 3
    MaxTime = 6
INVARIANTS
    BlockedForBreak
CHECK_DEADLOCK FALSE
