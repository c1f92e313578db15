SPECIFICATION FairSpec
CONSTANTS
    SendEvery = 2
    Timeout = 1
    Horizon = 4
    HWM = 2
    MaxSends = 4
    MaxTime = 5
INVARIANTS
    TypeOK
PROPERTIES
    OneReplyPerPrompt
    LagNeverShrinks
    EngineStops
CHECK_DEADLOCK FALSE
