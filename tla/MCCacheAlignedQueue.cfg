SPECIFICATION FairSpec
CONSTANTS
    Capacity = 4
    MaxItems = 9
INVARIANTS
    TypeOK
    CellsSafe
PROPERTIES
    ImplementsFifo
    EveryItemDelivered
