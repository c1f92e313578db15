SPECIFICATION FairSpec
CONSTANTS
    Size = 4
    MaxItems = 9
INVARIANTS
    TypeOK
    SlotsSafe
    HintsHold
PROPERTIES
    ImplementsFifo
    SpinReturns
