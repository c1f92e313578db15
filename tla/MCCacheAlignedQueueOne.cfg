SPECIFICATION Spec
CONSTANTS
    Capacity = 1
    MaxItems = 4
INVARIANTS
    PushOnlyWithRoom
