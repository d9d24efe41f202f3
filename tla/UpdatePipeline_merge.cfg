SPECIFICATION Spec
CONSTANTS
    Ids = {a, b}
    Capacity = 2
    MaxUpdates = 4
INVARIANTS
    TypeOK
    LastIsSomewhere
PROPERTIES
    NeverGoesBack
    GetsThere
CHECK_DEADLOCK FALSE
