CONSTANTS
    Card <- MCCard
    Value <- MCValue
    Percent <- MCPercent
    Array <- MCArray
    MaxCall = 3
SPECIFICATION Spec
CHECK_DEADLOCK FALSE
INVARIANTS
    NothingHeld
    LastSetHolds
    NamedItemChosen
