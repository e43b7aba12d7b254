CONSTANTS
    Chan = 4
    HwAlign = 2
    Buff = 24
    Start = {0, 2}
    MaxWord = 120
    Setting <- MCSetting
SPECIFICATION Spec
CHECK_DEADLOCK FALSE
INVARIANTS
    NoOverrun
    InOrder
    NothingLost
    NothingHeld
PROPERTIES
    ReadsReturn
