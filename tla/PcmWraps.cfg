CONSTANTS
    Setting <- MCSetting
    Period = {3}
    INT_MAX = 14
    Counts = {2, 4}
    MaxXrun = 2
    MaxDisturbed = 0
SPECIFICATION Spec
CHECK_DEADLOCK FALSE
INVARIANTS
    CopiesOnlyAvailable
