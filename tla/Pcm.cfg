CONSTANTS
    Setting <- MCSetting
    Period = {3}
    INT_MAX = 14
    Counts = {2, 4}
    MaxXrun = 2
    MaxDisturbed = 1
SPECIFICATION Spec
CHECK_DEADLOCK FALSE
INVARIANTS
    NoLeak
    NeverRefused
    TransferredOnce
    InOrder
    ReportsAvailable
PROPERTIES
    CallReturns
