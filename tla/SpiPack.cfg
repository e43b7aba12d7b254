CONSTANTS
    MaxLen = 5
    Lens = {1, 4, 5}
    TX_BUF_MAX_LEN = 45
    Pattern <- MCPattern
    MaxPoke = 1
    MaxCall = 2
SPECIFICATION Spec
CHECK_DEADLOCK FALSE
INVARIANTS
    SlowSendsFrame
    FastSendsFrame
    PixelsArrive
