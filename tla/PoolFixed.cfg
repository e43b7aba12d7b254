CONSTANTS
    MinThr = 2
    MaxThr = 2
    QueueMax = 2
    MIN_WAIT_TASK_NUM = 1
    DEFAULT_THREAD_NUM = 1
    Task = {t1, t2, t3}
    Caller = {c1, c2}
    ExitedIsESRCH = FALSE
    QuiescentDestroy = TRUE
    NoTask = NoTask
    NoOne = NoOne
SPECIFICATION FairSpec
CHECK_DEADLOCK FALSE
INVARIANTS
    TypeOK
    BusyThreadsCounted
    WaitConditionStillHolds
    NoStrandedTask
    WakeupPerTask
    NoUseAfterFree
PROPERTIES
    TaskServed
    CallReturns
    DestroyReturnsUnlessParking
