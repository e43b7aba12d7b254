CONSTANTS
    MinThr = 1
    MaxThr = 2
    QueueMax = 2
    MIN_WAIT_TASK_NUM = 1
    DEFAULT_THREAD_NUM = 2
    Task = {t1, t2, t3}
    Caller = {c1}
    ExitedIsESRCH = TRUE
    QuiescentDestroy = FALSE
    NoTask = NoTask
    NoOne = NoOne
SPECIFICATION FairSpec
CHECK_DEADLOCK FALSE
INVARIANTS
    LiveThreadsCounted
PROPERTIES
    IsTaskQueue
    IdlePoolShrinks
    CallReturns
