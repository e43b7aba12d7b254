CONSTANTS
    MinThr = 1
    MaxThr = 1
    QueueMax = 1
    MIN_WAIT_TASK_NUM = 1
    DEFAULT_THREAD_NUM = 1
    Task = {t1}
    Caller = {c1}
    ExitedIsESRCH = TRUE
    QuiescentDestroy = TRUE
    NoTask = NoTask
    NoOne = NoOne
SPECIFICATION FairSpec
CHECK_DEADLOCK FALSE
PROPERTIES
    DestroyReturns
