CONSTANTS
    MinThr = 1
    MaxThr = 2
    QueueMax = 2
    MIN_WAIT_TASK_NUM = 2
    DEFAULT_THREAD_NUM = 2
    Task = {t1, t2, t3}
    Caller = {c1}
    ExitedIsESRCH = TRUE
    QuiescentDestroy = TRUE
    NoTask = NoTask
    NoOne = NoOne
SPECIFICATION FairSpec
CHECK_DEADLOCK FALSE
PROPERTIES
    TaskServed
