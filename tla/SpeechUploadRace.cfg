CONSTANTS
    Session = {s1, s2, s3}
    MaxChunk = 1
    MaxTime = 2
    QueueMax = 4
    MAX_PERSISTENT_COUNT = 2
    MAX_PATH_INDEX = 2
    Uploader = {u1}
    Habit <- MCBrisk
    NoPath = NoPath
    NoTask = NoTask
SPECIFICATION Spec
CHECK_DEADLOCK FALSE
INVARIANTS
    EveryRecordingKept
