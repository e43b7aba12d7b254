CONSTANTS
    Session = {s1, s2, s3, s4}
    MaxChunk = 2
    MaxTime = 3
    QueueMax = 2
    MAX_PERSISTENT_COUNT = 2
    MAX_PATH_INDEX = 2
    Uploader = {u1, u2}
    Habit <- MCHabit
    NoPath = NoPath
    NoTask = NoTask
SPECIFICATION FairSpec
CHECK_DEADLOCK FALSE
INVARIANTS
    RecordingKept
    NothingLeftBehind
    NameNotUsedFreed
    CountMatchesKept
    ChunksInOrder
    IdOutlivesTasks
PROPERTIES
    StoppedIsFreed
