SPECIFICATION Spec
CONSTANTS
    Modes = {"wal"}
    NOrig = 2
    NPage = 3
    MaxSavepoint = 2
    MaxSubRec = 1
    MaxFrame = 3
    MaxWrite = 3
    PlaybackFails = {"wal"}
INVARIANT CacheIsCurrent
CHECK_DEADLOCK FALSE
