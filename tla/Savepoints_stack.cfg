SPECIFICATION Spec
CONSTANTS
    Modes = {"delete", "wal"}
    NOrig = 2
    NPage = 3
    MaxSavepoint = 2
    MaxSubRec = 1
    MaxFrame = 3
    MaxWrite = 3
    PlaybackFails = {"delete"}
INVARIANT CacheIsCurrent
PROPERTY StackSpec
CHECK_DEADLOCK FALSE
