CONSTANTS
    Procs = {p, q}
    NPage = 2
    NReader = 2
    Modes = {"PASSIVE", "TRUNCATE"}
    SyncModes = {"NORMAL"}
    Spills = {}
    Commits = {{1}, {1, 2}}
    MaxTx = 2
    MaxFrame = 2
    MaxSalt = 3
    Faults = {"crash"}
    MaxFault = 1
    CrashInRestart = FALSE
    CrashOverEmpty = FALSE
SYMMETRY Symmetry
SPECIFICATION Spec
INVARIANTS CacheIsSnapshot BackfillWithinLog
PROPERTY SnapshotSpec
CHECK_DEADLOCK FALSE
