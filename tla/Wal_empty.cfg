CONSTANTS
    Procs = {p, q}
    NPage = 2
    NReader = 2
    Modes = {"PASSIVE", "TRUNCATE"}
    SyncModes = {"NORMAL"}
    Spills = {}
    Commits = {{1}}
    MaxTx = 1
    MaxFrame = 1
    MaxSalt = 3
    Faults = {"crash"}
    MaxFault = 1
    CrashInRestart = FALSE
    CrashOverEmpty = TRUE
SYMMETRY Symmetry
SPECIFICATION Spec
INVARIANT CacheIsSnapshot
CHECK_DEADLOCK FALSE
