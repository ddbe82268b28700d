CONSTANTS
    Procs = {p}
    NPage = 2
    NReader = 3
    Modes = {"PASSIVE", "FULL", "RESTART", "TRUNCATE"}
    SyncModes = {"NORMAL", "FULL"}
    Spills = {{1}}
    Commits = {{2}, {1, 2}}
    MaxTx = 2
    MaxFrame = 3
    MaxSalt = 2
    Faults = {"crash", "power", "error"}
    MaxFault = 2
    CrashInRestart = FALSE
    CrashOverEmpty = TRUE
SPECIFICATION Spec
INVARIANTS CrashSafe ReadsOwnWrites
PROPERTY SnapshotSpec
CHECK_DEADLOCK FALSE
