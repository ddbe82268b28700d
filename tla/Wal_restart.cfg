CONSTANTS
    Procs = {p, q}
    NPage = 2
    NReader = 2
    Modes = {"PASSIVE"}
    SyncModes = {"NORMAL"}
    Spills = {}
    Commits = {{1}, {1, 2}}
    MaxTx = 2
    MaxFrame = 2
    MaxSalt = 2
    Faults = {"crash"}
    MaxFault = 1
    CrashInRestart = TRUE
    CrashOverEmpty = FALSE
SPECIFICATION Spec
INVARIANT BackfillWithinLog
CHECK_DEADLOCK FALSE
