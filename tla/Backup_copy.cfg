SPECIFICATION FairSpec
CONSTANTS
    MaxPages = 3
    MaxTx = 4
    Steps = {0, 1, 2}
INVARIANTS
    CopiedIsCurrent
PROPERTIES
    DestIsSnapshot
    BackupEnds
