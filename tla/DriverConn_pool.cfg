SPECIFICATION FairSpec
CONSTANTS
    Users = {u1, u2}
    Pool = Pool
    MaxTx = 2
    MaxExec = 3
    NoTx = NoTx
INVARIANTS
    PooledIsClean
    RefusedHasNoEffect
    ReportedIsKept
PROPERTY CancelReachesStatement
