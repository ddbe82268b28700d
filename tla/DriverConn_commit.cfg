SPECIFICATION Spec
CONSTANTS
    Users = {u1, u2}
    Pool = Pool
    MaxTx = 2
    MaxExec = 3
    NoTx = NoTx
INVARIANT CompleteAfterCommit
