SPECIFICATION Spec
CONSTANTS
    Users = {u1}
    Pool = Pool
    MaxTx = 0
    MaxExec = 1
    NoTx = NoTx
INVARIANT ReportedIsDurable
