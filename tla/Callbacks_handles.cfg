SPECIFICATION Spec
CONSTANTS
    Conns = {c1, c2}
    Ptrs = {p1, p2, p3}
    NoPtr = NoPtr
    MaxVals = 4
SYMMETRY Interchangeable
INVARIANTS
    CallbacksResolve
    ClosedLeavesNothing
CHECK_DEADLOCK FALSE
