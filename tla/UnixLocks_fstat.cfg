CONSTANTS
    p1 = p1
    p2 = p2
    f1 = f1
    f2 = f2
    f3 = f3
    Procs = {p1, p2}
    Files = {f1, f2, f3}
    Owner <- Owners
    MaxFault = 1
    CloseRaces = FALSE
    IgnoredErrors = FALSE
    FstatFails = TRUE
SPECIFICATION Spec
INVARIANT BeliefIsBacked
