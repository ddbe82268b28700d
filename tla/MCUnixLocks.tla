----------------------------- MODULE MCUnixLocks -----------------------------
(* Two connections of one process beside a connection of another.          *)
EXTENDS UnixLocks, TLC
CONSTANTS p1, p2, f1, f2, f3
Owners == f1 :> p1 @@ f2 :> p1 @@ f3 :> p2
=============================================================================
