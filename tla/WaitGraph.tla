------------------------------ MODULE WaitGraph ------------------------------
(***************************************************************************)
(* What waiting for another connection's locks promises, and nothing of    *)
(* how: a connection may begin to wait for another one unless that would   *)
(* close a circle, and it is woken only by the connection it waits for,    *)
(* which wakes all its waiters at once.                                    *)
(***************************************************************************)
CONSTANTS Conns, NoConn

VARIABLE waitsFor

Init == waitsFor = [c \in Conns |-> NoConn]

\* b waits, directly or through others, for c, or is c.
Reaches(b, c) ==
  \A S \in SUBSET Conns :
    b \in S /\ (\A p \in S : waitsFor[p] \in S \cup {NoConn}) => c \in S

Wait(c, b) ==
  /\ waitsFor[c] = NoConn
  /\ ~Reaches(b, c)
  /\ waitsFor' = [waitsFor EXCEPT ![c] = b]

Wake(b) == waitsFor' = [c \in Conns |-> IF waitsFor[c] = b THEN NoConn ELSE waitsFor[c]]

Next == \E b \in Conns : Wake(b) \/ \E c \in Conns : Wait(c, b)

Spec == Init /\ [][Next]_waitsFor

\* Nobody waits in a circle.
Acyclic == \A S \in SUBSET Conns : S # {} => \E c \in S : waitsFor[c] \notin S
=============================================================================
