------------------------------ MODULE Allocator ------------------------------
(* What sqlcipher_malloc and sqlcipher_free promise their callers: memory   *)
(* that is handed out is aligned, inside the private heap or in a block of  *)
(* its own from malloc, and shares no byte with memory not freed yet.       *)
EXTENDS Naturals

CONSTANTS
    HeapSize,    \* bytes of the private heap, at addresses 0..HeapSize-1
    Align,       \* SQLCIPHER_PRIVATE_HEAP_ALIGNMENT
    Outside      \* addresses of blocks of malloc

VARIABLE live    \* [mem, size]: what has been handed out and not freed

\* a ends before b begins.
Before(a, b) == a.mem + a.size <= b.mem
Inside(a) == a.mem \notin Outside

Fits(a) ==
    IF Inside(a)
    THEN /\ a.mem \in Nat /\ a.mem % Align = 0 /\ a.mem + a.size <= HeapSize
         /\ \A b \in live : Inside(b) => Before(a, b) \/ Before(b, a)
    ELSE \A b \in live : b.mem # a.mem

Init == live = {}
Malloc(a) == a.size \in Nat /\ Fits(a) /\ live' = live \cup {a}
Free(a) == live' = live \ {a}

\* As an action formula over the change of live: no bound on the sizes.
Next ==
    \/ \E a \in live' \ live : Malloc(a)
    \/ \E a \in live : Free(a)

Spec == Init /\ [][Next]_live
=============================================================================
