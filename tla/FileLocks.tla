------------------------------ MODULE FileLocks ------------------------------
(***************************************************************************)
(* What the locks of the database file promise the pagers of all           *)
(* processes: any number of readers, one connection that prepares a        *)
(* transaction beside them, and a writer that is alone.  A connection      *)
(* raises its lock one request at a time; it may lose any part of it (it   *)
(* unlocks, or its process ends and takes several connections with it).    *)
(* PENDING is no level here: it helps the writer to get through and        *)
(* promises nothing to the others.                                         *)
(***************************************************************************)
EXTENDS Naturals

CONSTANT Files              \* the open database files, one per connection

VARIABLE held               \* the lock each connection may rely on

NONE      == 0              \* SQLITE_LOCK_NONE
SHARED    == 1              \* SQLITE_LOCK_SHARED
RESERVED  == 2              \* SQLITE_LOCK_RESERVED
EXCLUSIVE == 4              \* SQLITE_LOCK_EXCLUSIVE

Below(f, level) == \A g \in Files \ {f} : held[g] < level

Init == held = [f \in Files |-> NONE]

\* A reader starts: nobody writes the file.
Share(f) ==
    /\ held[f] = NONE /\ Below(f, EXCLUSIVE)
    /\ held' = [held EXCEPT ![f] = SHARED]

\* A reader becomes the only one that prepares a transaction.
Reserve(f) ==
    /\ held[f] = SHARED /\ Below(f, RESERVED)
    /\ held' = [held EXCEPT ![f] = RESERVED]

\* A connection becomes the only one of all.
Exclude(f) ==
    /\ held[f] < EXCLUSIVE /\ Below(f, SHARED)
    /\ held' = [held EXCEPT ![f] = EXCLUSIVE]

\* The connections of S fall back to at most `level`.
Lower(S, level) ==
    held' = [f \in Files |->
                IF f \in S /\ held[f] > level THEN level ELSE held[f]]

Next ==
    \/ \E f \in Files : Share(f) \/ Reserve(f) \/ Exclude(f)
    \/ \E S \in SUBSET Files, level \in {NONE, SHARED} : Lower(S, level)

Spec == Init /\ [][Next]_held

(* A connection that writes the file is alone on it. *)
Exclusion ==
    \A f, g \in Files :
        (f # g /\ held[f] = EXCLUSIVE) => held[g] = NONE

(* At most one connection prepares or writes. *)
OneWriter ==
    \A f, g \in Files :
        (held[f] >= RESERVED /\ held[g] >= RESERVED) => f = g
=============================================================================
