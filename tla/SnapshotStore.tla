---------------------------- MODULE SnapshotStore ----------------------------
(***************************************************************************)
(* What write-ahead logging promises to the connections of a database: a   *)
(* sequence of committed states, of which every transaction reads the      *)
(* newest one at the moment it began, and to which one writer at a time    *)
(* appends.  A process may die: the transaction that it was committing may *)
(* then still take effect, whole, or not at all.  The machine may lose its *)
(* power: the newest commits may be lost, in order, but never one that a   *)
(* sync has covered.                                                       *)
(***************************************************************************)
EXTENDS Naturals, Sequences

CONSTANTS Procs,     \* the connections
          States,    \* the states that the database can have
          NoView     \* of a connection outside of any transaction

VARIABLES log,       \* the committed states, oldest first
          view,      \* what each connection reads
          doubt,     \* states whose commit has begun, each with its place in the log
          durable    \* the first commit that a power failure may not undo

vars == <<log, view, doubt, durable>>

Newest == log[Len(log)]

TypeOK == /\ log \in Seq(States)
          /\ view \in [Procs -> States \cup {NoView}]
          /\ doubt \subseteq [at : Nat, db : States]
          /\ durable \in 1..Len(log)

Init == \E s \in States : /\ log = <<s>>
                          /\ view = [c \in Procs |-> NoView]
                          /\ doubt = {}
                          /\ durable = 1

Begin(c) == /\ view[c] = NoView
            /\ view' = [view EXCEPT ![c] = Newest]
            /\ UNCHANGED <<log, doubt, durable>>

(* A transaction ends, or its process dies.                                *)
End(c) == /\ view[c] # NoView
          /\ view' = [view EXCEPT ![c] = NoView]
          /\ UNCHANGED <<log, doubt, durable>>

Prepare(c) == /\ view[c] = Newest
              /\ UNCHANGED <<log, view, durable>>
              /\ \E s \in States : doubt' = doubt \cup {[at |-> Len(log), db |-> s]}

InDoubt == {x \in doubt : x.at = Len(log)}

(* A commit that is synced rules out whatever else was in doubt.           *)
Commit(c) == \E x \in InDoubt :
                 /\ view[c] = Newest
                 /\ log' = Append(log, x.db)
                 /\ view' = [view EXCEPT ![c] = x.db]
                 /\ \/ UNCHANGED <<doubt, durable>>
                    \/ doubt' = {} /\ durable' = Len(log')

(* Whoever finds what a dead writer left completes it.                     *)
Recover == /\ \E x \in InDoubt : log' = Append(log, x.db)
           /\ doubt' = {}
           /\ UNCHANGED <<view, durable>>

Sync == /\ durable' = Len(log)
        /\ doubt' = InDoubt
        /\ UNCHANGED <<log, view>>

(* The power fails: a suffix that was not synced is lost, or a transaction *)
(* in doubt is found in its place.                                         *)
PowerLoss == /\ view' = [c \in Procs |-> NoView]
             /\ \/ \E k \in durable..Len(log) : log' = SubSeq(log, 1, k) /\ doubt' = {}
                \/ \E x \in doubt : /\ x.at >= durable
                                    /\ log' = SubSeq(log, 1, x.at) /\ doubt' = {x}
             /\ durable' = Len(log')

Next == \/ \E c \in Procs : Begin(c) \/ End(c) \/ Prepare(c) \/ Commit(c)
        \/ Recover \/ Sync \/ PowerLoss

Spec == Init /\ [][Next]_vars
=============================================================================
