----------------------------- MODULE SharedCache -----------------------------
(***************************************************************************)
(* The table locks of one shared page cache (struct BtShared), as the      *)
(* functions of btree.c read and write them.  A BtShared is a record and   *)
(* every C function is an operator from a BtShared to a BtShared, or to    *)
(* the set of connections it would name as the blocker.                    *)
(*                                                                         *)
(* Every function here runs with the mutex of the BtShared held.  The list *)
(* BtShared.pLock is the function "lock"; the code reports the first       *)
(* conflicting entry of the list as the blocker, the model any of them.    *)
(***************************************************************************)
EXTENDS Naturals, FiniteSets

CONSTANTS Conns,    (* the connections that share the cache                *)
          NoConn,   (* the null sqlite3 pointer                            *)
          Tables,   (* root pages of the tables of the database            *)
          Schema    (* root page 1, the table sqlite_schema                *)

ASSUME SharedCacheAssumption ==
  /\ NoConn \notin Conns
  /\ Schema \in Tables

\* BtLock.eLock and Btree.inTrans, with the values of the source.
NoLock     == 0
READ_LOCK  == 1
WRITE_LOCK == 2
TRANS_NONE  == 0
TRANS_READ  == 1
TRANS_WRITE == 2

BTS_EXCLUSIVE == "EXCLUSIVE"
BTS_PENDING   == "PENDING"

BtShared == [inTrans  : [Conns -> {TRANS_NONE, TRANS_READ, TRANS_WRITE}],
             lock     : [Conns -> [Tables -> {NoLock, READ_LOCK, WRITE_LOCK}]],
             pWriter  : Conns \cup {NoConn},
             btsFlags : SUBSET {BTS_EXCLUSIVE, BTS_PENDING}]

NewBtShared == [inTrans  |-> [c \in Conns |-> TRANS_NONE],
                lock     |-> [c \in Conns |-> [t \in Tables |-> NoLock]],
                pWriter  |-> NoConn,
                btsFlags |-> {}]

-----------------------------------------------------------------------------
\* BtShared.nTransaction and the test BtShared.inTransaction==TRANS_WRITE.
nTransaction(bt) == Cardinality({c \in Conns : bt.inTrans[c] # TRANS_NONE})
WriteTransOpen(bt) == \E c \in Conns : bt.inTrans[c] = TRANS_WRITE

\* Mutant: the exclusive writer is checked but read locks of others are not.
MutantIgnoresReaders(bt, c, t, eLock) ==
  {d \in Conns \ {c} : bt.lock[d][t] = WRITE_LOCK}

\* The connections querySharedCacheTableLock would report: the writer if it is
\* exclusive, else the owners of a lock of the other kind on the table.
TableBlockers(bt, c, t, eLock) ==
  IF bt.pWriter # c /\ BTS_EXCLUSIVE \in bt.btsFlags
  THEN {bt.pWriter}
  ELSE {d \in Conns \ {c} : bt.lock[d][t] \notin {NoLock, eLock}}

TransOpen(bt, c, wrflag) == \/ bt.inTrans[c] = TRANS_WRITE
                            \/ bt.inTrans[c] = TRANS_READ /\ wrflag = 0

LockOwners(bt) == {d \in Conns : \E t \in Tables : bt.lock[d][t] # NoLock}

\* The connections btreeBeginTrans would report; {} when the transaction can be
\* opened, or is open already.  wrflag is 0 (read), 1 (write) or 2 (exclusive).
BeginBlockers(bt, c, wrflag) ==
  IF TransOpen(bt, c, wrflag)
  THEN {}
  ELSE IF (wrflag > 0 /\ WriteTransOpen(bt)) \/ BTS_PENDING \in bt.btsFlags
  THEN {bt.pWriter}
  ELSE IF wrflag > 1 /\ LockOwners(bt) \ {c} # {}
  THEN LockOwners(bt) \ {c}
  ELSE TableBlockers(bt, c, Schema, READ_LOCK)

\* btreeBeginTrans once nothing blocks it.
btreeBeginTrans(bt, c, wrflag) ==
  IF TransOpen(bt, c, wrflag)
  THEN bt
  ELSE [bt EXCEPT
         !.inTrans[c] = IF wrflag > 0 THEN TRANS_WRITE ELSE TRANS_READ,
         !.lock[c][Schema] = IF bt.inTrans[c] = TRANS_NONE THEN READ_LOCK ELSE @,
         !.pWriter  = IF wrflag > 0 THEN c ELSE @,
         !.btsFlags = IF wrflag = 0 THEN @
                      ELSE (@ \ {BTS_EXCLUSIVE})
                           \cup (IF wrflag > 1 THEN {BTS_EXCLUSIVE} ELSE {})]

\* A lock already held is never weakened.
setSharedCacheTableLock(bt, c, t, eLock) ==
  [bt EXCEPT !.lock[c][t] = IF eLock > @ THEN eLock ELSE @]

\* A blocked request for a write lock keeps new transactions out.
SetPending(bt, eLock) ==
  IF eLock = WRITE_LOCK
  THEN [bt EXCEPT !.btsFlags = @ \cup {BTS_PENDING}]
  ELSE bt

clearAllSharedCacheTableLocks(bt, c) ==
  [bt EXCEPT
     !.lock[c]  = [t \in Tables |-> NoLock],
     !.pWriter  = IF bt.pWriter = c THEN NoConn ELSE @,
     !.btsFlags = IF bt.pWriter = c
                  THEN @ \ {BTS_EXCLUSIVE, BTS_PENDING}
                  ELSE IF nTransaction(bt) = 2 THEN @ \ {BTS_PENDING} ELSE @]

\* The code rewrites every entry of the list; only c can own a write lock.
downgradeAllSharedCacheTableLocks(bt, c) ==
  IF bt.pWriter # c
  THEN bt
  ELSE [bt EXCEPT
          !.lock = [d \in Conns |-> [t \in Tables |->
                      IF @[d][t] = NoLock THEN NoLock ELSE READ_LOCK]],
          !.pWriter  = NoConn,
          !.btsFlags = @ \ {BTS_EXCLUSIVE, BTS_PENDING}]

\* nVdbeRead counts the running statements of c that read, the ending one included.
btreeEndTransaction(bt, c, nVdbeRead) ==
  IF bt.inTrans[c] = TRANS_NONE
  THEN bt
  ELSE IF nVdbeRead > 1
  THEN [downgradeAllSharedCacheTableLocks(bt, c) EXCEPT !.inTrans[c] = TRANS_READ]
  ELSE [clearAllSharedCacheTableLocks(bt, c) EXCEPT !.inTrans[c] = TRANS_NONE]

-----------------------------------------------------------------------------
\* What the lock table promises.

\* Isolation: a table that one connection has write-locked is locked by no other.
\* The code compares lock kinds only for inequality and so relies on there being
\* a single writer (querySharedCacheTableLock).
LocksCompatible(bt) ==
  \A c, d \in Conns, t \in Tables :
    c # d /\ bt.lock[c][t] = WRITE_LOCK => bt.lock[d][t] = NoLock

\* pWriter is the one connection with a write transaction, and only with a writer
\* can the flags be set: btreeBeginTrans reads pWriter->db when they are.
WriterConsistent(bt) ==
  /\ \A c \in Conns : bt.inTrans[c] = TRANS_WRITE <=> bt.pWriter = c
  /\ bt.btsFlags # {} => bt.pWriter # NoConn

\* A connection holds locks exactly while it is in a transaction, and a write lock
\* only in a write transaction.
LocksNeedTrans(bt) ==
  \A c \in Conns :
    /\ bt.inTrans[c] # TRANS_NONE <=> bt.lock[c][Schema] # NoLock
    /\ \A t \in Tables : bt.lock[c][t] <= bt.inTrans[c]
=============================================================================
