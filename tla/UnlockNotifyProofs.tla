-------------------------- MODULE UnlockNotifyProofs --------------------------
(***************************************************************************)
(* Proofs about UnlockNotify: type correctness, the wake-up invariants and *)
(* the refinement of WaitGraph.                                            *)
(***************************************************************************)
EXTENDS UnlockNotify, TLAPS

USE DEF NoLock, READ_LOCK, WRITE_LOCK, TRANS_NONE, TRANS_READ, TRANS_WRITE,
        BTS_EXCLUSIVE, BTS_PENDING

-----------------------------------------------------------------------------
(***************************************************************************)
(* The functions of the lock table map a BtShared to a BtShared.           *)
(***************************************************************************)

LEMMA BeginTransType ==
  ASSUME NEW s \in BtShared, NEW c \in Conns, NEW w \in 0 .. 2
  PROVE  btreeBeginTrans(s, c, w) \in BtShared
  <1> DEFINE u == [s EXCEPT !.lock[c][Schema] =
                     IF s.inTrans[c] = TRANS_NONE THEN READ_LOCK ELSE @]
  <1>0. \A k \in {NoLock, READ_LOCK, WRITE_LOCK} :
          [s EXCEPT !.lock[c][Schema] = k] \in BtShared
    BY SharedCacheAssumption DEF BtShared
  <1>1. u \in BtShared
    <2>1. s.lock[c][Schema] \in {NoLock, READ_LOCK, WRITE_LOCK}
      BY SharedCacheAssumption DEF BtShared
    <2>2. QED
      BY <1>0, <2>1
  <1>2. ~TransOpen(s, c, w) =>
          btreeBeginTrans(s, c, w) =
            [u EXCEPT !.inTrans[c] = IF w > 0 THEN TRANS_WRITE ELSE TRANS_READ,
                      !.pWriter  = IF w > 0 THEN c ELSE @,
                      !.btsFlags = IF w = 0 THEN @
                                   ELSE (@ \ {BTS_EXCLUSIVE})
                                        \cup (IF w > 1 THEN {BTS_EXCLUSIVE} ELSE {})]
    BY DEF btreeBeginTrans, BtShared
  <1>3. QED
    BY <1>1, <1>2 DEF btreeBeginTrans, BtShared

LEMMA SetLockType ==
  ASSUME NEW s \in BtShared, NEW c \in Conns, NEW t \in Tables,
         NEW e \in {READ_LOCK, WRITE_LOCK}
  PROVE  setSharedCacheTableLock(s, c, t, e) \in BtShared
  BY DEF setSharedCacheTableLock, BtShared

LEMMA SetPendingType ==
  ASSUME NEW s \in BtShared, NEW e
  PROVE  SetPending(s, e) \in BtShared
  BY DEF SetPending, BtShared

LEMMA ClearAllType ==
  ASSUME NEW s \in BtShared, NEW c \in Conns
  PROVE  clearAllSharedCacheTableLocks(s, c) \in BtShared
  BY DEF clearAllSharedCacheTableLocks, BtShared

LEMMA DowngradeType ==
  ASSUME NEW s \in BtShared, NEW c \in Conns
  PROVE  downgradeAllSharedCacheTableLocks(s, c) \in BtShared
  BY DEF downgradeAllSharedCacheTableLocks, BtShared

LEMMA EndTransType ==
  ASSUME NEW s \in BtShared, NEW c \in Conns, NEW n \in Nat
  PROVE  btreeEndTransaction(s, c, n) \in BtShared
  <1>1. \A u \in BtShared, k \in {TRANS_NONE, TRANS_READ} :
          [u EXCEPT !.inTrans[c] = k] \in BtShared
    BY DEF BtShared
  <1>2. QED
    BY <1>1, ClearAllType, DowngradeType DEF btreeEndTransaction

-----------------------------------------------------------------------------
(***************************************************************************)
(* The functions of the lock table keep its promises, each under the       *)
(* condition its callers establish.                                        *)
(***************************************************************************)

LockInv(s) == WriterConsistent(s) /\ LocksNeedTrans(s) /\ LocksCompatible(s)

LEMMA BlockersAreConns ==
  ASSUME NEW s \in BtShared, LockInv(s), NEW c \in Conns, NEW w \in 0 .. 2,
         NEW t, NEW e
  PROVE  /\ TableBlockers(s, c, t, e) \subseteq Conns
         /\ BeginBlockers(s, c, w) \subseteq Conns
  <1>1. s.btsFlags # {} \/ WriteTransOpen(s) => s.pWriter \in Conns
    BY DEF LockInv, WriterConsistent, WriteTransOpen, BtShared
  <1>2. QED
    BY <1>1 DEF TableBlockers, BeginBlockers, LockOwners, BtShared

LEMMA BeginTransInv ==
  ASSUME NEW s \in BtShared, LockInv(s), NEW c \in Conns, NEW w \in 0 .. 2,
         BeginBlockers(s, c, w) = {}
  PROVE  /\ LockInv(btreeBeginTrans(s, c, w))
         /\ btreeBeginTrans(s, c, w).inTrans[c] >= (IF w > 0 THEN TRANS_WRITE ELSE TRANS_READ)
  <1> DEFINE u == btreeBeginTrans(s, c, w)
  <1>0. u \in BtShared
    BY BeginTransType
  <1>1. CASE TransOpen(s, c, w)
    BY <1>1 DEF TransOpen, btreeBeginTrans, BtShared
  <1>2. CASE ~TransOpen(s, c, w)
    <2>1. /\ ~(w > 0 /\ WriteTransOpen(s))
          /\ BTS_PENDING \notin s.btsFlags
          /\ TableBlockers(s, c, Schema, READ_LOCK) = {}
      BY <1>2 DEF BeginBlockers
    <2>2. /\ \A d \in Conns : u.inTrans[d] =
               IF d # c THEN s.inTrans[d]
               ELSE IF w > 0 THEN TRANS_WRITE ELSE TRANS_READ
          /\ \A d \in Conns, t \in Tables : u.lock[d][t] =
               IF d = c /\ t = Schema /\ s.inTrans[c] = TRANS_NONE
               THEN READ_LOCK ELSE s.lock[d][t]
          /\ u.pWriter = IF w > 0 THEN c ELSE s.pWriter
          /\ w = 0 => u.btsFlags = s.btsFlags
      BY <1>2, SharedCacheAssumption DEF btreeBeginTrans, BtShared
    <2>3. s.inTrans[c] # TRANS_WRITE /\ (w = 0 => s.inTrans[c] = TRANS_NONE)
      BY <1>2 DEF TransOpen, BtShared
    <2>4. WriterConsistent(u)
      BY <2>1, <2>2, <2>3, SharedCacheAssumption
         DEF LockInv, WriterConsistent, WriteTransOpen, BtShared
    <2>5. LocksNeedTrans(u)
      BY <2>2, <2>3, SharedCacheAssumption DEF LockInv, LocksNeedTrans, BtShared
    <2>6. \A d \in Conns \ {c} : s.lock[d][Schema] # WRITE_LOCK
      BY <2>1 DEF TableBlockers
    <2>7. LocksCompatible(u)
      BY <2>2, <2>3, <2>6, SharedCacheAssumption
         DEF LockInv, LocksNeedTrans, LocksCompatible, BtShared
    <2>8. QED
      BY <2>2, <2>4, <2>5, <2>7 DEF LockInv
  <1>3. QED
    BY <1>1, <1>2

LEMMA SetLockInv ==
  ASSUME NEW s \in BtShared, LockInv(s), NEW c \in Conns, NEW t \in Tables,
         NEW e \in {READ_LOCK, WRITE_LOCK}, e <= s.inTrans[c],
         TableBlockers(s, c, t, e) = {}
  PROVE  LockInv(setSharedCacheTableLock(s, c, t, e))
  <1> DEFINE u == setSharedCacheTableLock(s, c, t, e)
  <1>1. /\ u.inTrans = s.inTrans /\ u.pWriter = s.pWriter /\ u.btsFlags = s.btsFlags
        /\ \A d \in Conns, v \in Tables : u.lock[d][v] =
             IF d = c /\ v = t /\ e > s.lock[c][t] THEN e ELSE s.lock[d][v]
    BY DEF setSharedCacheTableLock, BtShared
  <1>2. WriterConsistent(u)
    BY <1>1 DEF LockInv, WriterConsistent
  <1>3. LocksNeedTrans(u)
    BY <1>1, SharedCacheAssumption DEF LockInv, LocksNeedTrans, BtShared
  <1>4. \A d \in Conns \ {c} : s.lock[d][t] \in {NoLock, e}
    BY DEF TableBlockers
  <1>5. e = WRITE_LOCK => \A d \in Conns \ {c} : s.lock[d][t] # WRITE_LOCK
    BY SharedCacheAssumption DEF LockInv, WriterConsistent, LocksNeedTrans, BtShared
  <1>6. LocksCompatible(u)
    BY <1>1, <1>4, <1>5 DEF LockInv, LocksCompatible, BtShared
  <1>7. QED
    BY <1>2, <1>3, <1>6 DEF LockInv

LEMMA SetPendingInv ==
  ASSUME NEW s \in BtShared, LockInv(s), NEW c \in Conns, NEW e,
         e = WRITE_LOCK => s.inTrans[c] = TRANS_WRITE
  PROVE  LockInv(SetPending(s, e))
  BY SharedCacheAssumption
     DEF SetPending, LockInv, WriterConsistent, LocksNeedTrans, LocksCompatible, BtShared

LEMMA EndTransInv ==
  ASSUME NEW s \in BtShared, LockInv(s), NEW c \in Conns, NEW n \in Nat
  PROVE  LockInv(btreeEndTransaction(s, c, n))
  <1> DEFINE u == btreeEndTransaction(s, c, n)
  <1>1. CASE s.inTrans[c] = TRANS_NONE
    BY <1>1 DEF btreeEndTransaction
  <1>2. CASE s.inTrans[c] # TRANS_NONE /\ n > 1
    <2>1. /\ \A d \in Conns : u.inTrans[d] = IF d = c THEN TRANS_READ ELSE s.inTrans[d]
          /\ \A d \in Conns, t \in Tables : u.lock[d][t] =
               IF s.pWriter = c /\ s.lock[d][t] # NoLock THEN READ_LOCK ELSE s.lock[d][t]
          /\ u.pWriter = IF s.pWriter = c THEN NoConn ELSE s.pWriter
          /\ u.btsFlags \subseteq s.btsFlags
          /\ s.pWriter = c => u.btsFlags = {}
      BY <1>2 DEF btreeEndTransaction, downgradeAllSharedCacheTableLocks, BtShared
    <2>2. WriterConsistent(u)
      BY <1>2, <2>1, SharedCacheAssumption DEF LockInv, WriterConsistent, BtShared
    <2>3. LocksNeedTrans(u)
      BY <1>2, <2>1, SharedCacheAssumption
         DEF LockInv, WriterConsistent, LocksNeedTrans, BtShared
    <2>4. LocksCompatible(u)
      BY <2>1 DEF LockInv, LocksCompatible, BtShared
    <2>5. QED
      BY <2>2, <2>3, <2>4 DEF LockInv
  <1>3. CASE s.inTrans[c] # TRANS_NONE /\ ~(n > 1)
    <2>1. /\ \A d \in Conns : u.inTrans[d] = IF d = c THEN TRANS_NONE ELSE s.inTrans[d]
          /\ \A d \in Conns, t \in Tables : u.lock[d][t] =
               IF d = c THEN NoLock ELSE s.lock[d][t]
          /\ u.pWriter = IF s.pWriter = c THEN NoConn ELSE s.pWriter
          /\ u.btsFlags \subseteq s.btsFlags
          /\ s.pWriter = c => u.btsFlags = {}
      BY <1>3 DEF btreeEndTransaction, clearAllSharedCacheTableLocks, BtShared
    <2>2. WriterConsistent(u)
      BY <1>3, <2>1, SharedCacheAssumption DEF LockInv, WriterConsistent, BtShared
    <2>3. LocksNeedTrans(u)
      BY <1>3, <2>1, SharedCacheAssumption DEF LockInv, LocksNeedTrans, BtShared
    <2>4. LocksCompatible(u)
      BY <2>1 DEF LockInv, LocksCompatible, BtShared
    <2>5. QED
      BY <2>2, <2>3, <2>4 DEF LockInv
  <1>4. QED
    BY <1>1, <1>2, <1>3

-----------------------------------------------------------------------------
(***************************************************************************)
(* A step of a statement as the rest of the proof sees it: the lock table  *)
(* keeps its type, notify.c is told of at most one new blocker, and the    *)
(* goroutine is in the application, has locks to announce, or is blocked.  *)
(***************************************************************************)

StepShape(c, r) ==
  /\ bt' \in BtShared /\ LockInv(bt')
  /\ autoCommit' \in [Conns -> BOOLEAN]
  /\ rows' \in [Conns -> 0 .. MaxRows]
  /\ stmt' \in [Conns -> Requests \cup {NoRequest}]
  /\ pc' \in [Conns -> PC]
  /\ pc' = [pc EXCEPT ![c] = pc'[c]]
  /\ pc'[c] \in {"ready", "unlocking", "blocked"}
  /\ stmt' = [stmt EXCEPT ![c] = stmt'[c]]
  /\ pc'[c] = "blocked" => stmt'[c] \in Requests
  /\ \/ UNCHANGED notifyVars
     \/ \E b \in Conns : sqlite3ConnectionBlocked(c, b)
  /\ UNCHANGED goVars

LEMMA RequestType ==
  ASSUME NEW r \in Requests
  PROVE  /\ r.wrflag \in 0 .. 2
         /\ r.tab # NoTable => r.tab \in Tables
         /\ TableLockOf(r) \in {READ_LOCK, WRITE_LOCK}
  BY UnlockNotifyAssumption
     DEF AllRequests, ReadOf, WriteOf, BeginImmediate, BeginExclusive, TableLockOf

LEMMA HaltShape ==
  ASSUME TypeOK, NEW c \in Conns, NEW s \in BtShared, LockInv(s), NEW n \in Nat,
         NEW r \in Requests \cup {NoRequest}, HaltWith(c, s, n, r)
  PROVE  /\ bt' \in BtShared /\ LockInv(bt')
         /\ stmt' \in [Conns -> Requests \cup {NoRequest}]
         /\ pc' \in [Conns -> PC]
         /\ pc' = [pc EXCEPT ![c] = pc'[c]]
         /\ pc'[c] \in {"ready", "unlocking", "blocked"}
         /\ stmt' = [stmt EXCEPT ![c] = stmt'[c]]
         /\ pc'[c] = "blocked" => stmt'[c] \in Requests
  <1>1. btreeEndTransaction(s, c, n) \in BtShared /\ LockInv(btreeEndTransaction(s, c, n))
    BY EndTransType, EndTransInv
  <1>2. QED
    BY <1>1 DEF HaltWith, TypeOK, PC

LEMMA StepHasShape ==
  ASSUME TypeOK, LockInv(bt), NEW c \in Conns, NEW r \in Requests, sqlite3_step(c, r)
  PROVE  StepShape(c, r)
  <1> DEFINE begun == btreeBeginTrans(bt, c, r.wrflag)
  <1>0. /\ r.wrflag \in 0 .. 2
        /\ r.tab # NoTable => r.tab \in Tables
        /\ TableLockOf(r) \in {READ_LOCK, WRITE_LOCK}
    BY RequestType
  <1>1. /\ bt \in BtShared /\ begun \in BtShared
        /\ rows[c] + 1 \in Nat
    BY <1>0, BeginTransType, UnlockNotifyAssumption DEF TypeOK
  <1>2. CASE StepBlockedAtTransaction(c, r)
    <2>1. \E b \in Conns : sqlite3ConnectionBlocked(c, b)
      BY <1>0, <1>1, <1>2, BlockersAreConns DEF StepBlockedAtTransaction
    <2>2. HaltWith(c, bt, rows[c] + 1, r)
      BY <1>2 DEF StepBlockedAtTransaction
    <2>3. QED
      BY <1>1, <1>2, <2>1, <2>2, HaltShape
         DEF StepBlockedAtTransaction, StepShape, TypeOK, sqlite3_step
  <1>3. CASE StepBlockedAtTable(c, r)
    <2>0. /\ BeginBlockers(bt, c, r.wrflag) = {}
          /\ r.wrflag > 0 <=> TableLockOf(r) = WRITE_LOCK
      BY <1>0, <1>3 DEF StepBlockedAtTable, TableLockOf
    <2>a. /\ LockInv(begun)
          /\ r.wrflag > 0 => begun.inTrans[c] = TRANS_WRITE
      BY <1>0, <1>1, <2>0, BeginTransInv DEF BtShared
    <2>1. \E b \in Conns : sqlite3ConnectionBlocked(c, b)
      BY <1>0, <1>1, <1>3, <2>a, BlockersAreConns DEF StepBlockedAtTable
    <2>2. HaltWith(c, SetPending(begun, TableLockOf(r)), rows[c] + 1, r)
      BY <1>3 DEF StepBlockedAtTable
    <2>3. /\ SetPending(begun, TableLockOf(r)) \in BtShared
          /\ LockInv(SetPending(begun, TableLockOf(r)))
      BY <1>1, <2>0, <2>a, SetPendingType, SetPendingInv
    <2>4. QED
      BY <1>1, <1>3, <2>1, <2>2, <2>3, HaltShape
         DEF StepBlockedAtTable, StepShape, TypeOK, sqlite3_step
  <1>4. CASE StepGranted(c, r)
    <2> DEFINE locked == setSharedCacheTableLock(begun, c, r.tab, TableLockOf(r))
    <2>0. BeginBlockers(bt, c, r.wrflag) = {}
      BY <1>4 DEF StepGranted
    <2>a. /\ LockInv(begun)
          /\ TableLockOf(r) <= begun.inTrans[c]
      BY <1>0, <1>1, <2>0, BeginTransInv DEF BtShared, TableLockOf
    <2>1. r.tab # NoTable => locked \in BtShared
      BY <1>0, <1>1, SetLockType
    <2>b. r.tab # NoTable /\ TableBlockers(begun, c, r.tab, TableLockOf(r)) = {}
            => LockInv(locked)
      BY <1>0, <1>1, <2>a, SetLockInv
    <2>2. CASE r.tab # NoTable /\ r.wrflag = 0
      <3>1. LockInv(locked)
        BY <1>4, <2>2, <2>b DEF StepGranted, TableLockOf
      <3>2. QED
        BY <1>4, <2>1, <2>2, <3>1, UnlockNotifyAssumption
           DEF StepGranted, StepShape, TypeOK, PC, sqlite3_step
    <2>3. CASE r.tab # NoTable /\ r.wrflag > 0
      <3>1. LockInv(locked) /\ HaltWith(c, locked, rows[c] + 1, NoRequest)
        BY <1>0, <1>4, <2>3, <2>b DEF StepGranted, TableLockOf
      <3>2. QED
        BY <1>1, <1>0, <1>4, <2>1, <2>3, <3>1, HaltShape
           DEF StepGranted, StepShape, TypeOK, sqlite3_step
    <2>4. CASE r.tab = NoTable
      BY <1>1, <1>4, <2>4, <2>a DEF StepGranted, StepShape, TypeOK, PC, sqlite3_step
    <2>5. QED
      BY <1>0, <2>2, <2>3, <2>4
  <1>5. QED
    BY <1>2, <1>3, <1>4 DEF sqlite3_step

-----------------------------------------------------------------------------
(***************************************************************************)
(* The inductive invariant.  A connection is registered with notify.c      *)
(* exactly while its goroutine is parked without a token; a parked         *)
(* goroutine has a channel of its own in the table.                        *)
(***************************************************************************)

Waiting(c) == pc[c] = "waiting"

WaitInv ==
  /\ \A c \in Conns : c \in blockedList <=> (pBlocking[c] # NoConn \/ pUnlock[c] # NoConn)
  /\ \A c \in Conns : pUnlock[c] # NoConn => Waiting(c)
  /\ \A c \in Conns : pUnlockArg[c] # NoHandle <=> pUnlock[c] # NoConn
  /\ \A c \in Conns : pUnlock[c] # NoConn => pUnlockArg[c] = handle[c]
  /\ \A c \in Conns : Waiting(c) => handle[c] \in DOMAIN table
  /\ \A c \in Conns : Waiting(c) =>
       table[handle[c]] = IF pUnlock[c] = NoConn THEN 1 ELSE 0
  /\ \A c, d \in Conns : Waiting(c) /\ Waiting(d) /\ c # d => handle[c] # handle[d]
  /\ \A c \in Conns : pc[c] \in {"blocked", "waiting", "running"} => stmt[c] \in Requests

IInv == TypeOK /\ LockInv(bt) /\ WaitInv

LEMMA InitIInv == Init => IInv
  <1> SUFFICES ASSUME Init PROVE IInv
    OBVIOUS
  <1>1. bt \in BtShared
    BY DEF Init, NewBtShared, BtShared
  <1>2. TypeOK
    BY <1>1, UnlockNotifyAssumption DEF Init, TypeOK, PC
  <1>a. LockInv(bt)
    BY SharedCacheAssumption
       DEF Init, NewBtShared, LockInv, WriterConsistent, LocksNeedTrans, LocksCompatible
  <1>3. WaitInv
    BY DEF Init, WaitInv, Waiting
  <1>4. QED
    BY <1>2, <1>3, <1>a DEF IInv

\* A step of a statement, first try or retry, keeps the invariant.
LEMMA StepKeepsIInv ==
  ASSUME IInv, NEW c \in Conns, pc[c] \in {"ready", "running"}, NEW r \in Requests,
         sqlite3_step(c, r)
  PROVE  IInv'
  <1>1. StepShape(c, r)
    BY StepHasShape DEF IInv
  <1>2. CASE UNCHANGED notifyVars
    <2>1. TypeOK'
      BY <1>1, <1>2 DEF IInv, TypeOK, StepShape, notifyVars, goVars
    <2>2. WaitInv'
      BY <1>1, <1>2 DEF IInv, TypeOK, WaitInv, Waiting, StepShape, notifyVars, goVars
    <2>3. QED
      BY <1>1, <2>1, <2>2 DEF IInv, StepShape
  <1>3. ASSUME NEW b \in Conns, sqlite3ConnectionBlocked(c, b)
        PROVE  IInv'
    <2>1. TypeOK'
      BY <1>1, <1>3 DEF IInv, TypeOK, StepShape, sqlite3ConnectionBlocked, goVars
    <2>a. /\ \A d \in Conns : Waiting(d)' <=> Waiting(d)
          /\ ~Waiting(c)
          /\ UNCHANGED <<table, handle, pUnlock, pUnlockArg>>
      BY <1>1, <1>3 DEF IInv, TypeOK, Waiting, StepShape, sqlite3ConnectionBlocked, goVars
    <2>b. pUnlock[c] = NoConn
      BY <2>a DEF IInv, WaitInv
    <2>c. \A d \in Conns : d \in blockedList' <=> (pBlocking'[d] # NoConn \/ pUnlock'[d] # NoConn)
      BY <1>3, <2>a, <2>b, SharedCacheAssumption
         DEF IInv, TypeOK, WaitInv, sqlite3ConnectionBlocked
    <2>d. \A d \in Conns : pc'[d] \in {"blocked", "waiting", "running"} => stmt'[d] \in Requests
      BY <1>1 DEF IInv, TypeOK, WaitInv, StepShape
    <2>2. WaitInv'
      BY <2>a, <2>c, <2>d DEF IInv, WaitInv
    <2>3. QED
      BY <1>1, <2>1, <2>2 DEF IInv, StepShape
  <1>4. QED
    BY <1>1, <1>2, <1>3 DEF StepShape

\* sqlite3ConnectionUnlocked or sqlite3ConnectionClosed: the waiters of c, and only
\* they, get their token and are forgotten.  "kept" is what is left of pBlocking.
LEMMA WakeKeepsWaitInv ==
  ASSUME IInv, NEW c \in Conns,
         NEW kept \in [Conns -> Conns \cup {NoConn}],
         pBlocking' = kept,
         pUnlock' = [p \in Conns |-> IF p \in WaitersOf(c) THEN NoConn ELSE pUnlock[p]],
         pUnlockArg' = [p \in Conns |-> IF p \in WaitersOf(c) THEN NoHandle
                                        ELSE pUnlockArg[p]],
         blockedList' = {p \in Conns : kept[p] # NoConn \/ pUnlock[p] \notin {c, NoConn}},
         unlock_notify_callback({pUnlockArg[p] : p \in WaitersOf(c)}),
         UNCHANGED <<handle, stmt>>,
         \A d \in Conns : Waiting(d)' <=> Waiting(d),
         \A d \in Conns : pc'[d] \in {"blocked", "waiting", "running"} => stmt[d] \in Requests
  PROVE  /\ WaitInv'
         /\ DOMAIN table' = DOMAIN table
         /\ \A h \in DOMAIN table : table'[h] \in {0, 1}
  <1>1. WaitersOf(c) = {p \in Conns : pUnlock[p] = c}
    BY SharedCacheAssumption DEF IInv, TypeOK, WaitInv, WaitersOf
  <1>2. /\ DOMAIN table' = DOMAIN table
        /\ \A h \in DOMAIN table : table'[h] =
             table[h] + (IF \E p \in WaitersOf(c) : pUnlockArg[p] = h THEN 1 ELSE 0)
    BY DEF unlock_notify_callback
  <1>3. \A p \in WaitersOf(c) :
          /\ p \in Conns /\ Waiting(p) /\ pUnlock[p] # NoConn
          /\ pUnlockArg[p] = handle[p] /\ table[handle[p]] = 0
    BY <1>1, SharedCacheAssumption DEF IInv, WaitInv
  <1>4. \A h \in DOMAIN table : table'[h] \in {0, 1}
    BY <1>2, <1>3 DEF IInv, TypeOK
  <1>5. \A d \in Conns : Waiting(d) =>
          ((\E p \in WaitersOf(c) : pUnlockArg[p] = handle[d]) <=> d \in WaitersOf(c))
    BY <1>3 DEF IInv, WaitInv
  <1>6. \A d \in Conns : Waiting(d) =>
          table'[handle[d]] = IF pUnlock'[d] = NoConn THEN 1 ELSE 0
    <2>1. SUFFICES ASSUME NEW d \in Conns, Waiting(d)
                   PROVE  table'[handle[d]] = IF pUnlock'[d] = NoConn THEN 1 ELSE 0
      OBVIOUS
    <2>2. /\ handle[d] \in DOMAIN table
          /\ table[handle[d]] = IF pUnlock[d] = NoConn THEN 1 ELSE 0
      BY <2>1 DEF IInv, WaitInv
    <2>3. table'[handle[d]] = table[handle[d]] + (IF d \in WaitersOf(c) THEN 1 ELSE 0)
      BY <1>2, <1>5, <2>1, <2>2
    <2>4. d \in WaitersOf(c) => pUnlock[d] # NoConn
      BY <1>3
    <2>5. pUnlock'[d] = IF d \in WaitersOf(c) THEN NoConn ELSE pUnlock[d]
      OBVIOUS
    <2>6. QED
      BY <2>2, <2>3, <2>4, <2>5
  <1>7. \A d \in Conns : d \in blockedList' <=> (pBlocking'[d] # NoConn \/ pUnlock'[d] # NoConn)
    BY <1>1
  <1>8. QED
    BY <1>1, <1>2, <1>4, <1>6, <1>7 DEF IInv, WaitInv

\* unlock_notify_wait takes a new channel: with a token, or registered without one.
LEMMA AddHandleKeepsIInv ==
  ASSUME IInv, NEW c \in Conns, pc[c] = "blocked", DOMAIN table # Handles,
         UNCHANGED <<lockVars, pBlocking, stmt>>,
         \/ /\ AddHandle(c, 1)
            /\ UNCHANGED notifyVars
         \/ /\ AddHandle(c, 0)
            /\ pBlocking[c] # NoConn
            /\ pUnlock' = [pUnlock EXCEPT ![c] = pBlocking[c]]
            /\ pUnlockArg' = [pUnlockArg EXCEPT ![c] = FreshHandle]
            /\ blockedList' = blockedList \cup {c}
  PROVE  IInv'
  <1>1. FreshHandle \in Handles /\ FreshHandle \notin DOMAIN table
    BY DEF FreshHandle, IInv, TypeOK
  <1>2. ~Waiting(c) /\ pUnlock[c] = NoConn /\ pUnlockArg[c] = NoHandle
    BY DEF IInv, WaitInv, Waiting
  <1>3. PICK k \in {0, 1} :
          /\ AddHandle(c, k)
          /\ k = 1 => UNCHANGED notifyVars
          /\ k = 0 => /\ pBlocking[c] # NoConn
                      /\ pUnlock' = [pUnlock EXCEPT ![c] = pBlocking[c]]
                      /\ pUnlockArg' = [pUnlockArg EXCEPT ![c] = FreshHandle]
                      /\ blockedList' = blockedList \cup {c}
    OBVIOUS
  <1>4. /\ DOMAIN table' = DOMAIN table \cup {FreshHandle}
        /\ table'[FreshHandle] = k
        /\ \A h \in DOMAIN table : table'[h] = table[h]
        /\ handle' = [handle EXCEPT ![c] = FreshHandle]
        /\ pc' = [pc EXCEPT ![c] = "waiting"]
    BY <1>1, <1>3 DEF AddHandle
  <1>5. TypeOK'
    BY <1>1, <1>3, <1>4 DEF IInv, TypeOK, PC, lockVars, notifyVars
  <1>6. \A d \in Conns : Waiting(d)' <=> (Waiting(d) \/ d = c)
    BY <1>4 DEF IInv, TypeOK, Waiting
  <1>7. \A d \in Conns : /\ handle'[d] = IF d = c THEN FreshHandle ELSE handle[d]
                         /\ Waiting(d) => handle[d] \in DOMAIN table
    BY <1>4 DEF IInv, TypeOK, WaitInv
  <1>8. \A d \in Conns :
          /\ d # c => pUnlock'[d] = pUnlock[d] /\ pUnlockArg'[d] = pUnlockArg[d]
          /\ d = c /\ k = 1 => pUnlock'[d] = NoConn /\ pUnlockArg'[d] = NoHandle
          /\ d = c /\ k = 0 => pUnlock'[d] # NoConn /\ pUnlockArg'[d] = FreshHandle
    BY <1>2, <1>3 DEF IInv, TypeOK, notifyVars
  <1>9. WaitInv'
    <2>1. \A d \in Conns : d \in blockedList' <=> (pBlocking'[d] # NoConn \/ pUnlock'[d] # NoConn)
      BY <1>3, <1>8 DEF IInv, WaitInv, notifyVars
    <2>2. \A d \in Conns : Waiting(d)' =>
            /\ handle'[d] \in DOMAIN table'
            /\ table'[handle'[d]] = IF pUnlock'[d] = NoConn THEN 1 ELSE 0
      BY <1>1, <1>4, <1>6, <1>7, <1>8 DEF IInv, WaitInv
    <2>3. \A d, e \in Conns : Waiting(d)' /\ Waiting(e)' /\ d # e => handle'[d] # handle'[e]
      BY <1>1, <1>6, <1>7 DEF IInv, WaitInv
    <2>4. \A d \in Conns : /\ pUnlock'[d] # NoConn => Waiting(d)'
                           /\ pUnlockArg'[d] # NoHandle <=> pUnlock'[d] # NoConn
                           /\ pUnlock'[d] # NoConn => pUnlockArg'[d] = handle'[d]
      BY <1>1, <1>6, <1>7, <1>8, UnlockNotifyAssumption DEF IInv, WaitInv
    <2>5. \A d \in Conns : pc'[d] \in {"blocked", "waiting", "running"} => stmt'[d] \in Requests
      BY <1>4 DEF IInv, TypeOK, WaitInv
    <2>6. QED
      BY <2>1, <2>2, <2>3, <2>4, <2>5 DEF WaitInv
  <1>10. QED
    BY <1>5, <1>9 DEF IInv, lockVars

LEMMA NextKeepsIInv == IInv /\ [Next]_vars => IInv'
  <1> SUFFICES ASSUME IInv, [Next]_vars PROVE IInv'
    OBVIOUS
  <1>1. ASSUME NEW c \in Conns, NEW r \in Requests, Exec(c, r)
        PROVE  IInv'
    BY <1>1, StepKeepsIInv DEF Exec
  <1>2. ASSUME NEW c \in Conns, BeginDeferred(c)
        PROVE  IInv'
    BY <1>2 DEF BeginDeferred, IInv, TypeOK, WaitInv, Waiting, notifyVars, goVars
  <1>3. ASSUME NEW c \in Conns, CloseRows(c)
        PROVE  IInv'
    <2>0. /\ HaltWith(c, bt, rows[c], NoRequest) /\ bt \in BtShared
          /\ rows[c] \in Nat
      BY <1>3, UnlockNotifyAssumption DEF CloseRows, IInv, TypeOK
    <2>1. /\ bt' \in BtShared /\ LockInv(bt')
          /\ stmt' \in [Conns -> Requests \cup {NoRequest}]
          /\ pc' \in [Conns -> PC]
          /\ pc' = [pc EXCEPT ![c] = pc'[c]]
          /\ pc'[c] \in {"ready", "unlocking", "blocked"}
          /\ stmt' = [stmt EXCEPT ![c] = stmt'[c]]
          /\ pc'[c] = "blocked" => stmt'[c] \in Requests
      BY <2>0, HaltShape DEF IInv
    <2>2. TypeOK'
      BY <1>3, <2>1, UnlockNotifyAssumption DEF CloseRows, IInv, TypeOK, notifyVars, goVars
    <2>3. WaitInv'
      BY <1>3, <2>1 DEF CloseRows, IInv, TypeOK, WaitInv, Waiting, notifyVars, goVars
    <2>4. QED
      BY <2>1, <2>2, <2>3 DEF IInv
  <1>4. ASSUME NEW c \in Conns, EndTx(c)
        PROVE  IInv'
    <2>1. bt' \in BtShared /\ LockInv(bt')
      BY <1>4, EndTransType, EndTransInv, UnlockNotifyAssumption DEF EndTx, IInv, TypeOK
    <2>2. QED
      BY <1>4, <2>1 DEF EndTx, IInv, TypeOK, PC, WaitInv, Waiting, notifyVars, goVars
  <1>5. ASSUME NEW c \in Conns, Close(c)
        PROVE  IInv'
    <2>1. bt' \in BtShared /\ LockInv(bt')
      BY <1>5, EndTransType, EndTransInv DEF Close, IInv, TypeOK
    <2>2. QED
      BY <1>5, <2>1 DEF Close, IInv, TypeOK, PC, WaitInv, Waiting, notifyVars, goVars
  <1>6. ASSUME NEW c \in Conns, Unlocked(c)
        PROVE  IInv'
    <2> DEFINE kept == [p \in Conns |-> IF p \in blockedList /\ pBlocking[p] = c
                                        THEN NoConn ELSE pBlocking[p]]
    <2>1. kept \in [Conns -> Conns \cup {NoConn}]
      BY DEF IInv, TypeOK
    <2>2. /\ \A p \in Conns : kept[p] # NoConn => p \in blockedList
          /\ \A p \in Conns : pUnlock[p] # NoConn => p \in blockedList
          /\ blockedList \subseteq Conns
      BY DEF IInv, TypeOK, WaitInv
    <2>3. blockedList' = {p \in Conns : kept[p] # NoConn \/ pUnlock[p] \notin {c, NoConn}}
      BY <1>6, <2>2 DEF Unlocked, sqlite3ConnectionUnlocked
    <2>4. /\ \A d \in Conns : Waiting(d)' <=> Waiting(d)
          /\ \A d \in Conns : pc'[d] \in {"blocked", "waiting", "running"} => stmt[d] \in Requests
          /\ pc' \in [Conns -> PC]
      BY <1>6 DEF Unlocked, IInv, TypeOK, PC, WaitInv, Waiting
    <2>5. /\ WaitInv'
          /\ DOMAIN table' = DOMAIN table
          /\ \A h \in DOMAIN table : table'[h] \in {0, 1}
      BY <1>6, <2>1, <2>3, <2>4, WakeKeepsWaitInv DEF Unlocked, sqlite3ConnectionUnlocked
    <2>6. TypeOK'
      BY <1>6, <2>1, <2>3, <2>4, <2>5
         DEF Unlocked, sqlite3ConnectionUnlocked, IInv, TypeOK, lockVars
    <2>7. QED
      BY <1>6, <2>5, <2>6 DEF Unlocked, IInv, lockVars
  <1>7. ASSUME NEW c \in Conns, sqlite3ConnectionClosed(c)
        PROVE  IInv'
    <2> DEFINE kept == [p \in Conns |-> IF p = c \/ (p \in blockedList /\ pBlocking[p] = c)
                                        THEN NoConn ELSE pBlocking[p]]
    <2>1. kept \in [Conns -> Conns \cup {NoConn}]
      BY DEF IInv, TypeOK
    <2>2. /\ \A p \in Conns : kept[p] # NoConn => p \in blockedList \ {c}
          /\ \A p \in Conns : pUnlock[p] # NoConn => p \in blockedList \ {c}
          /\ blockedList \subseteq Conns
      BY <1>7 DEF sqlite3ConnectionClosed, IInv, TypeOK, WaitInv, Waiting
    <2>3. blockedList' = {p \in Conns : kept[p] # NoConn \/ pUnlock[p] \notin {c, NoConn}}
      BY <1>7, <2>2 DEF sqlite3ConnectionClosed
    <2>4. /\ \A d \in Conns : Waiting(d)' <=> Waiting(d)
          /\ \A d \in Conns : pc'[d] \in {"blocked", "waiting", "running"} => stmt[d] \in Requests
          /\ pc' \in [Conns -> PC]
      BY <1>7 DEF sqlite3ConnectionClosed, IInv, TypeOK, PC, WaitInv, Waiting
    <2>5. /\ WaitInv'
          /\ DOMAIN table' = DOMAIN table
          /\ \A h \in DOMAIN table : table'[h] \in {0, 1}
      BY <1>7, <2>1, <2>3, <2>4, WakeKeepsWaitInv DEF sqlite3ConnectionClosed
    <2>6. TypeOK'
      BY <1>7, <2>1, <2>3, <2>4, <2>5 DEF sqlite3ConnectionClosed, IInv, TypeOK
    <2>7. QED
      BY <1>7, <2>5, <2>6 DEF sqlite3ConnectionClosed, IInv
  <1>8. ASSUME NEW c \in Conns, WaitNoBlocker(c)
        PROVE  IInv'
    BY <1>8, AddHandleKeepsIInv DEF WaitNoBlocker, lockVars, notifyVars
  <1>9. ASSUME NEW c \in Conns, WaitDeadlock(c)
        PROVE  IInv'
    BY <1>9 DEF WaitDeadlock, IInv, TypeOK, PC, WaitInv, Waiting, lockVars, notifyVars, goVars
  <1>10. ASSUME NEW c \in Conns, WaitRegistered(c)
         PROVE  IInv'
    BY <1>10, AddHandleKeepsIInv DEF WaitRegistered
  <1>11. ASSUME NEW c \in Conns, Receive(c)
         PROVE  IInv'
    <2>1. /\ Waiting(c) /\ pUnlock[c] = NoConn
          /\ \A d \in Conns : d # c /\ Waiting(d) => handle[d] # handle[c]
      BY <1>11 DEF Receive, IInv, TypeOK, WaitInv, Waiting
    <2>2. TypeOK'
      BY <1>11 DEF Receive, IInv, TypeOK, PC, lockVars, notifyVars
    <2>3. WaitInv'
      BY <1>11, <2>1 DEF Receive, IInv, TypeOK, WaitInv, Waiting, notifyVars
    <2>4. QED
      BY <1>11, <2>2, <2>3 DEF Receive, IInv, lockVars
  <1>12. ASSUME NEW c \in Conns, Retry(c)
         PROVE  IInv'
    <2>1. stmt[c] \in Requests
      BY <1>12 DEF Retry, IInv, WaitInv
    <2>2. QED
      BY <1>12, <2>1, StepKeepsIInv DEF Retry
  <1>13. CASE UNCHANGED vars
    BY <1>13 DEF vars, lockVars, notifyVars, goVars, IInv, TypeOK, WaitInv, Waiting
  <1>14. QED
    BY <1>1, <1>2, <1>3, <1>4, <1>5, <1>6, <1>7, <1>8, <1>9, <1>10, <1>11, <1>12, <1>13
       DEF Next


-----------------------------------------------------------------------------
(***************************************************************************)
(* Whoever is waited for will announce its end.  This needs no more than   *)
(* IInv: a blocker owns a lock, so it is in a transaction, and it leaves   *)
(* the transaction only into "unlocking" or "closing".                     *)
(***************************************************************************)

LEMMA BlockersInTrans ==
  ASSUME NEW s \in BtShared, LockInv(s), NEW c \in Conns, NEW w \in 0 .. 2,
         NEW t \in Tables, NEW e
  PROVE  /\ \A b \in TableBlockers(s, c, t, e) : b # c /\ s.inTrans[b] # TRANS_NONE
         /\ \A b \in BeginBlockers(s, c, w) : b # c /\ s.inTrans[b] # TRANS_NONE
  <1>0. Schema \in Tables
    BY SharedCacheAssumption
  <1>1. \A d \in Conns, u \in Tables : s.lock[d][u] # NoLock => s.inTrans[d] # TRANS_NONE
    BY DEF LockInv, LocksNeedTrans, BtShared
  <1>2. s.btsFlags # {} \/ WriteTransOpen(s) =>
          s.pWriter \in Conns /\ s.inTrans[s.pWriter] = TRANS_WRITE
    BY DEF LockInv, WriterConsistent, WriteTransOpen, BtShared
  <1>3. \A u \in Tables : \A k : \A b \in TableBlockers(s, c, u, k) :
          b # c /\ s.inTrans[b] # TRANS_NONE
    BY <1>1, <1>2 DEF TableBlockers
  <1>4. \A b \in BeginBlockers(s, c, w) : b # c /\ s.inTrans[b] # TRANS_NONE
    BY <1>0, <1>1, <1>2, <1>3 DEF BeginBlockers, LockOwners, TransOpen
  <1>5. QED
    BY <1>3, <1>4

\* What a step of a statement does to the transactions: only c's changes, c ends its
\* transaction only to announce it, and a new blocker is in a transaction.
StepTrans(c) ==
  /\ \A d \in Conns \ {c} : bt'.inTrans[d] = bt.inTrans[d]
  /\ bt'.inTrans[c] = TRANS_NONE /\ bt.inTrans[c] # TRANS_NONE => pc'[c] = "unlocking"
  /\ \/ UNCHANGED notifyVars
     \/ \E b \in Conns \ {c} : /\ bt.inTrans[b] # TRANS_NONE
                               /\ sqlite3ConnectionBlocked(c, b)

LEMMA HaltTrans ==
  ASSUME TypeOK, NEW c \in Conns, NEW s \in BtShared, NEW n \in Nat, NEW r,
         HaltWith(c, s, n, r)
  PROVE  /\ \A d \in Conns \ {c} : bt'.inTrans[d] = s.inTrans[d]
         /\ bt'.inTrans[c] = s.inTrans[c] \/ pc'[c] = "unlocking"
  <1>1. \A d \in Conns \ {c} : btreeEndTransaction(s, c, n).inTrans[d] = s.inTrans[d]
    BY DEF btreeEndTransaction, clearAllSharedCacheTableLocks,
           downgradeAllSharedCacheTableLocks, BtShared
  <1>2. QED
    BY <1>1 DEF HaltWith, TypeOK

LEMMA StepHasTrans ==
  ASSUME TypeOK, LockInv(bt), NEW c \in Conns, NEW r \in Requests, sqlite3_step(c, r)
  PROVE  StepTrans(c)
  <1> DEFINE begun == btreeBeginTrans(bt, c, r.wrflag)
  <1>0. /\ r.wrflag \in 0 .. 2
        /\ r.tab # NoTable => r.tab \in Tables
        /\ TableLockOf(r) \in {READ_LOCK, WRITE_LOCK}
        /\ Schema \in Tables
    BY RequestType, SharedCacheAssumption
  <1>1. /\ bt \in BtShared /\ begun \in BtShared
        /\ rows[c] + 1 \in Nat
    BY <1>0, BeginTransType, UnlockNotifyAssumption DEF TypeOK
  <1>2. /\ \A d \in Conns \ {c} : begun.inTrans[d] = bt.inTrans[d]
        /\ bt.inTrans[c] # TRANS_NONE => begun.inTrans[c] # TRANS_NONE
    BY <1>1 DEF btreeBeginTrans, BtShared
  <1>3. CASE StepBlockedAtTransaction(c, r)
    <2>1. PICK b \in BeginBlockers(bt, c, r.wrflag) : sqlite3ConnectionBlocked(c, b)
      BY <1>3 DEF StepBlockedAtTransaction
    <2>2. b \in Conns \ {c} /\ bt.inTrans[b] # TRANS_NONE
      BY <1>0, <1>1, BlockersInTrans, BlockersAreConns
    <2>3. HaltWith(c, bt, rows[c] + 1, r)
      BY <1>3 DEF StepBlockedAtTransaction
    <2>4. QED
      BY <1>1, <2>1, <2>2, <2>3, HaltTrans DEF StepTrans
  <1>4. CASE StepBlockedAtTable(c, r)
    <2>0. r.tab \in Tables /\ BeginBlockers(bt, c, r.wrflag) = {}
      BY <1>0, <1>4 DEF StepBlockedAtTable
    <2>a. LockInv(begun)
      BY <1>0, <1>1, <2>0, BeginTransInv
    <2>1. PICK b \in TableBlockers(begun, c, r.tab, TableLockOf(r)) :
            sqlite3ConnectionBlocked(c, b)
      BY <1>4 DEF StepBlockedAtTable
    <2>2. b \in Conns \ {c} /\ bt.inTrans[b] # TRANS_NONE
      BY <1>0, <1>1, <1>2, <2>0, <2>a, BlockersInTrans, BlockersAreConns
    <2>3. HaltWith(c, SetPending(begun, TableLockOf(r)), rows[c] + 1, r)
      BY <1>4 DEF StepBlockedAtTable
    <2>4. /\ SetPending(begun, TableLockOf(r)) \in BtShared
          /\ SetPending(begun, TableLockOf(r)).inTrans = begun.inTrans
      BY <1>1, SetPendingType DEF SetPending, BtShared
    <2>5. QED
      BY <1>1, <1>2, <2>1, <2>2, <2>3, <2>4, HaltTrans DEF StepTrans
  <1>5. CASE StepGranted(c, r)
    <2> DEFINE locked == setSharedCacheTableLock(begun, c, r.tab, TableLockOf(r))
    <2>a. \A s \in BtShared : \A t, e :
            setSharedCacheTableLock(s, c, t, e).inTrans = s.inTrans
      BY DEF setSharedCacheTableLock, BtShared
    <2>1. r.tab # NoTable => locked \in BtShared /\ locked.inTrans = begun.inTrans
      BY <1>0, <1>1, <2>a, SetLockType
    <2>2. CASE r.tab # NoTable /\ r.wrflag = 0
      BY <1>2, <1>5, <2>1, <2>2 DEF StepGranted, StepTrans
    <2>3. CASE r.tab # NoTable /\ r.wrflag > 0
      <3>1. HaltWith(c, locked, rows[c] + 1, NoRequest)
        BY <1>0, <1>5, <2>3 DEF StepGranted
      <3>2. QED
        BY <1>1, <1>2, <1>5, <2>1, <2>3, <3>1, HaltTrans DEF StepGranted, StepTrans
    <2>4. CASE r.tab = NoTable
      BY <1>2, <1>5, <2>4 DEF StepGranted, StepTrans
    <2>5. QED
      BY <1>0, <2>2, <2>3, <2>4
  <1>6. QED
    BY <1>3, <1>4, <1>5 DEF sqlite3_step

Announces(b) == bt.inTrans[b] # TRANS_NONE \/ pc[b] \in {"unlocking", "closing"}

LEMMA StepKeepsAnnounce ==
  ASSUME IInv, BlockerWillAnnounce, NEW c \in Conns, pc[c] \in {"ready", "running"},
         NEW r \in Requests, sqlite3_step(c, r)
  PROVE  BlockerWillAnnounce'
  <1>1. StepShape(c, r) /\ StepTrans(c)
    BY StepHasShape, StepHasTrans DEF IInv
  <1>2. \A b \in Conns : Announces(b) => Announces(b)'
    BY <1>1 DEF StepShape, StepTrans, Announces, IInv, TypeOK
  <1>3. \A d \in Conns, b \in Conns :
          b \in {pBlocking'[d], pUnlock'[d]} =>
            b \in {pBlocking[d], pUnlock[d]} \/ bt.inTrans[b] # TRANS_NONE
    BY <1>1 DEF StepTrans, sqlite3ConnectionBlocked, notifyVars, IInv, TypeOK
  <1>4. TypeOK'
    BY StepKeepsIInv DEF IInv
  <1>5. QED
    BY <1>2, <1>3, <1>4 DEF BlockerWillAnnounce, Announces, TypeOK

LEMMA NextKeepsAnnounce == IInv /\ BlockerWillAnnounce /\ [Next]_vars => BlockerWillAnnounce'
  <1> SUFFICES ASSUME IInv, BlockerWillAnnounce, [Next]_vars
               PROVE  BlockerWillAnnounce'
    OBVIOUS
  <1> USE DEF BlockerWillAnnounce
  <1>1. ASSUME NEW c \in Conns, NEW r \in Requests, Exec(c, r)
        PROVE  BlockerWillAnnounce'
    BY <1>1, StepKeepsAnnounce DEF Exec
  <1>2. ASSUME NEW c \in Conns, BeginDeferred(c)
        PROVE  BlockerWillAnnounce'
    BY <1>2 DEF BeginDeferred, notifyVars
  <1>3. ASSUME NEW c \in Conns, CloseRows(c)
        PROVE  BlockerWillAnnounce'
    <2>1. /\ HaltWith(c, bt, rows[c], NoRequest) /\ bt \in BtShared
          /\ rows[c] \in Nat
      BY <1>3, UnlockNotifyAssumption DEF CloseRows, IInv, TypeOK
    <2>2. \A d \in Conns \ {c} : pc'[d] = pc[d]
      BY <2>1 DEF HaltWith, IInv, TypeOK
    <2>3. \A b \in Conns : Announces(b) => Announces(b)'
      BY <1>3, <2>1, <2>2, HaltTrans DEF CloseRows, Announces, IInv
    <2>4. QED
      BY <1>3, <2>3 DEF CloseRows, notifyVars, Announces, IInv, TypeOK
  <1>4. ASSUME NEW c \in Conns, EndTx(c) \/ Close(c)
        PROVE  BlockerWillAnnounce'
    <2>1. \A n : \A d \in Conns \ {c} : btreeEndTransaction(bt, c, n).inTrans[d] = bt.inTrans[d]
      BY DEF btreeEndTransaction, clearAllSharedCacheTableLocks,
             downgradeAllSharedCacheTableLocks, IInv, TypeOK, BtShared
    <2>2. \A b \in Conns : Announces(b) => Announces(b)'
      BY <1>4, <2>1 DEF EndTx, Close, Announces, IInv, TypeOK
    <2>3. QED
      BY <1>4, <2>2 DEF EndTx, Close, notifyVars, Announces, IInv, TypeOK
  <1>5. ASSUME NEW c \in Conns, Unlocked(c) \/ sqlite3ConnectionClosed(c)
        PROVE  BlockerWillAnnounce'
    <2>1. \A d \in Conns : (pBlocking[d] # NoConn \/ pUnlock[d] # NoConn) => d \in blockedList
      BY DEF IInv, WaitInv
    <2>2. \A d \in Conns : /\ pBlocking'[d] \in {pBlocking[d], NoConn} \ {c}
                           /\ pUnlock'[d] \in {pUnlock[d], NoConn} \ {c}
      BY <1>5, <2>1, SharedCacheAssumption
         DEF Unlocked, sqlite3ConnectionUnlocked, sqlite3ConnectionClosed, WaitersOf
    <2>3. \A b \in Conns \ {c} : Announces(b) => Announces(b)'
      BY <1>5 DEF Unlocked, sqlite3ConnectionClosed, lockVars, Announces, IInv, TypeOK
    <2>4. QED
      BY <2>2, <2>3 DEF Announces, IInv, TypeOK
  <1>6. ASSUME NEW c \in Conns,
               WaitNoBlocker(c) \/ WaitDeadlock(c) \/ WaitRegistered(c) \/ Receive(c)
        PROVE  BlockerWillAnnounce'
    <2>1. \A d \in Conns : /\ pBlocking'[d] = pBlocking[d]
                           /\ pUnlock'[d] \in {pUnlock[d], pBlocking[d]}
      BY <1>6 DEF WaitNoBlocker, WaitDeadlock, WaitRegistered, Receive, notifyVars, IInv, TypeOK
    <2>2. \A b \in Conns : Announces(b) => Announces(b)'
      BY <1>6 DEF WaitNoBlocker, WaitDeadlock, WaitRegistered, Receive, AddHandle, lockVars,
                  Announces, IInv, TypeOK
    <2>3. QED
      BY <2>1, <2>2 DEF Announces, IInv, TypeOK
  <1>7. ASSUME NEW c \in Conns, Retry(c)
        PROVE  BlockerWillAnnounce'
    <2>1. stmt[c] \in Requests
      BY <1>7 DEF Retry, IInv, WaitInv
    <2>2. QED
      BY <1>7, <2>1, StepKeepsAnnounce DEF Retry
  <1>8. CASE UNCHANGED vars
    BY <1>8 DEF vars, lockVars, notifyVars
  <1>9. QED
    BY <1>1, <1>2, <1>3, <1>4, <1>5, <1>6, <1>7, <1>8 DEF Next

-----------------------------------------------------------------------------
(***************************************************************************)
(* The wait graph: pUnlock changes in two ways only, and neither closes a  *)
(* circle.                                                                 *)
(***************************************************************************)

WakeAll(c) == pUnlock' = [p \in Conns |-> IF pUnlock[p] = c THEN NoConn ELSE pUnlock[p]]

LEMMA GraphSteps ==
  ASSUME IInv, [Next]_vars
  PROVE  \/ UNCHANGED pUnlock
         \/ \E c \in Conns : WakeAll(c)
         \/ \E c \in Conns : WaitRegistered(c)
  <1>1. ASSUME NEW c \in Conns, NEW r \in Requests, sqlite3_step(c, r)
        PROVE  UNCHANGED pUnlock
    BY <1>1 DEF sqlite3_step, StepBlockedAtTransaction, StepBlockedAtTable, StepGranted,
                sqlite3ConnectionBlocked, notifyVars
  <1>2. ASSUME NEW c \in Conns, NEW r \in Requests, Exec(c, r)
        PROVE  UNCHANGED pUnlock
    BY <1>1, <1>2 DEF Exec
  <1>3. ASSUME NEW c \in Conns, Retry(c)
        PROVE  UNCHANGED pUnlock
    BY <1>1, <1>3 DEF Retry, IInv, WaitInv
  <1>4. ASSUME NEW c \in Conns, Unlocked(c) \/ sqlite3ConnectionClosed(c)
        PROVE  WakeAll(c)
    <2>1. \A p \in Conns : p \in WaitersOf(c) <=> pUnlock[p] = c
      BY SharedCacheAssumption DEF WaitersOf, IInv, WaitInv
    <2>2. QED
      BY <1>4, <2>1 DEF Unlocked, sqlite3ConnectionUnlocked, sqlite3ConnectionClosed, WakeAll
  <1>5. ASSUME NEW c \in Conns,
               \/ BeginDeferred(c) \/ CloseRows(c) \/ EndTx(c) \/ Close(c)
               \/ WaitNoBlocker(c) \/ WaitDeadlock(c) \/ Receive(c)
        PROVE  UNCHANGED pUnlock
    BY <1>5 DEF BeginDeferred, CloseRows, EndTx, Close, WaitNoBlocker, WaitDeadlock, Receive,
                notifyVars
  <1>6. CASE UNCHANGED vars
    BY <1>6 DEF vars, notifyVars
  <1>7. QED
    BY <1>2, <1>3, <1>4, <1>5, <1>6 DEF Next

LEMMA NextKeepsAcyclic ==
  ASSUME IInv, NoWaitCycle, [Next]_vars
  PROVE  NoWaitCycle'
  <1>1. ASSUME \A d \in Conns : pUnlock'[d] \in {pUnlock[d], NoConn}
        PROVE  NoWaitCycle'
    BY <1>1, SharedCacheAssumption DEF NoWaitCycle
  <1>2. ASSUME NEW c \in Conns, WaitRegistered(c)
        PROVE  NoWaitCycle'
    <2> DEFINE b == pBlocking[c]
    <2>1. SUFFICES ASSUME NEW S \in SUBSET Conns, S # {}, \A d \in S : pUnlock'[d] \in S
                   PROVE  FALSE
      BY DEF NoWaitCycle
    <2>2. \A d \in Conns : pUnlock'[d] = IF d = c THEN b ELSE pUnlock[d]
      BY <1>2 DEF WaitRegistered, IInv, TypeOK
    <2>3. c \in S
      BY <2>1, <2>2 DEF NoWaitCycle
    <2>4. PICK R \in SUBSET Conns : /\ b \in R /\ c \notin R
                                    /\ \A p \in R : pUnlock[p] \in R \cup {NoConn}
      BY <1>2 DEF WaitRegistered, WaitsOn
    <2>5. b \in S \cap R
      BY <2>1, <2>2, <2>3, <2>4
    <2>6. \A d \in S \cap R : pUnlock[d] \in S \cap R
      BY <2>1, <2>2, <2>4, SharedCacheAssumption
    <2>7. QED
      BY <2>5, <2>6 DEF NoWaitCycle
  <1>3. QED
    BY <1>1, <1>2, GraphSteps DEF WakeAll

LEMMA NextRefines ==
  ASSUME IInv, [Next]_vars
  PROVE  [Graph!Next]_pUnlock
  <1>1. ASSUME NEW c \in Conns, WakeAll(c)
        PROVE  Graph!Next
    BY <1>1 DEF WakeAll, Graph!Next, Graph!Wake
  <1>2. ASSUME NEW c \in Conns, WaitRegistered(c)
        PROVE  Graph!Next
    <2>1. pUnlock[c] = NoConn /\ pBlocking[c] \in Conns
      BY <1>2 DEF WaitRegistered, IInv, TypeOK, WaitInv, Waiting
    <2>2. Graph!Wait(c, pBlocking[c])
      BY <1>2, <2>1 DEF WaitRegistered, WaitsOn, Graph!Wait, Graph!Reaches
    <2>3. QED
      BY <2>1, <2>2 DEF Graph!Next
  <1>3. QED
    BY <1>1, <1>2, GraphSteps

\* Only sqlite3ConnectionClosed ends the closing of a connection.
LEMMA OnlyClosedEndsClosing ==
  ASSUME IInv, [Next]_vars, NEW c \in Conns, pc[c] = "closing", pc'[c] # "closing"
  PROVE  sqlite3ConnectionClosed(c)
  <1>1. ASSUME NEW d \in Conns, NEW r \in Requests, pc[d] # "closing", sqlite3_step(d, r)
        PROVE  FALSE
    <2>1. StepShape(d, r)
      BY <1>1, StepHasShape DEF IInv
    <2>2. QED
      BY <1>1, <2>1 DEF StepShape, IInv, TypeOK
  <1>2. ASSUME NEW d \in Conns, Retry(d) \/ \E r \in Requests : Exec(d, r)
        PROVE  FALSE
    BY <1>1, <1>2 DEF Retry, Exec, IInv, WaitInv
  <1>3. ASSUME NEW d \in Conns,
               \/ BeginDeferred(d) \/ CloseRows(d) \/ EndTx(d) \/ Close(d) \/ Unlocked(d)
               \/ WaitNoBlocker(d) \/ WaitDeadlock(d) \/ WaitRegistered(d) \/ Receive(d)
        PROVE  FALSE
    BY <1>3 DEF BeginDeferred, CloseRows, EndTx, Close, Unlocked, WaitNoBlocker, WaitDeadlock,
                WaitRegistered, Receive, AddHandle, HaltWith, IInv, TypeOK
  <1>4. ASSUME NEW d \in Conns, sqlite3ConnectionClosed(d)
        PROVE  d = c
    BY <1>4 DEF sqlite3ConnectionClosed, IInv, TypeOK
  <1>5. ~UNCHANGED vars
    BY DEF vars
  <1>6. QED
    BY <1>2, <1>3, <1>4, <1>5 DEF Next

Forgotten(c) ==
  pc[c] = "closing" /\ pc'[c] # "closing" =>
    \A d \in Conns : pBlocking'[d] # c /\ pUnlock'[d] # c

LEMMA ClosingForgets ==
  ASSUME IInv, [Next]_vars, NEW c \in Conns
  PROVE  Forgotten(c)
  <1>1. SUFFICES ASSUME sqlite3ConnectionClosed(c), NEW d \in Conns
                 PROVE  pBlocking'[d] # c /\ pUnlock'[d] # c
    BY OnlyClosedEndsClosing DEF Forgotten
  <1>2. pBlocking[d] # NoConn \/ pUnlock[d] # NoConn => d \in blockedList
    BY DEF IInv, WaitInv
  <1>3. QED
    BY <1>1, <1>2, SharedCacheAssumption DEF sqlite3ConnectionClosed, WaitersOf

-----------------------------------------------------------------------------
(***************************************************************************)
(* The theorems, for every set of connections, tables and handles and      *)
(* every set of statements.                                                *)
(***************************************************************************)

\* The inductive invariant: types, the lock table and the waiting goroutines.
THEOREM Invariance == Spec => []IInv
  BY InitIInv, NextKeepsIInv, PTL DEF Spec

\* Every variable keeps its type; in particular a channel never holds two tokens,
\* which would block the callback with STATIC_MAIN held.  (unlock_notify_callback)
THEOREM TypeCorrect == Spec => []TypeOK
  <1>1. IInv => TypeOK
    BY DEF IInv
  <1>2. QED
    BY <1>1, Invariance, PTL

\* A table that is write-locked by one connection is locked by no other.
\* (querySharedCacheTableLock, downgradeAllSharedCacheTableLocks)
THEOREM Isolation == Spec => []TablesIsolated
  <1>1. IInv => TablesIsolated
    BY DEF IInv, LockInv, TablesIsolated
  <1>2. QED
    BY <1>1, Invariance, PTL

\* The recorded writer is the connection whose transaction writes, and the exclusive
\* and pending flags imply one.  (btreeBeginTrans, clearAllSharedCacheTableLocks)
THEOREM WriterIsKnown == Spec => []WriterKnown
  <1>1. IInv => WriterKnown
    BY DEF IInv, LockInv, WriterKnown
  <1>2. QED
    BY <1>1, Invariance, PTL

\* A parked goroutine has its token, or is registered to get it.
\* (unlock_notify_wait, sqlite3ConnectionUnlocked)
THEOREM NoWakeupIsLost == Spec => []NoLostWakeup
  <1>1. IInv => NoLostWakeup
    BY DEF IInv, WaitInv, NoLostWakeup, Waiting
  <1>2. QED
    BY <1>1, Invariance, PTL

\* The callback finds each channel it is given, empty, and is given it once.
\* (unlock_notify_callback, unlock_notify_table.get)
THEOREM CallbackReturns == Spec => []CallbackNeverStuck
  <1>1. IInv => CallbackNeverStuck
    BY DEF IInv, WaitInv, CallbackNeverStuck
  <1>2. QED
    BY <1>1, Invariance, PTL

\* sqlite3BlockedList lists the blocked and waiting connections and no other.
\* (checkListProperties, addToBlockedList)
THEOREM BlockedList == Spec => []BlockedListOK
  <1>1. IInv => BlockedListOK
    BY DEF IInv, WaitInv, BlockedListOK, Waiting
  <1>2. QED
    BY <1>1, Invariance, PTL

\* Every connection somebody waits for has still to announce the end of its
\* transaction.  (sqlite3VdbeHalt, sqlite3_close_v2)
THEOREM BlockersAnnounce == Spec => []BlockerWillAnnounce
  <1>1. Init => BlockerWillAnnounce
    BY DEF Init, BlockerWillAnnounce
  <1>2. QED
    BY <1>1, Invariance, NextKeepsAnnounce, PTL DEF Spec

\* The connections never wait for each other in a circle: the deadlock test of
\* sqlite3_unlock_notify misses none.
THEOREM DeadlockFree == Spec => []NoWaitCycle
  <1>1. Init => NoWaitCycle
    BY SharedCacheAssumption DEF Init, NoWaitCycle
  <1>2. IInv /\ NoWaitCycle /\ [Next]_vars => NoWaitCycle'
    BY NextKeepsAcyclic
  <1>3. QED
    BY <1>1, <1>2, Invariance, PTL DEF Spec

\* UnlockNotify implements WaitGraph with pUnlock as the graph.
THEOREM Refinement == Spec => GraphSpec
  <1>1. Init => Graph!Init
    BY DEF Init, Graph!Init
  <1>2. IInv /\ [Next]_vars => [Graph!Next]_pUnlock
    BY NextRefines
  <1>3. QED
    BY <1>1, <1>2, Invariance, PTL DEF Spec, GraphSpec, Graph!Spec

\* No connection refers to one that has finished closing.  (sqlite3ConnectionClosed)
THEOREM ClosedForgotten == Spec => ClosedIsForgotten
  <1>1. IInv /\ [Next]_vars =>
          [\A c \in Conns :
             pc[c] = "closing" /\ pc'[c] # "closing" =>
               \A d \in Conns : pBlocking'[d] # c /\ pUnlock'[d] # c]_vars
    BY ClosingForgets DEF Forgotten
  <1>2. QED
    BY <1>1, Invariance, PTL DEF Spec, ClosedIsForgotten
=============================================================================
