----------------------------- MODULE UnlockNotify -----------------------------
(***************************************************************************)
(* Connections in shared-cache mode that wait for each other's table locks.*)
(* Three layers of the driver take part:                                   *)
(*   - sqlite3_step on the lock table of the shared cache (SharedCache);   *)
(*   - notify.c: who blocks whom, deadlock detection, the wake-up calls;   *)
(*   - the driver: the retry loop of sqlite3_opt_unlock_notify.c and the   *)
(*     Go function unlock_notify_wait, which parks the goroutine on a      *)
(*     channel found through the table "unt".                              *)
(*                                                                         *)
(* One goroutine drives each connection (database/sql).  The atomic steps  *)
(* are the critical sections of the code: a step holds the mutex of the    *)
(* BtShared until it returns, notify.c works under STATIC_MAIN.  Between   *)
(* releasing its locks and calling sqlite3ConnectionUnlocked a connection  *)
(* holds neither.                                                          *)
(***************************************************************************)
EXTENDS SharedCache

CONSTANTS Handles,   (* values of unlock_notify_table.seqnum, fresh while live *)
          NoHandle,  (* no pUnlockArg                                          *)
          NoTable,   (* the "table" of BEGIN IMMEDIATE and BEGIN EXCLUSIVE     *)
          Requests,  (* the statements the application issues                  *)
          NoRequest,
          MaxRows    (* bound: open result sets of one connection              *)

ReadOf(t)      == [wrflag |-> 0, tab |-> t]
WriteOf(t)     == [wrflag |-> 1, tab |-> t]
BeginImmediate == [wrflag |-> 1, tab |-> NoTable]
BeginExclusive == [wrflag |-> 2, tab |-> NoTable]

AllRequests == {ReadOf(t) : t \in Tables} \cup {WriteOf(t) : t \in Tables}
                 \cup {BeginImmediate, BeginExclusive}

ASSUME UnlockNotifyAssumption ==
  /\ NoHandle \notin Handles
  /\ NoTable \notin Tables
  /\ Requests \subseteq AllRequests
  /\ NoRequest \notin AllRequests
  /\ MaxRows \in Nat

VARIABLES
  bt,          \* the BtShared
  autoCommit,  \* sqlite3.autoCommit
  rows,        \* open result sets: statements that still read (nVdbeRead)
  pBlocking,   \* sqlite3.pBlockingConnection
  pUnlock,     \* sqlite3.pUnlockConnection
  pUnlockArg,  \* sqlite3.pUnlockArg, the handle; xUnlockNotify is set with it
  blockedList, \* sqlite3BlockedList, as a set
  table,       \* unt.table: live handle -> tokens in its channel
  handle,      \* the handle unlock_notify_wait holds
  stmt,        \* the statement being stepped
  pc           \* where the goroutine of the connection is

lockVars   == <<bt, autoCommit, rows>>
notifyVars == <<pBlocking, pUnlock, pUnlockArg, blockedList>>
goVars     == <<table, handle>>
vars       == <<lockVars, notifyVars, goVars, stmt, pc>>

\* ready: in the application; unlocking: locks released, not yet announced;
\* closing: the same inside sqlite3_close_v2; blocked: step returned
\* SQLITE_LOCKED; waiting: parked on the channel; running: about to step again.
PC == {"ready", "unlocking", "closing", "blocked", "waiting", "running"}

TypeOK ==
  /\ bt \in BtShared
  /\ autoCommit \in [Conns -> BOOLEAN]
  /\ rows \in [Conns -> 0 .. MaxRows]
  /\ pBlocking \in [Conns -> Conns \cup {NoConn}]
  /\ pUnlock \in [Conns -> Conns \cup {NoConn}]
  /\ pUnlockArg \in [Conns -> Handles \cup {NoHandle}]
  /\ blockedList \subseteq Conns
  /\ DOMAIN table \subseteq Handles
  /\ \A h \in DOMAIN table : table[h] \in {0, 1}
  /\ handle \in [Conns -> Handles \cup {NoHandle}]
  /\ stmt \in [Conns -> Requests \cup {NoRequest}]
  /\ pc \in [Conns -> PC]

Init ==
  /\ bt = NewBtShared
  /\ autoCommit = [c \in Conns |-> TRUE]
  /\ rows = [c \in Conns |-> 0]
  /\ pBlocking = [c \in Conns |-> NoConn]
  /\ pUnlock = [c \in Conns |-> NoConn]
  /\ pUnlockArg = [c \in Conns |-> NoHandle]
  /\ blockedList = {}
  /\ table = [h \in {} |-> 0]
  /\ handle = [c \in Conns |-> NoHandle]
  /\ stmt = [c \in Conns |-> NoRequest]
  /\ pc = [c \in Conns |-> "ready"]

-----------------------------------------------------------------------------
\* notify.c

sqlite3ConnectionBlocked(c, b) ==
  /\ blockedList' = IF pBlocking[c] = NoConn /\ pUnlock[c] = NoConn
                    THEN blockedList \cup {c}
                    ELSE blockedList
  /\ pBlocking' = [pBlocking EXCEPT ![c] = b]
  /\ UNCHANGED <<pUnlock, pUnlockArg>>

\* Mutant: the chain is not followed at all.
MutantChainIgnored(b, c) == b = c

\* The loop p = db->pBlockingConnection; p && p!=db; p = p->pUnlockConnection
\* ends at db: db lies in every set that holds b and is closed under pUnlock.
WaitsOn(b, c) ==
  \A S \in SUBSET Conns :
    /\ b \in S
    /\ \A p \in S : pUnlock[p] \in S \cup {NoConn}
    => c \in S

\* The callback of the driver: one token for the channel of each argument.
\* unt.get panics on a handle that is gone and the send would block if full.
unlock_notify_callback(args) ==
  table' = [h \in DOMAIN table |-> table[h] + (IF h \in args THEN 1 ELSE 0)]

\* The entries whose wake-up sqlite3ConnectionUnlocked(db) owes to db.
WaitersOf(c) == {p \in blockedList : pUnlock[p] = c}

\* Mutant: step 1 of the loop is missing.
MutantKeepsBlocking(c) ==
  /\ pUnlock' = [p \in Conns |-> IF p \in WaitersOf(c) THEN NoConn ELSE pUnlock[p]]
  /\ pUnlockArg' = [p \in Conns |-> IF p \in WaitersOf(c) THEN NoHandle
                                    ELSE pUnlockArg[p]]
  /\ unlock_notify_callback({pUnlockArg[p] : p \in WaitersOf(c)})
  /\ UNCHANGED <<pBlocking, blockedList>>

sqlite3ConnectionUnlocked(c) ==
  LET cleared == [p \in Conns |-> IF p \in blockedList /\ pBlocking[p] = c
                                  THEN NoConn ELSE pBlocking[p]]
  IN  /\ pBlocking' = cleared
      /\ pUnlock' = [p \in Conns |-> IF p \in WaitersOf(c) THEN NoConn ELSE pUnlock[p]]
      /\ pUnlockArg' = [p \in Conns |-> IF p \in WaitersOf(c) THEN NoHandle
                                        ELSE pUnlockArg[p]]
      /\ blockedList' = {p \in blockedList : \/ cleared[p] # NoConn
                                             \/ pUnlock[p] \notin {c, NoConn}}
      /\ unlock_notify_callback({pUnlockArg[p] : p \in WaitersOf(c)})

-----------------------------------------------------------------------------
\* sqlite3_step on request r: OP_Transaction, OP_TableLock, sqlite3VdbeHalt.

TableLockOf(r) == IF r.wrflag = 0 THEN READ_LOCK ELSE WRITE_LOCK

\* A statement in autocommit mode that ends, well or not, ends its transaction.
\* sqlite3ConnectionUnlocked follows once the mutexes are released.
HaltWith(c, s, nVdbeRead, request) ==
  /\ stmt' = [stmt EXCEPT ![c] = request]
  /\ IF autoCommit[c]
     THEN /\ bt' = btreeEndTransaction(s, c, nVdbeRead)
          /\ pc' = [pc EXCEPT ![c] = "unlocking"]
     ELSE /\ bt' = s
          /\ pc' = [pc EXCEPT ![c] = IF request = NoRequest THEN "ready" ELSE "blocked"]

StepBlockedAtTransaction(c, r) ==
  /\ \E b \in BeginBlockers(bt, c, r.wrflag) : sqlite3ConnectionBlocked(c, b)
  /\ HaltWith(c, bt, rows[c] + 1, r)
  /\ UNCHANGED <<autoCommit, rows>>

StepBlockedAtTable(c, r) ==
  LET begun == btreeBeginTrans(bt, c, r.wrflag) IN
  /\ r.tab # NoTable
  /\ BeginBlockers(bt, c, r.wrflag) = {}
  /\ \E b \in TableBlockers(begun, c, r.tab, TableLockOf(r)) :
        sqlite3ConnectionBlocked(c, b)
  /\ HaltWith(c, SetPending(begun, TableLockOf(r)), rows[c] + 1, r)
  /\ UNCHANGED <<autoCommit, rows>>

StepGranted(c, r) ==
  LET begun  == btreeBeginTrans(bt, c, r.wrflag)
      locked == setSharedCacheTableLock(begun, c, r.tab, TableLockOf(r))
  IN
  /\ BeginBlockers(bt, c, r.wrflag) = {}
  /\ \/ /\ r.tab # NoTable /\ r.wrflag = 0      \* a row: the statement stays open
        /\ TableBlockers(begun, c, r.tab, READ_LOCK) = {}
        /\ rows[c] < MaxRows
        /\ rows' = [rows EXCEPT ![c] = @ + 1]
        /\ bt' = locked
        /\ stmt' = [stmt EXCEPT ![c] = NoRequest]
        /\ pc' = [pc EXCEPT ![c] = "ready"]
        /\ UNCHANGED autoCommit
     \/ /\ r.tab # NoTable /\ r.wrflag > 0      \* the statement runs to its end
        /\ TableBlockers(begun, c, r.tab, WRITE_LOCK) = {}
        /\ HaltWith(c, locked, rows[c] + 1, NoRequest)
        /\ UNCHANGED <<autoCommit, rows>>
     \/ /\ r.tab = NoTable                      \* OP_AutoCommit of BEGIN
        /\ bt' = begun
        /\ autoCommit' = [autoCommit EXCEPT ![c] = FALSE]
        /\ stmt' = [stmt EXCEPT ![c] = NoRequest]
        /\ pc' = [pc EXCEPT ![c] = "ready"]
        /\ UNCHANGED rows
  /\ UNCHANGED notifyVars

sqlite3_step(c, r) ==
  /\ \/ StepBlockedAtTransaction(c, r)
     \/ StepBlockedAtTable(c, r)
     \/ StepGranted(c, r)
  /\ UNCHANGED goVars

-----------------------------------------------------------------------------
\* The application on a connection, through database/sql.

Exec(c, r) ==
  /\ pc[c] = "ready"
  /\ r.tab = NoTable => autoCommit[c]
  /\ r.tab # NoTable /\ r.wrflag = 0 => rows[c] < MaxRows
  /\ sqlite3_step(c, r)

BeginDeferred(c) ==
  /\ pc[c] = "ready"
  /\ autoCommit[c]
  /\ autoCommit' = [autoCommit EXCEPT ![c] = FALSE]
  /\ UNCHANGED <<bt, rows, notifyVars, goVars, stmt, pc>>

\* Rows.Close, or the last row: sqlite3VdbeHalt of a read-only statement.
CloseRows(c) ==
  /\ pc[c] = "ready"
  /\ rows[c] > 0
  /\ rows' = [rows EXCEPT ![c] = @ - 1]
  /\ HaltWith(c, bt, rows[c], NoRequest)
  /\ UNCHANGED <<autoCommit, notifyVars, goVars>>

\* COMMIT or ROLLBACK (OP_AutoCommit).
EndTx(c) ==
  /\ pc[c] = "ready"
  /\ ~autoCommit[c]
  /\ autoCommit' = [autoCommit EXCEPT ![c] = TRUE]
  /\ bt' = btreeEndTransaction(bt, c, rows[c] + 1)
  /\ pc' = [pc EXCEPT ![c] = "unlocking"]
  /\ UNCHANGED <<rows, notifyVars, goVars, stmt>>

\* sqlite3_close_v2 of a connection without open statements: it rolls back.
Close(c) ==
  /\ pc[c] = "ready"
  /\ rows[c] = 0
  /\ bt' = btreeEndTransaction(bt, c, 0)
  /\ pc' = [pc EXCEPT ![c] = "closing"]
  /\ UNCHANGED <<autoCommit, rows, notifyVars, goVars, stmt>>

-----------------------------------------------------------------------------
\* The rest of the handlers, under STATIC_MAIN.

Unlocked(c) ==
  /\ pc[c] = "unlocking"
  /\ sqlite3ConnectionUnlocked(c)
  /\ pc' = [pc EXCEPT ![c] = IF stmt[c] = NoRequest THEN "ready" ELSE "blocked"]
  /\ UNCHANGED <<lockVars, handle, stmt>>

\* Mutant: the connection is taken off the list, the list is not searched for it.
MutantCloseForgetsWaiters(c) ==
  /\ pc[c] = "closing"
  /\ pBlocking' = [pBlocking EXCEPT ![c] = NoConn]
  /\ blockedList' = blockedList \ {c}
  /\ autoCommit' = [autoCommit EXCEPT ![c] = TRUE]
  /\ pc' = [pc EXCEPT ![c] = "ready"]
  /\ UNCHANGED <<bt, rows, pUnlock, pUnlockArg, goVars, stmt>>

\* Another connection is opened in its place.
sqlite3ConnectionClosed(c) ==
  /\ pc[c] = "closing"
  /\ LET cleared == [p \in Conns |-> IF p = c \/ (p \in blockedList /\ pBlocking[p] = c)
                                     THEN NoConn ELSE pBlocking[p]]
     IN  /\ pBlocking' = cleared
         /\ blockedList' = {p \in blockedList \ {c} : \/ cleared[p] # NoConn
                                                     \/ pUnlock[p] \notin {c, NoConn}}
  /\ pUnlock' = [p \in Conns |-> IF p \in WaitersOf(c) THEN NoConn ELSE pUnlock[p]]
  /\ pUnlockArg' = [p \in Conns |-> IF p \in WaitersOf(c) THEN NoHandle
                                    ELSE pUnlockArg[p]]
  /\ unlock_notify_callback({pUnlockArg[p] : p \in WaitersOf(c)})
  /\ autoCommit' = [autoCommit EXCEPT ![c] = TRUE]
  /\ pc' = [pc EXCEPT ![c] = "ready"]
  /\ UNCHANGED <<bt, rows, handle, stmt>>

\* Mutant: the counter is not incremented.
MutantSameHandle == CHOOSE h \in Handles : TRUE

\* unlock_notify_table.add takes the next value of a 64-bit counter: it is fresh.
FreshHandle == CHOOSE h \in Handles : h \notin DOMAIN table

AddHandle(c, tokens) ==
  /\ table' = [h \in DOMAIN table \cup {FreshHandle} |->
                 IF h = FreshHandle THEN tokens ELSE table[h]]
  /\ handle' = [handle EXCEPT ![c] = FreshHandle]
  /\ pc' = [pc EXCEPT ![c] = "waiting"]

\* Mutant: a connection that is not blocked any more waits for a callback as well.
MutantNoImmediateCallback(c) ==
  /\ pc[c] = "blocked"
  /\ DOMAIN table # Handles
  /\ pBlocking[c] = NoConn
  /\ AddHandle(c, 0)
  /\ UNCHANGED <<lockVars, notifyVars, stmt>>

\* unlock_notify_wait up to the receive, with sqlite3_unlock_notify.
WaitNoBlocker(c) ==
  /\ pc[c] = "blocked"
  /\ DOMAIN table # Handles
  /\ pBlocking[c] = NoConn
  /\ AddHandle(c, 1)
  /\ UNCHANGED <<lockVars, notifyVars, stmt>>

\* The handle is added and, by the deferred calls, removed again.
WaitDeadlock(c) ==
  /\ pc[c] = "blocked"
  /\ pBlocking[c] # NoConn
  /\ WaitsOn(pBlocking[c], c)
  /\ pc' = [pc EXCEPT ![c] = "ready"]
  /\ stmt' = [stmt EXCEPT ![c] = NoRequest]
  /\ UNCHANGED <<lockVars, notifyVars, goVars>>

WaitRegistered(c) ==
  /\ pc[c] = "blocked"
  /\ DOMAIN table # Handles
  /\ pBlocking[c] # NoConn
  /\ ~WaitsOn(pBlocking[c], c)
  /\ AddHandle(c, 0)
  /\ pUnlock' = [pUnlock EXCEPT ![c] = pBlocking[c]]
  /\ pUnlockArg' = [pUnlockArg EXCEPT ![c] = FreshHandle]
  /\ blockedList' = blockedList \cup {c}
  /\ UNCHANGED <<lockVars, pBlocking, stmt>>

\* The receive, then the deferred remove and close; the loop steps again.
Receive(c) ==
  /\ pc[c] = "waiting"
  /\ table[handle[c]] > 0
  /\ table' = [h \in DOMAIN table \ {handle[c]} |-> table[h]]
  /\ handle' = [handle EXCEPT ![c] = NoHandle]
  /\ pc' = [pc EXCEPT ![c] = "running"]
  /\ UNCHANGED <<lockVars, notifyVars, stmt>>

Retry(c) ==
  /\ pc[c] = "running"
  /\ sqlite3_step(c, stmt[c])

Next ==
  \E c \in Conns :
    \/ \E r \in Requests : Exec(c, r)
    \/ BeginDeferred(c)
    \/ CloseRows(c)
    \/ EndTx(c)
    \/ Close(c)
    \/ Unlocked(c)
    \/ sqlite3ConnectionClosed(c)
    \/ WaitNoBlocker(c)
    \/ WaitDeadlock(c)
    \/ WaitRegistered(c)
    \/ Receive(c)
    \/ Retry(c)

Spec == Init /\ [][Next]_vars

\* The goroutine and the library never stop between two steps (weak fairness).
\* The application closes its result sets and ends its transactions whenever it
\* gets the chance often enough: what it must do for anyone to make progress.
Fairness ==
  \A c \in Conns :
    /\ WF_vars(Unlocked(c) \/ sqlite3ConnectionClosed(c))
    /\ WF_vars(WaitNoBlocker(c) \/ WaitDeadlock(c) \/ WaitRegistered(c))
    /\ WF_vars(Receive(c) \/ Retry(c))
    /\ SF_vars(CloseRows(c))
    /\ SF_vars(EndTx(c))

FairSpec == Spec /\ Fairness

-----------------------------------------------------------------------------
(***************************************************************************)
(* Properties.                                                             *)
(***************************************************************************)

\* Isolation through every interleaving of statements, commits, failed steps and
\* closes: a write-locked table is locked by one connection only.
\* (querySharedCacheTableLock, downgradeAllSharedCacheTableLocks)
TablesIsolated == LocksCompatible(bt)

\* The writer recorded in the BtShared is the connection whose transaction writes,
\* and a flag that makes the code read pWriter->db is never set without a writer.
\* (btreeBeginTrans, clearAllSharedCacheTableLocks)
WriterKnown == WriterConsistent(bt)

\* New transactions are refused only while a reader is left that keeps the writer
\* waiting: the pending state ends with the last other transaction.
\* (btsFlags & BTS_PENDING, clearAllSharedCacheTableLocks)
PendingHasReaders ==
  BTS_PENDING \in bt.btsFlags =>
    \E d \in Conns \ {bt.pWriter} : bt.inTrans[d] # TRANS_NONE

\* No connections wait for each other in a circle: in every set of connections one
\* waits for nobody or for somebody outside.  (the deadlock test of
\* sqlite3_unlock_notify, made while other connections start and stop waiting)
NoWaitCycle ==
  \A S \in SUBSET Conns : S # {} => \E c \in S : pUnlock[c] \notin S

\* Whoever is recorded as a blocker has still to call sqlite3ConnectionUnlocked or
\* sqlite3ConnectionClosed: it is in a transaction or about to announce its end.
\* Otherwise the waiter would sleep for ever, or see a deadlock that is not there.
BlockerWillAnnounce ==
  \A c \in Conns : \A b \in {pBlocking[c], pUnlock[c]} \ {NoConn} :
    bt.inTrans[b] # TRANS_NONE \/ pc[b] \in {"unlocking", "closing"}

\* A goroutine parked on its channel has its token already, or notify.c will wake
\* it: it is in the blocked list, waits for a connection and its handle is the
\* argument of the callback.  (unlock_notify_wait against sqlite3ConnectionUnlocked)
NoLostWakeup ==
  \A c \in Conns :
    pc[c] = "waiting" =>
      \/ /\ table[handle[c]] = 1
         /\ pUnlock[c] = NoConn
      \/ /\ pUnlock[c] # NoConn
         /\ pUnlockArg[c] = handle[c]
         /\ c \in blockedList

\* The callback runs with STATIC_MAIN held.  Its lookup never misses (unt.get would
\* panic) and its send never blocks (the channel has room): every registered handle
\* is in the table, its channel is empty, and no other connection has registered it.
CallbackNeverStuck ==
  \A c \in Conns :
    pUnlockArg[c] # NoHandle =>
      /\ pUnlockArg[c] \in DOMAIN table
      /\ table[pUnlockArg[c]] = 0
      /\ \A d \in Conns \ {c} : pUnlockArg[d] # pUnlockArg[c]

\* The properties (1) and (3) of checkListProperties, which NDEBUG compiles out: the
\* list holds exactly the connections that are blocked or wait, and none of them
\* refers to a connection that has finished closing (a freed sqlite3 object).
BlockedListOK ==
  /\ \A c \in Conns : c \in blockedList <=> (pBlocking[c] # NoConn \/ pUnlock[c] # NoConn)
  /\ \A c \in Conns : pUnlock[c] # NoConn => pUnlockArg[c] # NoHandle /\ pc[c] = "waiting"

\* sqlite3ConnectionClosed leaves no reference to the connection it closes behind.
ClosedIsForgotten ==
  [][\A c \in Conns :
       pc[c] = "closing" /\ pc'[c] # "closing" =>
         \A d \in Conns : pBlocking'[d] # c /\ pUnlock'[d] # c]_vars

\* The comment above the call in sqlite3VdbeHalt: with auto-commit on, all the locks
\* of the connection have been released when the waiters are told so.
AnnouncedMeansReleased ==
  \A c \in Conns : pc[c] = "unlocking" => \A t \in Tables : bt.lock[c][t] = NoLock

\* A goroutine that waits for a lock does not wait for ever, if every application
\* finishes what it has begun.
WaiterWakes == \A c \in Conns : pc[c] = "waiting" ~> pc[c] # "waiting"

\* The same with any number of waiters in a row: a waiter wakes if the connection it
\* waits for is not itself kept from ever returning to its application.
WaiterWakesIfBlockerReturns ==
  \A c, b \in Conns :
    []<>(pc[b] = "ready") => (pUnlock[c] = b ~> pUnlock[c] # b)

\* The driver implements the abstract wait graph.
Graph == INSTANCE WaitGraph WITH waitsFor <- pUnlock
GraphSpec == Graph!Spec
=============================================================================
