----------------------------- MODULE DriverConn -----------------------------
(***************************************************************************)
(* One SQLiteConn in the pool of database/sql, and the goroutines that use *)
(* it one after the other: ExecContext with its worker goroutine and its   *)
(* race against the context (SQLiteStmt.exec), SQLiteRows.Next, and        *)
(* SQLiteTx.Begin, Commit and Rollback, over what SQLite does with them    *)
(* (auto-commit, sqlite3_interrupt, the rollback of a transaction).        *)
(*                                                                         *)
(* An effect <<tx, n>> is the work of the n-th write statement, which ran  *)
(* for the sql.Tx with that number or for none (NoTx): it is pending in    *)
(* SQLite's open transaction, durable, or gone.                            *)
(***************************************************************************)
EXTENDS Naturals, FiniteSets

CONSTANTS
    Users,          \* goroutines that share the *sql.DB
    Pool,           \* nobody holds the connection
    MaxTx,          \* bound: sql.Tx opened
    MaxExec,        \* bound: write statements run
    NoTx

ASSUME DriverAssumption ==
    /\ Pool \notin Users
    /\ MaxTx \in Nat /\ MaxExec \in Nat
    /\ NoTx \notin Nat

VARIABLES
    holder,        \* who has taken the connection out of the pool
    tx,            \* number of the holder's sql.Tx, or NoTx
    txs,           \* sql.Tx opened so far
    call,          \* the call of the driver that runs
    rows,          \* a result set of the holder
    autoCommit,    \* db->autoCommit
    interrupted,   \* db->u1.isInterrupted
    pending,       \* effects in SQLite's open transaction
    durable,       \* effects that have been committed
    execs,         \* write statements run so far
    reported,      \* effects whose exec returned without error
    refused,       \* effects whose exec returned an error
    committed,     \* numbers of the sql.Tx whose Commit returned nil
    torn,          \* sql.Tx whose transaction SQLite rolled back by itself
    leftOpen,      \* a COMMIT has failed on a deferred foreign key
    dropped        \* effects undone by a Close whose error exec drops

sqlite == <<autoCommit, interrupted, pending, durable>>
history == <<txs, execs, reported, refused, committed, torn, leftOpen,
             dropped>>
vars == <<holder, tx, txs, call, rows, autoCommit, interrupted, pending,
          durable, execs, reported, refused, committed, torn, leftOpen,
          dropped>>

Ops == {"none", "begin", "exec", "next"}
NoCall == [op |-> "none", caller |-> "select", worker |-> "bind",
           result |-> "none", done |-> FALSE, hit |-> FALSE]

Init ==
    /\ holder = Pool /\ tx = NoTx /\ txs = 0
    /\ call = NoCall /\ rows = "none"
    /\ autoCommit = TRUE /\ interrupted = FALSE
    /\ pending = {} /\ durable = {}
    /\ execs = 0 /\ reported = {} /\ refused = {}
    /\ committed = {} /\ torn = {} /\ leftOpen = FALSE /\ dropped = {}

---------------------------------------------------------------------------
(* A call with a context: the caller selects on the answer of its worker   *)
(* and on ctx.Done().                                                      *)

Start(op) == call' = [NoCall EXCEPT !.op = op]
Running(op) == call.op = op

\* Exec or Query takes the connection; Query keeps it until Rows.Close.
Take(u) ==
    /\ holder = Pool \/ (holder = u /\ (tx # NoTx \/ rows # "none"))
    /\ Running("none")
    /\ holder' = u

Exec(u) ==
    /\ Take(u) /\ (tx # NoTx \/ rows = "none")
    /\ Start("exec")
    /\ execs < MaxExec /\ execs' = execs + 1
    /\ UNCHANGED <<tx, txs, rows, sqlite, reported, refused, committed, torn,
                   leftOpen, dropped>>

Begin(u) ==
    /\ holder = Pool /\ Running("none") /\ holder' = u
    /\ txs < MaxTx
    /\ Start("begin")
    /\ UNCHANGED <<tx, rows, sqlite, history>>

\* Query prepares and binds; the first step is the first Next.
Query(u) ==
    /\ Take(u) /\ rows = "none"
    /\ rows' = "open"
    /\ UNCHANGED <<tx, call, sqlite, history>>

NextRow(u) ==
    /\ holder = u /\ Running("none") /\ rows \in {"open", "active"}
    /\ Start("next")
    /\ UNCHANGED <<holder, tx, rows, sqlite, history>>

\* The context of the call is cancelled or times out.
CtxDone ==
    /\ ~Running("none") /\ ~call.done
    /\ call' = [call EXCEPT !.done = TRUE]
    /\ UNCHANGED <<holder, tx, rows, sqlite, history>>

\* case <-ctx.Done(), then the inner select finds no answer yet ...
SeesDone ==
    /\ ~Running("none") /\ call.caller = "select" /\ call.done
    /\ call.worker # "sent"
    /\ call' = [call EXCEPT !.caller = "interrupt"]
    /\ UNCHANGED <<holder, tx, rows, sqlite, history>>

MutantMissesRunning == UNCHANGED interrupted
InterruptFlag == interrupted' = TRUE
\* ... and interrupts the connection, whatever it does by now.
Interrupt ==
    /\ call.caller = "interrupt"
    /\ InterruptFlag
    /\ call' = [call EXCEPT !.caller = "wait", !.hit = (call.worker = "running")]
    /\ UNCHANGED <<holder, tx, rows, autoCommit, pending, durable, history>>

---------------------------------------------------------------------------
(* The worker goroutine: execSync or nextSyncLocked.                       *)

\* db->nVdbeActive > 0 before the step: a row of the result set is out.
Active == rows = "active"

MutantNeverCleared == interrupted
\* sqlite3Step, for a statement that starts: the flag is cleared if no other
\* statement is active.
FlagAtStart == interrupted /\ Active

Step ==
    /\ ~Running("none") /\ call.worker = "bind"
    /\ ~(Running("next") /\ Active)
    /\ call' = [call EXCEPT !.worker = "running"]
    /\ interrupted' = FlagAtStart
    /\ UNCHANGED <<holder, tx, rows, autoCommit, pending, durable, history>>

Answer(r) == call' = [call EXCEPT !.worker = "sent", !.result = r]

BeginDone ==
    /\ Running("begin") /\ call.worker = "running"
    /\ autoCommit' = FALSE
    /\ Answer(IF autoCommit THEN "ok" ELSE "error")
    /\ UNCHANGED <<holder, tx, rows, interrupted, pending, durable, history>>

\* SQLITE_BUSY of a BEGIN IMMEDIATE, or the flag seen before OP_AutoCommit.
BeginFails ==
    /\ Running("begin") /\ call.worker = "running"
    /\ \/ Answer("error")
       \/ interrupted /\ Answer("interrupt")
    /\ UNCHANGED <<holder, tx, rows, sqlite, history>>

Effect == <<tx, execs>>

\* SQLITE_DONE: a write statement ends; outside a transaction it commits.
ExecDone ==
    /\ Running("exec") /\ call.worker = "running"
    /\ Answer("ok")
    /\ IF autoCommit
       THEN durable' = durable \cup {Effect} /\ UNCHANGED pending
       ELSE pending' = pending \cup {Effect} /\ UNCHANGED durable
    /\ UNCHANGED <<holder, tx, rows, autoCommit, interrupted, history>>

\* SQLITE_ROW of a RETURNING clause, which execSync takes for success: all
\* changes are made, but the statement is active and nothing is committed.
ExecRow ==
    /\ Running("exec") /\ call.worker = "running"
    /\ Answer("row")
    /\ pending' = pending \cup {Effect}
    /\ UNCHANGED <<holder, tx, rows, autoCommit, interrupted, durable, history>>

\* A constraint fails: only the statement is undone.
ExecFails ==
    /\ Running("exec") /\ call.worker = "running"
    /\ Answer("error")
    /\ UNCHANGED <<holder, tx, rows, sqlite, history>>

\* SQLITE_INTERRUPT in a statement that writes, or an I/O error:
\* sqlite3VdbeHalt rolls the whole transaction back.
MutantStaysOpen == UNCHANGED autoCommit
AutoCommitAgain == autoCommit' = TRUE

ExecAborted ==
    /\ Running("exec") /\ call.worker = "running"
    /\ \/ interrupted /\ Answer("interrupt")
       \/ Answer("error")
    /\ AutoCommitAgain /\ pending' = {}
    /\ torn' = IF autoCommit THEN torn ELSE torn \cup {tx}
    /\ UNCHANGED <<holder, tx, txs, rows, interrupted, durable, execs, reported,
                   refused, committed, leftOpen, dropped>>

NextDone ==
    /\ Running("next") /\ call.worker = "running"
    /\ \/ rows' = "active" /\ Answer("ok")
       \/ rows' = "ended" /\ Answer("ok")
       \/ rows' = "ended" /\ Answer("error")
       \/ interrupted /\ rows' = "ended" /\ Answer("interrupt")
    /\ UNCHANGED <<holder, tx, sqlite, history>>

\* A row that is stepped again does not start a statement: no flag is cleared.
StepAgain ==
    /\ Running("next") /\ rows = "active" /\ call.worker = "bind"
    /\ call' = [call EXCEPT !.worker = "running"]
    /\ UNCHANGED <<holder, tx, rows, sqlite, history>>

---------------------------------------------------------------------------
(* The answer.                                                             *)

MutantDoneMeansError == IF call.done THEN "cancelled" ELSE call.result
\* SQLiteStmt.exec: an answer that is no interrupt is returned as it is,
\* even when the context is done.
Outcome ==
    IF call.result = "interrupt" /\ call.caller = "wait" THEN "cancelled"
    ELSE call.result

Receives == call.caller \in {"select", "wait"} /\ call.worker = "sent"

\* database/sql releases a connection that has neither Tx nor Rows.
Released == IF tx = NoTx /\ rows = "none" THEN Pool ELSE holder

Accepted == Outcome \in {"ok", "row"}
Settle ==
    IF Accepted
    THEN reported' = reported \cup {Effect} /\ UNCHANGED refused
    ELSE refused' = refused \cup {Effect} /\ UNCHANGED reported

\* The sqlite3_finalize of s.Close() halts a statement that has a row out.
\* In auto-commit this is its COMMIT.
CloseCommits ==
    /\ IF autoCommit
       THEN durable' = durable \cup pending /\ pending' = {}
       ELSE UNCHANGED <<durable, pending>>
    /\ UNCHANGED <<autoCommit, torn, dropped>>

\* A foreign key is violated, or that COMMIT fails: the statement is undone.
CloseUndoes ==
    /\ pending' = pending \ {Effect}
    /\ dropped' = dropped \cup {Effect}
    /\ UNCHANGED <<autoCommit, durable, torn>>

\* Inside a transaction that cannot undo the statement alone, all is lost.
CloseRollsBack ==
    /\ ~autoCommit
    /\ autoCommit' = TRUE /\ pending' = {}
    /\ dropped' = dropped \cup {Effect}
    /\ torn' = torn \cup {tx}
    /\ UNCHANGED durable

\* SQLiteConn.exec drops the result of s.Close().
CloseStatement ==
    IF call.result = "row"
    THEN CloseCommits \/ CloseUndoes \/ CloseRollsBack
    ELSE UNCHANGED <<autoCommit, pending, durable, torn, dropped>>

ExecReturns ==
    /\ Running("exec") /\ Receives
    /\ Settle
    /\ CloseStatement
    /\ call' = NoCall
    /\ holder' = Released
    /\ UNCHANGED <<tx, txs, rows, interrupted, execs, committed, leftOpen>>

\* The query has a tail: the loop of SQLiteConn.exec prepares the next
\* statement under the same context.
ExecNextStatement ==
    /\ Running("exec") /\ Receives /\ Accepted
    /\ Settle
    /\ CloseStatement
    /\ execs < MaxExec /\ execs' = execs + 1
    /\ call' = [NoCall EXCEPT !.op = "exec", !.done = call.done]
    /\ UNCHANGED <<holder, tx, txs, rows, interrupted, committed, leftOpen>>

\* Rows.Close; outside a sql.Tx database/sql then releases the connection.
CloseRows ==
    /\ rows' = "none"
    /\ holder' = IF tx = NoTx THEN Pool ELSE holder

\* SQLiteRows.Next reports ctx.Err() whatever the step did, if it sees that the
\* context is done; database/sql closes the rows at the end and at an error.
NextReturns ==
    /\ Running("next") /\ Receives
    /\ call' = NoCall
    /\ \/ rows = "active" /\ call.caller = "select" /\ UNCHANGED <<holder, rows>>
       \/ (rows = "ended" \/ call.done) /\ CloseRows
    /\ UNCHANGED <<tx, sqlite, history>>

BeginReturns ==
    /\ Running("begin") /\ Receives
    /\ call' = NoCall
    /\ IF Outcome = "ok"
       THEN txs' = txs + 1 /\ tx' = txs + 1 /\ UNCHANGED holder
       ELSE holder' = Pool /\ UNCHANGED <<tx, txs>>
    /\ UNCHANGED <<rows, sqlite, execs, reported, refused, committed, torn,
                   leftOpen, dropped>>

RowsClose(u) ==
    /\ holder = u /\ Running("none") /\ rows # "none"
    /\ CloseRows
    /\ UNCHANGED <<tx, call, sqlite, history>>

---------------------------------------------------------------------------
(* The end of a transaction; database/sql closes the rows first.           *)

EndTx(u) ==
    /\ holder = u /\ tx # NoTx /\ Running("none")
    /\ rows' = "none" /\ interrupted' = FALSE
    /\ tx' = NoTx /\ holder' = Pool
    /\ UNCHANGED <<txs, call, execs, reported, refused, dropped>>

CommitOk(u) ==
    /\ EndTx(u) /\ ~autoCommit
    /\ autoCommit' = TRUE
    /\ durable' = durable \cup pending /\ pending' = {}
    /\ committed' = committed \cup {tx}
    /\ UNCHANGED <<torn, leftOpen>>

MutantNoCleanup == UNCHANGED <<autoCommit, pending, durable>>
MutantRetriesCommit ==
    autoCommit' = TRUE /\ pending' = {} /\ durable' = durable \cup pending
\* SQLITE_BUSY: SQLite leaves the transaction open, Commit rolls it back.
BusyCleanup == autoCommit' = TRUE /\ pending' = {} /\ UNCHANGED durable

CommitBusy(u) ==
    /\ EndTx(u) /\ ~autoCommit
    /\ BusyCleanup
    /\ UNCHANGED <<committed, torn, leftOpen>>

\* A deferred foreign key is violated: SQLite leaves the transaction open.
CommitConstraint(u) ==
    /\ EndTx(u) /\ ~autoCommit /\ pending # {}
    /\ leftOpen' = TRUE
    /\ UNCHANGED <<autoCommit, pending, durable, committed, torn>>

\* SQLITE_FULL or an I/O error: SQLite rolls back.
CommitIoError(u) ==
    /\ EndTx(u) /\ ~autoCommit
    /\ autoCommit' = TRUE /\ pending' = {}
    /\ UNCHANGED <<durable, committed, torn, leftOpen>>

\* "cannot commit - no transaction is active", and the same for ROLLBACK.
EndWithoutTransaction(u) ==
    /\ EndTx(u) /\ autoCommit
    /\ UNCHANGED <<autoCommit, pending, durable, committed, torn, leftOpen>>

Rollback(u) ==
    /\ EndTx(u) /\ ~autoCommit
    /\ autoCommit' = TRUE /\ pending' = {}
    /\ UNCHANGED <<durable, committed, torn, leftOpen>>

\* The context of the sql.Tx is done: database/sql rolls back and closes the
\* connection (the driver has no SessionResetter); the pool opens a new one.
TxCtxDone(u) ==
    /\ EndTx(u)
    /\ autoCommit' = TRUE /\ pending' = {}
    /\ UNCHANGED <<durable, committed, torn, leftOpen>>

Worker ==
    Step \/ StepAgain \/ BeginDone \/ ExecDone \/ ExecRow \/ ExecFails
    \/ ExecAborted \/ BeginFails \/ NextDone
Caller ==
    SeesDone \/ Interrupt \/ ExecReturns \/ ExecNextStatement \/ NextReturns
    \/ BeginReturns
Aborts == interrupted /\ (ExecAborted \/ BeginFails \/ NextDone)

Next ==
    \/ Worker \/ Caller \/ CtxDone
    \/ \E u \in Users :
         \/ Exec(u) \/ Begin(u) \/ Query(u) \/ NextRow(u) \/ RowsClose(u)
         \/ CommitOk(u) \/ CommitBusy(u) \/ CommitConstraint(u)
         \/ CommitIoError(u) \/ EndWithoutTransaction(u) \/ Rollback(u)
         \/ TxCtxDone(u)

Spec == Init /\ [][Next]_vars

\* Goroutines run, and a statement that is interrupted notices it.  Nothing
\* says that a statement ends by itself.
FairSpec == Spec /\ WF_vars(Caller) /\ WF_vars(Step \/ StepAgain)
            /\ WF_vars(Aborts)

---------------------------------------------------------------------------
(* Properties.                                                             *)

TxNumbers == {NoTx} \cup (1 .. MaxTx)
Effects == TxNumbers \X (1 .. MaxExec)

\* Every variable has its type; the pool's connection has neither sql.Tx nor
\* call.
TypeOK ==
    /\ holder \in Users \cup {Pool}
    /\ tx \in TxNumbers /\ txs \in 0 .. MaxTx /\ execs \in 0 .. MaxExec
    /\ call \in [op : Ops, caller : {"select", "interrupt", "wait"},
                 worker : {"bind", "running", "sent"},
                 result : {"none", "ok", "row", "error", "interrupt"},
                 done : BOOLEAN, hit : BOOLEAN]
    /\ rows \in {"none", "open", "active", "ended"}
    /\ {autoCommit, interrupted} \subseteq BOOLEAN
    /\ pending \cup durable \cup reported \cup refused \cup dropped \subseteq Effects
    /\ committed \subseteq 1 .. MaxTx /\ torn \subseteq TxNumbers /\ leftOpen \in BOOLEAN
    /\ holder = Pool => tx = NoTx /\ Running("none")

\* SQLiteTx.Commit and Rollback: a connection that returns to the pool has no
\* result set, and no transaction open unless a COMMIT failed on a deferred
\* foreign key.
PooledIsClean ==
    holder = Pool => rows = "none" /\ (leftOpen \/ (autoCommit /\ pending = {}))

\* The comment of SQLiteTx.Commit: "database/sql considers the transaction
\* complete once we return from Commit() - we must clean up to honour its
\* semantics."  Nobody inherits a transaction.
CompleteAfterCommit == holder = Pool => autoCommit

\* SQLiteStmt.exec: an Exec that reports an error, its context's included,
\* has changed nothing, however the answer, the cancellation and the interrupt
\* raced.
RefusedHasNoEffect == refused \cap (pending \cup durable) = {}

\* SQLiteConn.exec: what Exec reported is kept, all of it when Commit returns
\* nil, whatever SQLite rolled back in between, and at once outside a sql.Tx
\* unless an earlier user has left a transaction open.  The exception is a
\* statement with a RETURNING clause that failed in its s.Close().
ReportedIsKept ==
    \A e \in reported \ dropped :
       /\ e[1] \in committed => e \in durable
       /\ e[1] = NoTx => e \in durable \/ leftOpen

\* The same without the exception: execSync returns an error unless the
\* statement has succeeded.
ReportedIsDurable ==
    \A e \in reported :
       /\ e[1] \in committed => e \in durable
       /\ e[1] = NoTx => e \in durable \/ leftOpen

\* Work of a sql.Tx that did not commit is durable only if SQLite had rolled
\* its transaction back and later statements of the sql.Tx ran in auto-commit.
EscapesOnlyIfTorn ==
    \A e \in durable : e[1] \in committed \cup torn \cup {NoTx}

\* SQLiteStmt.exec, "this is still racy": an interrupt that comes too late for
\* its own statement hits another one only while a row is out, and so never
\* the next user of the connection.
StrayOnlyWithRows ==
    interrupted /\ call.worker = "running" /\ ~call.done => rows = "active"

\* SQLiteStmt.exec and SQLiteRows.Next: a statement whose context is done before
\* it ends is over once the interrupt has found it
\* running, however long it would have run.
CancelReachesStatement == call.hit ~> ~call.hit

\* The comment at the interrupt: it "can be no-op if executed between
\* sqlite3_* calls".  It should never end a call whose context is not done.
InterruptIsForTheCancelled == call.result = "interrupt" => call.done
=============================================================================
