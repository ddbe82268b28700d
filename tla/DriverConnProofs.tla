-------------------------- MODULE DriverConnProofs --------------------------
(***************************************************************************)
(* Proofs about DriverConn, for any number of goroutines, sql.Tx and       *)
(* statements: what Exec and Commit report is what SQLite keeps, with the  *)
(* exception of a statement that fails after its report, and what a        *)
(* connection is like when it is back in the pool.                         *)
(*                                                                         *)
(* The properties are not inductive.  Whether an Exec may still report an  *)
(* error depends on where its worker is; what Commit makes durable depends *)
(* on whose effects are pending, and so on a BEGIN failing while an        *)
(* earlier user's transaction is open.                                     *)
(*                                                                         *)
(* The last part is about CipherInit: the start of the library in the      *)
(* driver's Open, before there is a connection.                            *)
(***************************************************************************)
EXTENDS DriverConn, CipherInit, FiniteSetTheorems, TLAPS

\* The statement has answered with a row and has not been halted.
RowOut == call.result = "row"

\* The answer of the worker is there and says that the statement succeeded.
Succeeded == call.worker = "sent" /\ call.result \in {"ok", "row"}

\* One call at a time: an idle connection has none, an interrupt comes after the
\* context is done, and a sql.Tx is begun on a connection that has nothing open.
CallInv ==
    /\ Running("none") => call = NoCall
    /\ call.caller # "select" => call.done
    /\ Running("begin") => tx = NoTx /\ rows = "none" /\ txs < MaxTx
    /\ Running("exec") => execs >= 1
    /\ RowOut => Running("exec") /\ Succeeded

\* An open transaction belongs to the sql.Tx, to a BEGIN that is about to
\* return, or was left open by an earlier Commit; auto-commit leaves nothing
\* pending but the effect of a statement that is not halted, and a sql.Tx in
\* auto-commit has been torn.
OpenInv ==
    /\ autoCommit => pending \subseteq {Effect} /\ (RowOut \/ pending = {})
    /\ autoCommit \/ tx # NoTx \/ leftOpen \/ (Running("begin") /\ Succeeded)
    /\ Running("begin") /\ Succeeded => ~autoCommit /\ pending = {}
    /\ tx # NoTx => \A e \in pending : e[1] = tx
    /\ tx # NoTx /\ autoCommit => tx \in torn

\* sql.Tx are numbered in the order of their Begin.
TxInv ==
    /\ \A t \in committed : t <= txs
    /\ tx # NoTx => tx = txs /\ tx \notin committed
    /\ \A e \in reported : e[1] # NoTx => e[1] <= txs

\* The effect of the statement that runs exists from the moment it succeeds,
\* and it is reported or refused once, when the call returns.
EffectInv ==
    /\ \A e \in pending \cup durable \cup reported \cup refused : e[2] <= execs
    /\ Running("exec") => \A e \in reported \cup refused : e[2] < execs
    /\ Running("exec") /\ ~Succeeded => \A e \in pending \cup durable : e[2] < execs
    /\ Running("exec") /\ Succeeded => Effect \in pending \cup durable
    /\ RowOut => Effect \in pending

\* What a sql.Tx was told is there until its transaction is rolled back.
KeptInv ==
    tx # NoTx /\ ~autoCommit =>
        \A e \in reported \ dropped : e[1] = tx => e \in pending \cup durable

IInv ==
    /\ TypeOK /\ CallInv /\ OpenInv /\ TxInv /\ EffectInv /\ KeptInv
    /\ PooledIsClean /\ RefusedHasNoEffect /\ ReportedIsKept
    /\ EscapesOnlyIfTorn /\ StrayOnlyWithRows

\* The fields of a call.
CallTypes ==
    [op : Ops, caller : {"select", "interrupt", "wait"},
     worker : {"bind", "running", "sent"},
     result : {"none", "ok", "row", "error", "interrupt"}, done : BOOLEAN, hit : BOOLEAN]

\* The connection starts idle, in auto-commit, with nothing done.
LEMMA InitIInv == Init => IInv
  <1> SUFFICES ASSUME Init PROVE IInv
    OBVIOUS
  <1>1. TypeOK
    <2>1. NoCall \in CallTypes
      BY DEF NoCall, CallTypes, Ops
    <2>2. {autoCommit, interrupted} \subseteq BOOLEAN
      BY DEF Init
    <2>3. tx \in TxNumbers /\ txs \in 0 .. MaxTx /\ execs \in 0 .. MaxExec
      BY DriverAssumption DEF Init, TxNumbers
    <2>4. pending \cup durable \cup reported \cup refused \cup dropped = {}
          /\ committed = {} /\ torn = {}
      BY DEF Init
    <2>5. holder = Pool /\ tx = NoTx /\ call = NoCall /\ rows = "none" /\ leftOpen = FALSE
      BY DEF Init
    <2>6. QED
      BY <2>1, <2>2, <2>3, <2>4, <2>5 DEF TypeOK, CallTypes, Running, NoCall
  <1>2. CallInv
    BY DEF Init, CallInv, NoCall, Running, RowOut
  <1>3. OpenInv /\ TxInv /\ EffectInv /\ KeptInv
    BY DEF Init, OpenInv, TxInv, EffectInv, KeptInv, NoCall, Running, RowOut
  <1>4. PooledIsClean /\ RefusedHasNoEffect /\ ReportedIsKept /\ EscapesOnlyIfTorn
    BY DEF Init, PooledIsClean, RefusedHasNoEffect, ReportedIsKept, EscapesOnlyIfTorn
  <1>5. StrayOnlyWithRows
    BY DEF Init, StrayOnlyWithRows
  <1>6. QED
    BY <1>1, <1>2, <1>3, <1>4, <1>5 DEF IInv

---------------------------------------------------------------------------
(* Steps that change nothing in the database and end no Exec or BEGIN.     *)

\* Neither the database nor what has been reported changes.
DataKept ==
    UNCHANGED <<tx, txs, autoCommit, pending, durable, execs, reported, refused,
                committed, torn, leftOpen, dropped>>

\* An Exec or a BEGIN that runs goes on, and has succeeded if it had before.
CallKept ==
    /\ \A op \in {"begin", "exec"} :
           /\ Running(op)' <=> Running(op)
           /\ Running(op) => (Succeeded' <=> Succeeded)
    /\ RowOut' <=> RowOut

\* Such a step only has to look after the call, the rows and the pool.
LEMMA DataKeptIInv ==
  ASSUME IInv, DataKept, CallKept, TypeOK', CallInv', PooledIsClean', StrayOnlyWithRows'
  PROVE  IInv'
  <1> USE DEF IInv, DataKept, CallKept
  <1>o. Effect' = Effect
    BY DEF Effect
  <1>1. OpenInv'
    BY <1>o DEF OpenInv
  <1>2. EffectInv'
    BY <1>o DEF EffectInv
  <1>3. TxInv' /\ KeptInv'
    BY DEF TxInv, KeptInv
  <1>4. RefusedHasNoEffect' /\ ReportedIsKept' /\ EscapesOnlyIfTorn'
    BY DEF RefusedHasNoEffect, ReportedIsKept, EscapesOnlyIfTorn
  <1>5. QED
    BY <1>1, <1>2, <1>3, <1>4

\* Query prepares a result set; the first step is the first Next.
LEMMA QueryIInv ==
  ASSUME IInv, NEW u \in Users, Query(u)
  PROVE  IInv'
  <1> USE DEF IInv, Running, RowOut
  <1>1. DataKept /\ CallKept
    BY DEF DataKept, CallKept, CallInv, Succeeded, sqlite, history, Query, Take
  <1>2. TypeOK'
    BY DriverAssumption DEF TypeOK, PooledIsClean, Ops, sqlite, history, Query, Take
  <1>3. CallInv'
    BY DEF CallInv, NoCall, TypeOK, Succeeded, sqlite, history, Query, Take
  <1>4. PooledIsClean'
    BY DriverAssumption DEF PooledIsClean, OpenInv, TypeOK, CallInv, sqlite, history,
           Query, Take
  <1>5. StrayOnlyWithRows'
    BY DEF StrayOnlyWithRows, CallInv, NoCall, TypeOK, sqlite, history, Query, Take
  <1>6. QED
    BY <1>1, <1>2, <1>3, <1>4, <1>5, DataKeptIInv

\* SQLiteRows.Next starts its worker.
LEMMA NextRowIInv ==
  ASSUME IInv, NEW u \in Users, NextRow(u)
  PROVE  IInv'
  <1> USE DEF IInv, Running, RowOut
  <1>1. DataKept /\ CallKept
    BY DEF DataKept, CallKept, CallInv, Succeeded, sqlite, history, NextRow, Start, NoCall
  <1>2. TypeOK'
    BY DriverAssumption DEF TypeOK, PooledIsClean, Ops, sqlite, history, NextRow,
           Start, NoCall
  <1>3. CallInv'
    BY DEF CallInv, NoCall, TypeOK, Succeeded, sqlite, history, NextRow, Start, NoCall
  <1>4. PooledIsClean'
    BY DriverAssumption DEF PooledIsClean, OpenInv, TypeOK, CallInv, sqlite, history,
           NextRow, Start, NoCall
  <1>5. StrayOnlyWithRows'
    BY DEF StrayOnlyWithRows, CallInv, NoCall, TypeOK, sqlite, history, NextRow,
           Start, NoCall
  <1>6. QED
    BY <1>1, <1>2, <1>3, <1>4, <1>5, DataKeptIInv

\* Rows.Close, which gives the connection back outside a sql.Tx.
LEMMA RowsCloseIInv ==
  ASSUME IInv, NEW u \in Users, RowsClose(u)
  PROVE  IInv'
  <1> USE DEF IInv, Running, RowOut
  <1>1. DataKept /\ CallKept
    BY DEF DataKept, CallKept, CallInv, Succeeded, sqlite, history, RowsClose, CloseRows
  <1>2. TypeOK'
    BY DriverAssumption DEF TypeOK, PooledIsClean, Ops, sqlite, history, RowsClose,
           CloseRows
  <1>3. CallInv'
    BY DEF CallInv, NoCall, TypeOK, Succeeded, sqlite, history, RowsClose, CloseRows
  <1>4. PooledIsClean'
    BY DriverAssumption DEF PooledIsClean, OpenInv, TypeOK, CallInv, sqlite, history,
           RowsClose, CloseRows
  <1>5. StrayOnlyWithRows'
    BY DEF StrayOnlyWithRows, CallInv, NoCall, TypeOK, sqlite, history, RowsClose,
           CloseRows
  <1>6. QED
    BY <1>1, <1>2, <1>3, <1>4, <1>5, DataKeptIInv

\* The context is cancelled at any moment of a call.
LEMMA CtxDoneIInv ==
  ASSUME IInv, CtxDone
  PROVE  IInv'
  <1> USE DEF IInv, Running, RowOut
  <1>1. DataKept /\ CallKept
    BY DEF DataKept, CallKept, CallInv, Succeeded, sqlite, history, CtxDone
  <1>2. TypeOK'
    BY DriverAssumption DEF TypeOK, PooledIsClean, Ops, sqlite, history, CtxDone
  <1>3. CallInv'
    BY DEF CallInv, NoCall, TypeOK, Succeeded, sqlite, history, CtxDone
  <1>4. PooledIsClean'
    BY DriverAssumption DEF PooledIsClean, OpenInv, TypeOK, CallInv, sqlite, history,
           CtxDone
  <1>5. StrayOnlyWithRows'
    BY DEF StrayOnlyWithRows, CallInv, NoCall, TypeOK, sqlite, history, CtxDone
  <1>6. QED
    BY <1>1, <1>2, <1>3, <1>4, <1>5, DataKeptIInv

\* The caller sees it before the answer.
LEMMA SeesDoneIInv ==
  ASSUME IInv, SeesDone
  PROVE  IInv'
  <1> USE DEF IInv, Running, RowOut
  <1>1. DataKept /\ CallKept
    BY DEF DataKept, CallKept, CallInv, Succeeded, sqlite, history, SeesDone
  <1>2. TypeOK'
    BY DriverAssumption DEF TypeOK, PooledIsClean, Ops, sqlite, history, SeesDone
  <1>3. CallInv'
    BY DEF CallInv, NoCall, TypeOK, Succeeded, sqlite, history, SeesDone
  <1>4. PooledIsClean'
    BY DriverAssumption DEF PooledIsClean, OpenInv, TypeOK, CallInv, sqlite, history,
           SeesDone
  <1>5. StrayOnlyWithRows'
    BY DEF StrayOnlyWithRows, CallInv, NoCall, TypeOK, sqlite, history, SeesDone
  <1>6. QED
    BY <1>1, <1>2, <1>3, <1>4, <1>5, DataKeptIInv

\* sqlite3_interrupt, after the context is done.
LEMMA InterruptIInv ==
  ASSUME IInv, Interrupt
  PROVE  IInv'
  <1> USE DEF IInv, Running, RowOut
  <1>1. DataKept /\ CallKept
    BY DEF DataKept, CallKept, CallInv, Succeeded, sqlite, history, Interrupt, InterruptFlag
  <1>2. TypeOK'
    BY DriverAssumption DEF TypeOK, PooledIsClean, Ops, sqlite, history, Interrupt,
           InterruptFlag
  <1>3. CallInv'
    BY DEF CallInv, NoCall, TypeOK, Succeeded, sqlite, history, Interrupt, InterruptFlag
  <1>4. PooledIsClean'
    BY DriverAssumption DEF PooledIsClean, OpenInv, TypeOK, CallInv, sqlite, history,
           Interrupt, InterruptFlag
  <1>5. StrayOnlyWithRows'
    BY DEF StrayOnlyWithRows, CallInv, NoCall, TypeOK, sqlite, history, Interrupt,
           InterruptFlag
  <1>6. QED
    BY <1>1, <1>2, <1>3, <1>4, <1>5, DataKeptIInv

\* sqlite3_step of a statement that starts.
LEMMA StepIInv ==
  ASSUME IInv, Step
  PROVE  IInv'
  <1> USE DEF IInv, Running, RowOut
  <1>1. DataKept /\ CallKept
    BY DEF DataKept, CallKept, CallInv, Succeeded, sqlite, history, Step, FlagAtStart, Active
  <1>2. TypeOK'
    BY DriverAssumption DEF TypeOK, PooledIsClean, Ops, sqlite, history, Step,
           FlagAtStart, Active
  <1>3. CallInv'
    BY DEF CallInv, NoCall, TypeOK, Succeeded, sqlite, history, Step, FlagAtStart, Active
  <1>4. PooledIsClean'
    BY DriverAssumption DEF PooledIsClean, OpenInv, TypeOK, CallInv, sqlite, history,
           Step, FlagAtStart, Active
  <1>5. StrayOnlyWithRows'
    BY DEF StrayOnlyWithRows, CallInv, NoCall, TypeOK, sqlite, history, Step,
           FlagAtStart, Active
  <1>6. QED
    BY <1>1, <1>2, <1>3, <1>4, <1>5, DataKeptIInv

\* sqlite3_step of a row that is out.
LEMMA StepAgainIInv ==
  ASSUME IInv, StepAgain
  PROVE  IInv'
  <1> USE DEF IInv, Running, RowOut
  <1>1. DataKept /\ CallKept
    BY DEF DataKept, CallKept, CallInv, Succeeded, sqlite, history, StepAgain
  <1>2. TypeOK'
    BY DriverAssumption DEF TypeOK, PooledIsClean, Ops, sqlite, history, StepAgain
  <1>3. CallInv'
    BY DEF CallInv, NoCall, TypeOK, Succeeded, sqlite, history, StepAgain
  <1>4. PooledIsClean'
    BY DriverAssumption DEF PooledIsClean, OpenInv, TypeOK, CallInv, sqlite, history,
           StepAgain
  <1>5. StrayOnlyWithRows'
    BY DEF StrayOnlyWithRows, CallInv, NoCall, TypeOK, sqlite, history, StepAgain
  <1>6. QED
    BY <1>1, <1>2, <1>3, <1>4, <1>5, DataKeptIInv

\* BEGIN finds the database locked, or the interrupt flag set.
LEMMA BeginFailsIInv ==
  ASSUME IInv, BeginFails
  PROVE  IInv'
  <1> USE DEF IInv, Running, RowOut
  <1>1. DataKept /\ CallKept
    <2>1. DataKept
      BY DEF DataKept, sqlite, history, BeginFails
    <2>2. PICK r \in {"ok", "error", "interrupt"} :
             /\ Answer(r)
             /\ call.worker = "running" /\ ~Running("exec")
             /\ Running("begin") => r # "ok"
      BY DEF BeginFails
    <2>3. CallKept
      BY <2>2 DEF CallKept, CallInv, Succeeded, TypeOK, Answer
    <2>4. QED
      BY <2>1, <2>3
  <1>2. TypeOK'
    BY DriverAssumption DEF TypeOK, PooledIsClean, Ops, sqlite, history, BeginFails,
           Answer
  <1>3. CallInv'
    BY DEF CallInv, NoCall, TypeOK, Succeeded, sqlite, history, BeginFails, Answer
  <1>4. PooledIsClean'
    BY DriverAssumption DEF PooledIsClean, OpenInv, TypeOK, CallInv, sqlite, history,
           BeginFails, Answer
  <1>5. StrayOnlyWithRows'
    BY DEF StrayOnlyWithRows, CallInv, NoCall, TypeOK, sqlite, history, BeginFails,
           Answer
  <1>6. QED
    BY <1>1, <1>2, <1>3, <1>4, <1>5, DataKeptIInv

\* A constraint undoes the statement that runs.
LEMMA ExecFailsIInv ==
  ASSUME IInv, ExecFails
  PROVE  IInv'
  <1> USE DEF IInv, Running, RowOut
  <1>1. DataKept /\ CallKept
    BY DEF DataKept, CallKept, CallInv, Succeeded, sqlite, history, ExecFails, Answer
  <1>2. TypeOK'
    BY DriverAssumption DEF TypeOK, PooledIsClean, Ops, sqlite, history, ExecFails,
           Answer
  <1>3. CallInv'
    BY DEF CallInv, NoCall, TypeOK, Succeeded, sqlite, history, ExecFails, Answer
  <1>4. PooledIsClean'
    BY DriverAssumption DEF PooledIsClean, OpenInv, TypeOK, CallInv, sqlite, history,
           ExecFails, Answer
  <1>5. StrayOnlyWithRows'
    BY DEF StrayOnlyWithRows, CallInv, NoCall, TypeOK, sqlite, history, ExecFails,
           Answer
  <1>6. QED
    BY <1>1, <1>2, <1>3, <1>4, <1>5, DataKeptIInv

\* A row, the end of the rows, or an error.
LEMMA NextDoneIInv ==
  ASSUME IInv, NextDone
  PROVE  IInv'
  <1> USE DEF IInv, Running, RowOut
  <1>1. DataKept /\ CallKept
    <2>1. DataKept
      BY DEF DataKept, sqlite, history, NextDone
    <2>2. PICK r \in {"ok", "error", "interrupt"} :
             /\ Answer(r)
             /\ call.worker = "running" /\ ~Running("exec")
             /\ Running("begin") => r # "ok"
      BY DEF NextDone
    <2>3. CallKept
      BY <2>2 DEF CallKept, CallInv, Succeeded, TypeOK, Answer
    <2>4. QED
      BY <2>1, <2>3
  <1>2. TypeOK'
    BY DriverAssumption DEF TypeOK, PooledIsClean, Ops, sqlite, history, NextDone,
           Answer
  <1>3. CallInv'
    BY DEF CallInv, NoCall, TypeOK, Succeeded, sqlite, history, NextDone, Answer
  <1>4. PooledIsClean'
    BY DriverAssumption DEF PooledIsClean, OpenInv, TypeOK, CallInv, sqlite, history,
           NextDone, Answer
  <1>5. StrayOnlyWithRows'
    BY DEF StrayOnlyWithRows, CallInv, NoCall, TypeOK, sqlite, history, NextDone, Answer
  <1>6. QED
    BY <1>1, <1>2, <1>3, <1>4, <1>5, DataKeptIInv

\* SQLiteRows.Next returns; an error or the end closes the rows.
LEMMA NextReturnsIInv ==
  ASSUME IInv, NextReturns
  PROVE  IInv'
  <1> USE DEF IInv, Running, RowOut
  <1>1. DataKept /\ CallKept
    BY DEF DataKept, CallKept, CallInv, Succeeded, sqlite, history, NextReturns, Receives,
           CloseRows, NoCall
  <1>2. TypeOK'
    BY DriverAssumption DEF TypeOK, PooledIsClean, Ops, sqlite, history, NextReturns,
           Receives, CloseRows, NoCall
  <1>3. CallInv'
    BY DEF CallInv, NoCall, TypeOK, Succeeded, sqlite, history, NextReturns, Receives, CloseRows
  <1>4. PooledIsClean'
    BY DriverAssumption DEF PooledIsClean, OpenInv, TypeOK, CallInv, sqlite, history,
           NextReturns, Receives, CloseRows, NoCall
  <1>5. StrayOnlyWithRows'
    BY DEF StrayOnlyWithRows, CallInv, NoCall, TypeOK, sqlite, history, NextReturns,
           Receives, CloseRows
  <1>6. QED
    BY <1>1, <1>2, <1>3, <1>4, <1>5, DataKeptIInv

---------------------------------------------------------------------------
(* Steps that change the database or what has been reported.               *)

\* The numbers of sql.Tx and of statements can be compared.
LEMMA Numbers ==
  ASSUME TypeOK
  PROVE  /\ txs \in Nat /\ execs \in Nat /\ (tx # NoTx => tx \in Nat)
         /\ \A e \in pending \cup durable \cup reported \cup refused :
              e[2] \in Nat /\ (e[1] # NoTx => e[1] \in Nat)
         /\ committed \subseteq Nat
  BY DriverAssumption DEF TypeOK, Effects, TxNumbers

\* The effect of an Exec that runs has its type.
LEMMA EffectType == ASSUME TypeOK, CallInv, Running("exec") PROVE Effect \in Effects
  BY DriverAssumption DEF TypeOK, CallInv, Effect, Effects, TxNumbers

\* An Exec takes the connection; its number is new.
LEMMA ExecIInv ==
  ASSUME IInv, NEW u \in Users, Exec(u)
  PROVE  IInv'
  <1> USE DriverAssumption DEF IInv, Running, RowOut, Succeeded, sqlite, history, Exec, Take,
           Start
  <1>1. call' = [NoCall EXCEPT !.op = "exec"] /\ call' \in CallTypes
    BY DEF CallTypes, NoCall, Ops
  <1>2. TypeOK'
    BY <1>1, Numbers DEF TypeOK, CallTypes, Effects, TxNumbers, Ops, PooledIsClean,
           NoCall
  <1>3. CallInv'
    BY <1>1, Numbers DEF CallInv, NoCall
  <1>4. OpenInv' /\ PooledIsClean'
    BY DEF TypeOK, CallInv, OpenInv, PooledIsClean, NoCall
  <1>5. TxInv' /\ EffectInv' /\ KeptInv'
    BY Numbers DEF TypeOK, CallInv, OpenInv, TxInv, EffectInv, KeptInv, Effect, NoCall
  <1>6. RefusedHasNoEffect' /\ ReportedIsKept' /\ EscapesOnlyIfTorn'
    BY DEF RefusedHasNoEffect, ReportedIsKept, EscapesOnlyIfTorn
  <1>7. StrayOnlyWithRows'
    BY DEF StrayOnlyWithRows, CallInv, TypeOK, NoCall
  <1>8. QED
    BY <1>1, <1>2, <1>3, <1>4, <1>5, <1>6, <1>7

\* BEGIN on a connection of the pool.
LEMMA BeginIInv ==
  ASSUME IInv, NEW u \in Users, Begin(u)
  PROVE  IInv'
  <1> USE DriverAssumption DEF IInv, Running, RowOut, Succeeded, sqlite, history, Begin, Start
  <1>1. TypeOK' /\ CallInv'
    BY DEF TypeOK, CallInv, PooledIsClean, Effects, TxNumbers, Ops, NoCall
  <1>2. OpenInv' /\ PooledIsClean'
    BY DEF TypeOK, CallInv, OpenInv, PooledIsClean, NoCall
  <1>3. TxInv' /\ EffectInv' /\ KeptInv'
    BY Numbers DEF TypeOK, CallInv, OpenInv, TxInv, EffectInv, KeptInv, Effect, NoCall
  <1>4. RefusedHasNoEffect' /\ ReportedIsKept' /\ EscapesOnlyIfTorn'
    BY DEF RefusedHasNoEffect, ReportedIsKept, EscapesOnlyIfTorn
  <1>5. StrayOnlyWithRows'
    BY DEF StrayOnlyWithRows, CallInv, TypeOK, NoCall
  <1>6. QED
    BY <1>1, <1>2, <1>3, <1>4, <1>5

\* BEGIN opens a transaction, or finds one that was left open.
LEMMA BeginDoneIInv ==
  ASSUME IInv, BeginDone
  PROVE  IInv'
  <1> USE DriverAssumption DEF IInv, Running, RowOut, Succeeded, sqlite, history, BeginDone,
           Answer
  <1>1. TypeOK' /\ CallInv'
    BY DEF TypeOK, CallInv, PooledIsClean, Effects, TxNumbers, Ops
  <1>2. OpenInv' /\ PooledIsClean'
    BY DEF TypeOK, CallInv, OpenInv, PooledIsClean
  <1>3. TxInv' /\ EffectInv' /\ KeptInv'
    BY Numbers DEF TypeOK, CallInv, OpenInv, TxInv, EffectInv, KeptInv, Effect
  <1>4. RefusedHasNoEffect' /\ ReportedIsKept' /\ EscapesOnlyIfTorn'
    BY DEF RefusedHasNoEffect, ReportedIsKept, EscapesOnlyIfTorn
  <1>5. StrayOnlyWithRows'
    BY DEF StrayOnlyWithRows, CallInv, TypeOK
  <1>6. QED
    BY <1>1, <1>2, <1>3, <1>4, <1>5

\* A write statement ends: its effect is pending, or durable at once.
LEMMA ExecDoneIInv ==
  ASSUME IInv, ExecDone
  PROVE  IInv'
  <1> USE DriverAssumption DEF IInv, Running, RowOut, Succeeded, sqlite, history, ExecDone,
           Answer
  <1>1. Effect \in Effects
    BY EffectType
  <1>2. TypeOK' /\ CallInv'
    BY <1>1 DEF TypeOK, CallInv, Effects
  <1>3. OpenInv' /\ PooledIsClean'
    BY DEF TypeOK, CallInv, OpenInv, PooledIsClean, Effect
  <1>4. TxInv' /\ EffectInv' /\ KeptInv'
    BY Numbers DEF TypeOK, CallInv, OpenInv, TxInv, EffectInv, KeptInv, Effect
  <1>5. RefusedHasNoEffect' /\ ReportedIsKept' /\ EscapesOnlyIfTorn'
    BY DEF TypeOK, OpenInv, TxInv, EffectInv, KeptInv, RefusedHasNoEffect,
           ReportedIsKept,
           EscapesOnlyIfTorn, Effect
  <1>6. StrayOnlyWithRows'
    BY DEF StrayOnlyWithRows, CallInv, TypeOK
  <1>7. QED
    BY <1>1, <1>2, <1>3, <1>4, <1>5, <1>6

\* SQLite rolls the whole transaction back.
LEMMA ExecAbortedIInv ==
  ASSUME IInv, ExecAborted
  PROVE  IInv'
  <1> USE DriverAssumption DEF IInv, Running, RowOut, Succeeded, sqlite, history,
           ExecAborted, Answer, AutoCommitAgain
  <1>1. TypeOK' /\ CallInv'
    BY DEF TypeOK, CallInv, PooledIsClean, Effects, TxNumbers, Ops
  <1>2. OpenInv' /\ PooledIsClean'
    BY DEF TypeOK, CallInv, OpenInv, PooledIsClean
  <1>3. TxInv' /\ EffectInv' /\ KeptInv'
    BY Numbers DEF TypeOK, CallInv, OpenInv, TxInv, EffectInv, KeptInv, Effect
  <1>4. RefusedHasNoEffect' /\ ReportedIsKept' /\ EscapesOnlyIfTorn'
    BY DEF TypeOK, OpenInv, TxInv, EffectInv, KeptInv, RefusedHasNoEffect,
           ReportedIsKept,
           EscapesOnlyIfTorn, Effect
  <1>5. StrayOnlyWithRows'
    BY DEF StrayOnlyWithRows, CallInv, TypeOK
  <1>6. QED
    BY <1>1, <1>2, <1>3, <1>4, <1>5

\* A RETURNING clause has its first row: its effect is pending, even in
\* auto-commit.
LEMMA ExecRowIInv ==
  ASSUME IInv, ExecRow
  PROVE  IInv'
  <1> USE DriverAssumption DEF IInv, Running, RowOut, Succeeded, sqlite, history,
           ExecRow, Answer
  <1>1. Effect \in Effects
    BY EffectType
  <1>2. TypeOK' /\ CallInv'
    BY <1>1 DEF TypeOK, CallInv, Effects
  <1>3. OpenInv' /\ PooledIsClean'
    BY DEF TypeOK, CallInv, OpenInv, PooledIsClean, Effect
  <1>4. TxInv' /\ EffectInv' /\ KeptInv'
    BY Numbers DEF TypeOK, CallInv, OpenInv, TxInv, EffectInv, KeptInv, Effect
  <1>5. RefusedHasNoEffect' /\ ReportedIsKept' /\ EscapesOnlyIfTorn'
    BY Numbers DEF TypeOK, OpenInv, TxInv, EffectInv, KeptInv, RefusedHasNoEffect,
           ReportedIsKept, EscapesOnlyIfTorn, Effect
  <1>6. StrayOnlyWithRows'
    BY DEF StrayOnlyWithRows, CallInv, TypeOK
  <1>7. QED
    BY <1>1, <1>2, <1>3, <1>4, <1>5, <1>6

\* What the database and the history are like when the statement is closed,
\* whatever its worker answered.
Closed ==
    /\ autoCommit \in BOOLEAN /\ torn \subseteq TxNumbers
    /\ pending \cup durable \cup reported \cup refused \cup dropped \subseteq Effects
    /\ autoCommit => pending = {}
    /\ autoCommit \/ tx # NoTx \/ leftOpen
    /\ tx # NoTx => \A e \in pending : e[1] = tx
    /\ tx # NoTx /\ autoCommit => tx \in torn
    /\ \A e \in pending \cup durable \cup reported \cup refused : e[2] <= execs
    /\ TxInv /\ KeptInv /\ RefusedHasNoEffect /\ ReportedIsKept /\ EscapesOnlyIfTorn

\* The answer is given and the statement is closed: SQLiteConn.exec up to the
\* end of its loop.  (execs is what the next statement of the query counts up.)
LEMMA CloseStatementClosed ==
  ASSUME IInv, Running("exec"), Receives, Settle, CloseStatement,
         UNCHANGED <<tx, txs, committed, leftOpen>>, execs' \in {execs, execs + 1}
  PROVE  Closed'
  <1>1. /\ Effect \in Effects /\ Effect[1] = tx /\ Effect[2] = execs
        /\ execs \in Nat /\ execs <= execs'
    BY EffectType, Numbers DEF IInv, Effect
  <1>2. /\ \A e \in reported \cup refused : e # Effect
        /\ \A e \in pending \cup durable \cup reported \cup refused :
              e[2] \in Nat /\ e[2] <= execs
    BY <1>1, Numbers DEF IInv, EffectInv
  <1>3. tx \notin committed /\ (tx # NoTx => tx = txs)
    BY Numbers, DriverAssumption DEF IInv, TxInv, TypeOK
  <1>4. /\ autoCommit \in BOOLEAN /\ torn \subseteq TxNumbers /\ tx \in TxNumbers
        /\ pending \cup durable \cup reported \cup refused \cup dropped \subseteq Effects
    BY DEF IInv, TypeOK
  <1>5. /\ autoCommit \/ tx # NoTx \/ leftOpen
        /\ autoCommit => pending \subseteq {Effect} /\ (RowOut \/ pending = {})
        /\ tx # NoTx => \A e \in pending : e[1] = tx
        /\ tx # NoTx /\ autoCommit => tx \in torn
    BY DEF IInv, OpenInv, Running
  <1>6. TxInv /\ KeptInv /\ RefusedHasNoEffect /\ ReportedIsKept /\ EscapesOnlyIfTorn
    BY DEF IInv
  <1>n. txs \in Nat /\ (tx # NoTx => tx \in Nat) /\ NoTx \notin Nat
    BY Numbers, DriverAssumption DEF IInv
  <1>7. TxInv'
    <2>1. reported' \subseteq reported \cup {Effect}
      BY DEF Settle
    <2>2. QED
      BY ONLY <1>1, <1>3, <1>6, <1>n, <2>1, UNCHANGED <<tx, txs, committed, leftOpen>>
      DEF TxInv
  <1>8. CASE ~Accepted
    <2>1. /\ refused' = refused \cup {Effect} /\ reported' = reported
          /\ UNCHANGED <<autoCommit, pending, durable, torn, dropped>>
          /\ ~Succeeded /\ ~RowOut
      BY <1>8 DEF Settle, CloseStatement, Accepted, Outcome, Receives, Succeeded, RowOut
    <2>2. Effect \notin pending \cup durable
      BY <1>1, <2>1, Numbers DEF IInv, EffectInv
    <2>3. RefusedHasNoEffect'
      BY <1>6, <2>1, <2>2 DEF RefusedHasNoEffect
    <2>4. KeptInv' /\ ReportedIsKept' /\ EscapesOnlyIfTorn'
      BY <1>6, <2>1 DEF KeptInv, ReportedIsKept, EscapesOnlyIfTorn
    <2>5. QED
      BY <1>1, <1>2, <1>4, <1>5, <1>7, <2>1, <2>3, <2>4 DEF Closed
  <1>9. CASE Accepted /\ ~RowOut
    <2>1. /\ reported' = reported \cup {Effect} /\ refused' = refused
          /\ UNCHANGED <<autoCommit, pending, durable, torn, dropped>>
          /\ Succeeded
      BY <1>9 DEF Settle, CloseStatement, Accepted, Outcome, Receives, Succeeded, RowOut
    <2>2. Effect \in pending \cup durable
      BY <2>1 DEF IInv, EffectInv
    <2>3. tx = NoTx => Effect \in durable \/ leftOpen
      BY <1>5, <1>9, <2>2
    <2>4. KeptInv' /\ ReportedIsKept'
      BY <1>1, <1>3, <1>6, <2>1, <2>2, <2>3 DEF KeptInv, ReportedIsKept
    <2>5. RefusedHasNoEffect' /\ EscapesOnlyIfTorn'
      BY <1>6, <2>1 DEF RefusedHasNoEffect, EscapesOnlyIfTorn
    <2>6. QED
      BY <1>1, <1>2, <1>4, <1>5, <1>7, <1>9, <2>1, <2>4, <2>5 DEF Closed
  <1>10. CASE RowOut
    <2>1. /\ reported' = reported \cup {Effect} /\ refused' = refused
          /\ CloseCommits \/ CloseUndoes \/ CloseRollsBack
      BY <1>10 DEF Settle, CloseStatement, Accepted, Outcome, RowOut
    <2>2. Effect \in pending /\ Effect \notin refused
      BY <1>2, <1>10 DEF IInv, EffectInv
    <2>3. CASE CloseCommits /\ autoCommit
      <3>1. /\ durable' = durable \cup {Effect} /\ pending' = {}
            /\ UNCHANGED <<autoCommit, torn, dropped>>
        BY <1>5, <2>2, <2>3 DEF CloseCommits
      <3>2. tx \in torn \cup {NoTx}
        BY <1>5, <2>3
      <3>3. KeptInv' /\ ReportedIsKept' /\ EscapesOnlyIfTorn' /\ RefusedHasNoEffect'
        BY <1>1, <1>3, <1>6, <2>1, <2>2, <2>3, <3>1, <3>2
        DEF KeptInv, ReportedIsKept, EscapesOnlyIfTorn, RefusedHasNoEffect
      <3>4. QED
        BY <1>1, <1>2, <1>4, <1>5, <1>7, <2>1, <2>3, <3>1, <3>3 DEF Closed
    <2>4. CASE CloseCommits /\ ~autoCommit
      <3>1. UNCHANGED <<autoCommit, pending, durable, torn, dropped>>
        BY <2>4 DEF CloseCommits
      <3>2. KeptInv' /\ ReportedIsKept' /\ EscapesOnlyIfTorn' /\ RefusedHasNoEffect'
        BY <1>1, <1>3, <1>5, <1>6, <2>1, <2>2, <2>4, <3>1
        DEF KeptInv, ReportedIsKept, EscapesOnlyIfTorn, RefusedHasNoEffect
      <3>3. QED
        BY <1>1, <1>2, <1>4, <1>5, <1>7, <2>1, <2>4, <3>1, <3>2 DEF Closed
    <2>5. CASE CloseUndoes
      <3>1. /\ pending' = pending \ {Effect} /\ dropped' = dropped \cup {Effect}
            /\ UNCHANGED <<autoCommit, durable, torn>>
        BY <2>5 DEF CloseUndoes
      <3>2. KeptInv' /\ ReportedIsKept' /\ EscapesOnlyIfTorn' /\ RefusedHasNoEffect'
        BY <1>1, <1>3, <1>6, <2>1, <3>1
        DEF KeptInv, ReportedIsKept, EscapesOnlyIfTorn, RefusedHasNoEffect
      <3>3. QED
        BY <1>1, <1>2, <1>4, <1>5, <1>7, <2>1, <3>1, <3>2 DEF Closed
    <2>6. CASE CloseRollsBack
      <3>1. /\ pending' = {} /\ dropped' = dropped \cup {Effect}
            /\ autoCommit' = TRUE /\ torn' = torn \cup {tx} /\ durable' = durable
        BY <2>6 DEF CloseRollsBack
      <3>2. KeptInv' /\ ReportedIsKept' /\ EscapesOnlyIfTorn' /\ RefusedHasNoEffect'
        BY <1>1, <1>3, <1>6, <2>1, <3>1
        DEF KeptInv, ReportedIsKept, EscapesOnlyIfTorn, RefusedHasNoEffect
      <3>3. QED
        BY <1>1, <1>2, <1>4, <1>5, <1>7, <2>1, <3>1, <3>2 DEF Closed
    <2>7. QED
      BY <2>1, <2>3, <2>4, <2>5, <2>6 DEF CloseCommits
  <1>11. QED
    BY <1>8, <1>9, <1>10

\* Exec reports what its statement did.
LEMMA ExecReturnsIInv ==
  ASSUME IInv, ExecReturns
  PROVE  IInv'
  <1>1. Closed'
    BY CloseStatementClosed DEF ExecReturns
  <1> USE DriverAssumption DEF IInv, Running, RowOut, Succeeded, ExecReturns, Released
  <1>2. TypeOK'
    BY <1>1 DEF Closed, TypeOK, PooledIsClean, Ops, NoCall
  <1>3. CallInv' /\ StrayOnlyWithRows'
    BY DEF CallInv, StrayOnlyWithRows, NoCall
  <1>4. OpenInv' /\ EffectInv'
    BY <1>1 DEF Closed, OpenInv, EffectInv, NoCall
  <1>5. PooledIsClean'
    BY <1>1 DEF Closed, TypeOK, CallInv, PooledIsClean
  <1>6. QED
    BY <1>1, <1>2, <1>3, <1>4, <1>5 DEF Closed

\* Exec goes on with the next statement of its query.
LEMMA ExecNextStatementIInv ==
  ASSUME IInv, ExecNextStatement
  PROVE  IInv'
  <1>1. Closed'
    BY CloseStatementClosed DEF ExecNextStatement
  <1>2. execs \in Nat /\ \A e \in (pending \cup durable \cup reported \cup refused)' :
                           e[2] \in Nat /\ e[2] <= execs
    <2>1. (pending \cup durable \cup reported \cup refused)'
             \subseteq pending \cup durable \cup reported \cup refused \cup {Effect}
      BY DEF ExecNextStatement, Settle, CloseStatement, CloseCommits, CloseUndoes,
             CloseRollsBack
    <2>2. Effect[2] = execs
      BY DEF Effect
    <2>3. QED
      BY <2>1, <2>2, Numbers DEF IInv, EffectInv
  <1> USE DriverAssumption DEF IInv, Running, RowOut, Succeeded, ExecNextStatement
  <1>3. call' \in CallTypes
    BY DEF TypeOK, CallTypes, NoCall
  <1>4. TypeOK' /\ CallInv'
    BY <1>1, <1>2, <1>3 DEF Closed, TypeOK, CallInv, CallTypes, Ops, NoCall
  <1>5. OpenInv' /\ EffectInv'
    BY <1>1, <1>2 DEF Closed, OpenInv, EffectInv, NoCall
  <1>6. PooledIsClean' /\ StrayOnlyWithRows'
    BY DEF TypeOK, CallInv, PooledIsClean, StrayOnlyWithRows, NoCall
  <1>7. QED
    BY <1>1, <1>4, <1>5, <1>6 DEF Closed

\* BeginTx returns a new sql.Tx, or the connection to the pool.
LEMMA BeginReturnsIInv ==
  ASSUME IInv, BeginReturns
  PROVE  IInv'
  <1> USE DriverAssumption DEF IInv, Running, RowOut, Succeeded, sqlite, history,
           BeginReturns, Receives, Outcome
  <1>1. TypeOK' /\ CallInv'
    BY DEF TypeOK, CallInv, PooledIsClean, Effects, TxNumbers, Ops, NoCall
  <1>2. OpenInv' /\ PooledIsClean'
    BY DEF TypeOK, CallInv, OpenInv, PooledIsClean, NoCall
  <1>3. TxInv' /\ EffectInv' /\ KeptInv'
    BY Numbers DEF TypeOK, CallInv, OpenInv, TxInv, EffectInv, KeptInv, Effect, NoCall
  <1>4. RefusedHasNoEffect' /\ ReportedIsKept' /\ EscapesOnlyIfTorn'
    BY DEF TypeOK, OpenInv, TxInv, EffectInv, KeptInv, RefusedHasNoEffect,
           ReportedIsKept,
           EscapesOnlyIfTorn, Effect
  <1>5. StrayOnlyWithRows'
    BY DEF StrayOnlyWithRows, CallInv, TypeOK, NoCall
  <1>6. QED
    BY <1>1, <1>2, <1>3, <1>4, <1>5

\* COMMIT makes the pending effects durable.
LEMMA CommitOkIInv ==
  ASSUME IInv, NEW u \in Users, CommitOk(u)
  PROVE  IInv'
  <1> USE DriverAssumption DEF IInv, Running, RowOut, Succeeded, sqlite, history, CommitOk,
           EndTx
  <1>1. TypeOK' /\ CallInv'
    BY DEF TypeOK, CallInv, PooledIsClean, Effects, TxNumbers, Ops
  <1>2. OpenInv' /\ PooledIsClean'
    BY DEF TypeOK, CallInv, OpenInv, PooledIsClean
  <1>3. TxInv' /\ EffectInv' /\ KeptInv'
    BY Numbers DEF TypeOK, CallInv, OpenInv, TxInv, EffectInv, KeptInv, Effect
  <1>4. RefusedHasNoEffect' /\ ReportedIsKept' /\ EscapesOnlyIfTorn'
    BY DEF TypeOK, OpenInv, TxInv, EffectInv, KeptInv, RefusedHasNoEffect,
           ReportedIsKept,
           EscapesOnlyIfTorn, Effect
  <1>5. StrayOnlyWithRows'
    BY DEF StrayOnlyWithRows, CallInv, TypeOK
  <1>6. QED
    BY <1>1, <1>2, <1>3, <1>4, <1>5

\* COMMIT fails on a deferred foreign key: the transaction stays open.
LEMMA CommitConstraintIInv ==
  ASSUME IInv, NEW u \in Users, CommitConstraint(u)
  PROVE  IInv'
  <1> USE DriverAssumption DEF IInv, Running, RowOut, Succeeded, sqlite, history,
           CommitConstraint, EndTx
  <1>1. TypeOK' /\ CallInv'
    BY DEF TypeOK, CallInv, PooledIsClean, Effects, TxNumbers, Ops
  <1>2. OpenInv' /\ PooledIsClean'
    BY DEF TypeOK, CallInv, OpenInv, PooledIsClean
  <1>3. TxInv' /\ EffectInv' /\ KeptInv'
    BY Numbers DEF TypeOK, CallInv, OpenInv, TxInv, EffectInv, KeptInv, Effect
  <1>4. RefusedHasNoEffect' /\ ReportedIsKept' /\ EscapesOnlyIfTorn'
    BY DEF TypeOK, OpenInv, TxInv, EffectInv, KeptInv, RefusedHasNoEffect,
           ReportedIsKept,
           EscapesOnlyIfTorn, Effect
  <1>5. StrayOnlyWithRows'
    BY DEF StrayOnlyWithRows, CallInv, TypeOK
  <1>6. QED
    BY <1>1, <1>2, <1>3, <1>4, <1>5

\* The transaction of a sql.Tx is rolled back as the sql.Tx ends.
LEMMA RolledBackIInv ==
  ASSUME IInv, NEW u \in Users, EndTx(u), autoCommit' = TRUE, pending' = {},
         UNCHANGED <<durable, committed, torn, leftOpen>>
  PROVE  IInv'
  <1> USE DriverAssumption DEF IInv, Running, RowOut, Succeeded, EndTx
  <1>1. TypeOK' /\ CallInv'
    BY DEF TypeOK, CallInv, PooledIsClean, Effects, TxNumbers, Ops
  <1>2. OpenInv' /\ PooledIsClean'
    BY DEF TypeOK, CallInv, OpenInv, PooledIsClean
  <1>3. TxInv' /\ EffectInv' /\ KeptInv'
    BY Numbers DEF TypeOK, CallInv, OpenInv, TxInv, EffectInv, KeptInv, Effect
  <1>4. RefusedHasNoEffect' /\ ReportedIsKept' /\ EscapesOnlyIfTorn'
    BY DEF RefusedHasNoEffect, ReportedIsKept, EscapesOnlyIfTorn
  <1>5. StrayOnlyWithRows'
    BY DEF StrayOnlyWithRows, CallInv, TypeOK
  <1>6. QED
    BY <1>1, <1>2, <1>3, <1>4, <1>5

\* The ends of a sql.Tx that make nothing durable: a COMMIT that finds the
\* database locked or fails with an I/O error, a ROLLBACK, the context of the
\* sql.Tx, and both calls after SQLite has rolled back by itself.
LEMMA EndIInv ==
  ASSUME IInv, NEW u \in Users,
         \/ CommitBusy(u) \/ CommitIoError(u) \/ EndWithoutTransaction(u)
         \/ Rollback(u) \/ TxCtxDone(u)
  PROVE  IInv'
  <1>1. CASE CommitBusy(u)
    BY <1>1, RolledBackIInv DEF CommitBusy, BusyCleanup
  <1>2. CASE CommitIoError(u)
    BY <1>2, RolledBackIInv DEF CommitIoError
  <1>3. CASE EndWithoutTransaction(u)
    <2>1. autoCommit = TRUE
      BY <1>3 DEF EndWithoutTransaction, IInv, TypeOK
    <2>2. pending = {}
      BY <1>3, <2>1 DEF IInv, OpenInv, CallInv, EndWithoutTransaction, EndTx, Running
    <2>3. QED
      BY <1>3, <2>1, <2>2, RolledBackIInv DEF EndWithoutTransaction
  <1>4. CASE Rollback(u)
    BY <1>4, RolledBackIInv DEF Rollback
  <1>5. CASE TxCtxDone(u)
    BY <1>5, RolledBackIInv DEF TxCtxDone
  <1>6. QED
    BY <1>1, <1>2, <1>3, <1>4, <1>5

---------------------------------------------------------------------------
(* The theorems.                                                           *)

\* The invariant is inductive.
LEMMA NextIInv == IInv /\ [Next]_vars => IInv'
  <1> SUFFICES ASSUME IInv, [Next]_vars PROVE IInv'
    OBVIOUS
  <1>1. CASE UNCHANGED vars
    <2>1. DataKept /\ CallKept
      BY <1>1 DEF DataKept, CallKept, Running, RowOut, Succeeded, vars
    <2>2. TypeOK' /\ CallInv' /\ PooledIsClean' /\ StrayOnlyWithRows'
      BY <1>1 DEF IInv, TypeOK, CallInv, PooledIsClean, StrayOnlyWithRows, Running,
                  RowOut, Succeeded, vars
    <2>3. QED
      BY <2>1, <2>2, DataKeptIInv
  <1>2. CASE Worker
    BY <1>2, StepIInv, StepAgainIInv, BeginDoneIInv, ExecDoneIInv, ExecRowIInv, ExecFailsIInv,
       ExecAbortedIInv, BeginFailsIInv, NextDoneIInv DEF Worker
  <1>3. CASE Caller \/ CtxDone
    BY <1>3, SeesDoneIInv, InterruptIInv, ExecReturnsIInv, ExecNextStatementIInv,
       NextReturnsIInv, BeginReturnsIInv, CtxDoneIInv DEF Caller
  <1>4. ASSUME NEW u \in Users,
               Exec(u) \/ Begin(u) \/ Query(u) \/ NextRow(u) \/ RowsClose(u)
        PROVE  IInv'
    BY <1>4, ExecIInv, BeginIInv, QueryIInv, NextRowIInv, RowsCloseIInv
  <1>5. ASSUME NEW u \in Users,
               \/ CommitOk(u) \/ CommitBusy(u) \/ CommitConstraint(u) \/ CommitIoError(u)
               \/ EndWithoutTransaction(u) \/ Rollback(u) \/ TxCtxDone(u)
        PROVE  IInv'
    BY <1>5, CommitOkIInv, CommitConstraintIInv, EndIInv
  <1>6. QED
    BY <1>1, <1>2, <1>3, <1>4, <1>5 DEF Next

\* The inductive invariant, for any number of goroutines, sql.Tx and statements.
THEOREM Invariance == Spec => []IInv
  <1>1. Init => IInv
    BY InitIInv
  <1>2. IInv /\ [Next]_vars => IInv'
    BY NextIInv
  <1>3. QED
    BY <1>1, <1>2, PTL DEF Spec

\* The types of SQLiteConn, its call and its history.
THEOREM TypeCorrect == Spec => []TypeOK
  <1>1. IInv => TypeOK
    BY DEF IInv
  <1>2. QED
    BY <1>1, Invariance, PTL

\* SQLiteTx.Commit, Rollback and Rows.Close: what goes back to the pool has neither
\* a result set nor, but for a failed deferred foreign key, a transaction.
THEOREM PoolGetsCleanConnections == Spec => []PooledIsClean
  <1>1. IInv => PooledIsClean
    BY DEF IInv
  <1>2. QED
    BY <1>1, Invariance, PTL

\* SQLiteStmt.exec: an error, the cancellation included, means nothing was changed.
THEOREM ErrorsHaveNoEffect == Spec => []RefusedHasNoEffect
  <1>1. IInv => RefusedHasNoEffect
    BY DEF IInv
  <1>2. QED
    BY <1>1, Invariance, PTL

\* What Exec reported is durable once Commit has returned nil, and at once without
\* a sql.Tx unless an earlier user has left a transaction open.  The exception is a
\* statement with a RETURNING clause that s.Close() undoes, whose error exec drops.
THEOREM ReportsAreKept == Spec => []ReportedIsKept
  <1>1. IInv => ReportedIsKept
    BY DEF IInv
  <1>2. QED
    BY <1>1, Invariance, PTL

\* Work of a sql.Tx whose Commit did not return nil is durable only if SQLite had
\* rolled its transaction back before.
THEOREM OnlyTornTxEscape == Spec => []EscapesOnlyIfTorn
  <1>1. IInv => EscapesOnlyIfTorn
    BY DEF IInv
  <1>2. QED
    BY <1>1, Invariance, PTL

\* A late interrupt of SQLiteStmt.exec reaches another statement only while a row
\* of the same holder is out.
THEOREM StrayInterruptsNeedRows == Spec => []StrayOnlyWithRows
  <1>1. IInv => StrayOnlyWithRows
    BY DEF IInv
  <1>2. QED
    BY <1>1, Invariance, PTL

---------------------------------------------------------------------------
(* The start of the library, for any number of threads, of shutdowns and   *)
(* of lost contexts: a codec context stands on a complete initialization,  *)
(* and the generator of libtomcrypt is not terminated under it.            *)
(*                                                                         *)
(* Neither is inductive alone.  The resources are released by a start that *)
(* fails, so one has to know that only one thread is inside the start and  *)
(* that nobody enters it after sqlcipher_init is set; and the count must   *)
(* cover, besides the codec contexts, the one that the start itself holds, *)
(* unless its activation failed uncounted: then the mutex that it kept     *)
(* keeps the start from giving the activation back.                        *)

\* sqlcipher_extra_init from the mutex to its release.
Inside == {"mutexes", "heap", "provider", "seed", "mask", "finish"}
\* Where the start holds an activation of the provider.
Holding == {"mask", "finish"}

\* SQLITE_MUTEX_STATIC_MASTER is held exactly by the thread that is inside.
MasterInv == \A t \in Threads : pc[t] \in Inside <=> master = t

\* What the thread inside has allocated so far.
StageInv == \A t \in Threads :
    /\ pc[t] \in Inside => ~cipherInit
    /\ pc[t] \in Inside \ {"mutexes"} => mutexes
    /\ pc[t] \in {"provider", "seed"} \cup Holding => heap # 0 /\ heapSz # 0
    /\ pc[t] = "finish" => mask

\* A complete start has had its deactivation, and so an activation that
\* got beyond the registration.
ReadyInv == cipherInit => mutexes /\ heap # 0 /\ heapSz # 0 /\ mask /\ ltcInit

CodecInv ==
    /\ \A t \in codec : pc[t] = "keyed"
    /\ codec # {} => cipherInit

\* The activations: one for each codec context and one for the start; the
\* generator is missing only behind the mutex of an activation that failed.
CountInv ==
    /\ ltcRef >= Cardinality(codec)
    /\ \A t \in Threads : pc[t] \in Holding =>
            activation # NoThread \/ (ltcInit /\ ltcRef >= Cardinality(codec) + 1)
    /\ codec # {} => prng \/ activation # NoThread

StartInv == StartTypeOK /\ MasterInv /\ StageInv /\ ReadyInv /\ CodecInv /\ CountInv

---------------------------------------------------------------------------
(* The contexts are counted.                                               *)

\* There are finitely many contexts, since there are finitely many threads.
LEMMA CodecCount == StartTypeOK => IsFiniteSet(codec) /\ Cardinality(codec) \in Nat
  BY FS_Subset, FS_CardinalityType, InitAssumption DEF StartTypeOK

\* Attach (sqlcipherCodecAttach) has one context more, and CloseConn
\* (sqlite3FreeCodecArg) one less, unless the connection had none.
LEMMA CodecChange ==
  ASSUME StartTypeOK, NEW t \in Threads
  PROVE  /\ t \notin codec =>
              Cardinality(codec \cup {t}) = Cardinality(codec) + 1
         /\ t \in codec => /\ Cardinality(codec \ {t}) = Cardinality(codec) - 1
                           /\ Cardinality(codec) > 0
         /\ t \notin codec => codec \ {t} = codec
  <1>1. IsFiniteSet(codec) /\ Cardinality(codec) \in Nat
    BY CodecCount
  <1>2. t \in codec => Cardinality(codec) # 0
    BY <1>1, FS_EmptySet
  <1>3. t \notin codec => Cardinality(codec \cup {t}) = Cardinality(codec) + 1
    BY <1>1, FS_AddElement
  <1>4. t \in codec => Cardinality(codec \ {t}) = Cardinality(codec) - 1
    BY <1>1, FS_RemoveElement
  <1>5. QED
    BY <1>1, <1>2, <1>3, <1>4

\* What the callers of sqlcipher_ltc_activate can rely on: it counted them
\* if ltc_init was set before or if it left its mutex, and the generator is
\* ready unless the mutex is kept.
LEMMA Activation ==
  ASSUME StartTypeOK, NEW t \in Threads, Activate(t)
  PROVE  /\ ltcInit' \in BOOLEAN /\ prng' \in BOOLEAN
         /\ activation' \in Threads \cup {NoThread}
         /\ ltcRef' = ltcRef \/ ltcRef' = ltcRef + 1
         /\ ltcInit => ltcInit' /\ ltcRef' = ltcRef + 1
         /\ activation' = NoThread => ltcInit' /\ ltcRef' = ltcRef + 1
         /\ prng' \/ activation' # NoThread
  <1>1. CASE ActivateOk
    BY <1>1 DEF ActivateOk, Activate, StartTypeOK
  <1>2. CASE ActivateFails(t)
    BY <1>2, InitAssumption DEF ActivateFails, StartTypeOK
  <1>3. QED
    BY <1>1, <1>2 DEF Activate

---------------------------------------------------------------------------
(* The invariant.                                                          *)

\* Nobody is inside the start, nothing is allocated and nothing is counted.
LEMMA StartInitOK == StartInit => StartInv
  <1> SUFFICES ASSUME StartInit PROVE StartInv
    OBVIOUS
  <1>1. StartTypeOK
    <2>1. HeapSteps \in 0 .. HeapSteps /\ 0 \in 0 .. MaxShutdowns
          /\ 0 \in 0 .. MaxLeaks
      BY InitAssumption
    <2>2. QED
      BY <2>1 DEF StartInit, StartTypeOK, Places, Codes
  <1>2. MasterInv /\ StageInv /\ ReadyInv /\ CodecInv
    BY InitAssumption
    DEF StartInit, MasterInv, StageInv, ReadyInv, CodecInv, Inside, Holding
  <1>3. CountInv
    BY FS_EmptySet DEF StartInit, CountInv, Holding
  <1>4. QED
    BY <1>1, <1>2, <1>3 DEF StartInv

\* sqlite3_initialize up to the mutex of the extra start: isInit may be set.
LEMMA OutsideOK ==
  ASSUME StartInv, NEW t \in Threads,
         Open(t) \/ TestIsInit(t) \/ CoreInit(t) \/ CoreInitFails(t)
  PROVE  StartInv'
  <1>c. Cardinality(codec) \in Nat
    BY CodecCount DEF StartInv
  <1> USE InitAssumption, <1>c
      DEF StartInv, StartTypeOK, MasterInv, StageInv, ReadyInv, CodecInv, CountInv,
          Inside, Holding, Places, Codes, Go, resources, ltc
  <1>1. CASE Open(t)
    BY <1>1 DEF Open
  <1>2. CASE TestIsInit(t)
    BY <1>2 DEF TestIsInit
  <1>3. CASE CoreInit(t)
    BY <1>3 DEF CoreInit
  <1>4. CASE CoreInitFails(t)
    BY <1>4 DEF CoreInitFails
  <1>5. QED
    BY <1>1, <1>2, <1>3, <1>4

\* sqlcipher_extra_init under the mutex: one thread allocates, step by step.
LEMMA ExtraOK ==
  ASSUME StartInv, NEW t \in Threads,
         EnterExtra(t) \/ AllocMutexes(t) \/ AllocHeap(t) \/ ShrinkHeap(t) \/ RegisterProvider(t) \/ Seed(t) \/ AllocMask(t)
  PROVE  StartInv'
  <1>c. Cardinality(codec) \in Nat
    BY CodecCount DEF StartInv
  <1> USE InitAssumption, <1>c
      DEF StartInv, StartTypeOK, MasterInv, StageInv, ReadyInv, CodecInv, CountInv,
          Inside, Holding, Places, Codes, Go, resources, ltc
  <1>1. CASE EnterExtra(t)
    BY <1>1 DEF EnterExtra
  <1>2. CASE AllocMutexes(t)
    BY <1>2 DEF AllocMutexes
  <1>3. CASE AllocHeap(t)
    BY <1>3 DEF AllocHeap
  <1>4. CASE ShrinkHeap(t)
    BY <1>4 DEF ShrinkHeap
  <1>5. CASE RegisterProvider(t)
    BY <1>5 DEF RegisterProvider
  <1>6. CASE Seed(t)
    <2>1. Activate(t)
      BY <1>6 DEF Seed
    <2>2. StartTypeOK /\ codec = {}
      BY <1>6 DEF Seed
    <2>3. StartTypeOK'
      BY <1>6, <2>1, <2>2, Activation DEF Seed
    <2>4. MasterInv' /\ StageInv'
      BY <1>6 DEF Seed
    <2>5. ReadyInv' /\ CodecInv'
      BY <1>6, <2>2 DEF Seed
    <2>6. Cardinality(codec) = 0
      BY <2>2, FS_EmptySet
    <2>7. CountInv'
      <3>1. codec' = codec /\ ltcRef \in Nat
        BY <1>6 DEF Seed
      <3>2. ltcRef' >= 0 /\ (activation' = NoThread => ltcInit' /\ ltcRef' >= 1)
        BY <2>1, <2>2, <3>1, Activation
      <3>3. QED
        BY ONLY <2>2, <2>6, <3>1, <3>2 DEF CountInv
    <2>8. QED
      BY <2>3, <2>4, <2>5, <2>7
  <1>7. CASE AllocMask(t)
    BY <1>7 DEF AllocMask
  <1>8. QED
    BY <1>1, <1>2, <1>3, <1>4, <1>5, <1>6, <1>7

\* The end of the start: its own activation is given back, the flag is set.
LEMMA FinishOK ==
  ASSUME StartInv, NEW t \in Threads,
         Finish(t)
  PROVE  StartInv'
  <1>c. Cardinality(codec) \in Nat
    BY CodecCount DEF StartInv
  <1> USE InitAssumption, <1>c
      DEF StartInv, StartTypeOK, MasterInv, StageInv, ReadyInv, CodecInv, CountInv,
          Inside, Holding, Places, Codes, Go, resources, ltc
  <1>1. CASE Finish(t)
    BY <1>1 DEF Finish, Deactivate, LeaveMaster
  <1>2. QED
    BY <1>1

\* A start that fails takes back what only it can have allocated: no
\* connection has a context before sqlcipher_init is set.
LEMMA FailOK ==
  ASSUME StartInv, NEW t \in Threads,
         MutexFails(t) \/ HeapFails(t) \/ MaskFails(t)
  PROVE  StartInv'
  <1>c. Cardinality(codec) \in Nat
    BY CodecCount DEF StartInv
  <1> USE InitAssumption, <1>c
      DEF StartInv, StartTypeOK, MasterInv, StageInv, ReadyInv, CodecInv, CountInv,
          Inside, Holding, Places, Codes, Go, resources, ltc
  <1>1. CASE MutexFails(t)
    BY <1>1 DEF MutexFails, Fail, LeaveMaster
  <1>2. CASE HeapFails(t)
    BY <1>2 DEF HeapFails, Fail, LeaveMaster
  <1>3. CASE MaskFails(t)
    BY <1>3 DEF MaskFails, Fail, LeaveMaster
  <1>4. QED
    BY <1>1, <1>2, <1>3

\* PRAGMA key and the close: contexts come and go with their activation.
LEMMA KeyOK ==
  ASSUME StartInv, NEW t \in Threads,
         Attach(t) \/ AttachNoContext(t) \/ AttachNoMem(t) \/ AttachRefused(t) \/ CloseConn(t)
  PROVE  StartInv'
  <1>c. Cardinality(codec) \in Nat
    BY CodecCount DEF StartInv
  <1> USE InitAssumption, <1>c
      DEF StartInv, StartTypeOK, MasterInv, StageInv, ReadyInv, CodecInv, CountInv,
          Inside, Holding, Places, Codes, Go, resources, ltc
  <1>1. CASE Attach(t)
    <2>1. Activate(t) /\ StartTypeOK /\ t \notin codec /\ cipherInit /\ ltcInit
      BY <1>1 DEF Attach, MayAttach
    <2>2. StartTypeOK'
      BY <1>1, <2>1, Activation DEF Attach
    <2>3. MasterInv' /\ StageInv'
      BY <1>1 DEF Attach
    <2>4. ReadyInv' /\ CodecInv'
      BY <1>1, <2>1, Activation DEF Attach
    <2>5. CountInv'
      <3>1. ltcRef' = ltcRef + 1 /\ (prng' \/ activation' # NoThread)
        BY <2>1, Activation
      <3>2. Cardinality(codec') = Cardinality(codec) + 1
        BY <1>1, <2>1, CodecChange DEF Attach
      <3>3. \A u \in Threads : pc'[u] \notin Holding
        BY <1>1, <2>1 DEF Attach
      <3>4. ltcRef >= Cardinality(codec) /\ ltcRef \in Nat
        OBVIOUS
      <3>5. QED
        BY ONLY <1>c, <3>1, <3>2, <3>3, <3>4 DEF CountInv
    <2>6. QED
      BY <2>2, <2>3, <2>4, <2>5
  <1>n. CASE AttachNoContext(t)
    BY <1>n DEF AttachNoContext
  <1>2. CASE AttachNoMem(t)
    <2>1. Activate(t) /\ StartTypeOK /\ cipherInit /\ ltcInit
      BY <1>2 DEF AttachNoMem, MayAttach
    <2>2. StartTypeOK'
      BY <1>2, <2>1, Activation DEF AttachNoMem
    <2>3. MasterInv' /\ StageInv'
      BY <1>2 DEF AttachNoMem
    <2>4. ReadyInv' /\ CodecInv'
      BY <1>2, <2>1, Activation DEF AttachNoMem
    <2>5. CountInv'
      <3>1. ltcRef' = ltcRef + 1 /\ (prng' \/ activation' # NoThread)
        BY <2>1, Activation
      <3>2. codec' = codec
        BY <1>2 DEF AttachNoMem
      <3>3. \A u \in Threads : pc'[u] \notin Holding
        BY <1>2, <2>1 DEF AttachNoMem
      <3>4. ltcRef >= Cardinality(codec) /\ ltcRef \in Nat
        OBVIOUS
      <3>5. QED
        BY ONLY <1>c, <3>1, <3>2, <3>3, <3>4 DEF CountInv
    <2>6. QED
      BY <2>2, <2>3, <2>4, <2>5
  <1>3. CASE AttachRefused(t)
    BY <1>3 DEF AttachRefused, MayAttach
  <1>4. CASE CloseConn(t)
    <2>1. CASE t \in codec
      <3>1. /\ Cardinality(codec') = Cardinality(codec) - 1
            /\ Cardinality(codec) > 0
        BY <1>4, <2>1, CodecChange DEF CloseConn
      <3>d. /\ Deactivate /\ cipherInit
            /\ ltcRef \in Nat /\ ltcRef >= Cardinality(codec)
        BY <1>4, <2>1 DEF CloseConn
      <3>a. StartTypeOK'
        BY <1>4, <3>1, <3>d DEF CloseConn, Deactivate
      <3>b. CountInv'
        <4>1. ltcRef' >= Cardinality(codec')
          BY <1>c, <3>1, <3>d DEF Deactivate
        <4>2. \A u \in Threads : pc'[u] \notin Holding
          BY <1>4, <3>d DEF CloseConn
        <4>3. codec' # {} => ltcRef # 1
          <5>1. IsFiniteSet(codec') /\ Cardinality(codec') \in Nat
            BY <3>a, CodecCount, FS_Subset, FS_CardinalityType DEF StartTypeOK
          <5>2. codec' # {} => Cardinality(codec') # 0
            BY <5>1, FS_EmptySet
          <5>3. QED
            BY <1>c, <3>1, <3>d, <5>1, <5>2
        <4>4. codec' # {} => prng'
          BY <4>3, <3>d, <2>1 DEF Deactivate
        <4>5. QED
          BY ONLY <4>1, <4>2, <4>4 DEF CountInv
      <3>2. StartTypeOK' /\ CountInv'
        BY <3>a, <3>b
      <3>3. MasterInv' /\ StageInv' /\ ReadyInv' /\ CodecInv'
        <4>1. MasterInv' /\ StageInv'
          BY <1>4 DEF CloseConn
        <4>2. ReadyInv' /\ CodecInv'
          BY <1>4, <3>d DEF CloseConn, Deactivate
        <4>3. QED
          BY <4>1, <4>2
      <3>4. QED
        BY <3>2, <3>3
    <2>2. CASE t \notin codec
      BY <1>4, <2>2, CodecChange DEF CloseConn
    <2>3. QED
      BY <2>1, <2>2
  <1>5. QED
    BY <1>1, <1>n, <1>2, <1>3, <1>4

\* sqlite3_shutdown, with no thread inside SQLite: no context is left.
LEMMA ShutdownOK == StartInv /\ Shutdown => StartInv'
  <1> SUFFICES ASSUME StartInv, Shutdown PROVE StartInv'
    OBVIOUS
  <1>1. codec = {} /\ codec' = codec
    BY DEF StartInv, StartTypeOK, CodecInv, Shutdown
  <1>2. StartTypeOK'
    <2>1. shutdowns' \in 0 .. MaxShutdowns
      BY InitAssumption DEF StartInv, StartTypeOK, Shutdown
    <2>2. (heap' = 0 /\ provider' = 0) \/ (heap' = heap /\ provider' = provider)
      BY DEF Shutdown
    <2>3. mutexes' \in BOOLEAN /\ mask' \in BOOLEAN
      BY DEF StartInv, StartTypeOK, Shutdown
    <2>4. heap' \in Nat /\ provider' \in Nat
      BY <2>2 DEF StartInv, StartTypeOK
    <2>5. QED
      BY <2>1, <2>3, <2>4 DEF StartInv, StartTypeOK, Shutdown, Codes, ltc
  <1>3. MasterInv' /\ StageInv'
    BY DEF StartInv, MasterInv, StageInv, Shutdown, Inside, Holding
  <1>4. ReadyInv' /\ CodecInv'
    BY <1>1 DEF ReadyInv, CodecInv, Shutdown
  <1>5. CountInv'
    BY <1>1 DEF StartInv, CountInv, Shutdown, Holding, ltc
  <1>6. QED
    BY <1>2, <1>3, <1>4, <1>5 DEF StartInv

\* Every step of the program keeps the invariant.
LEMMA StartNextOK == StartInv /\ [StartNext]_startVars => StartInv'
  <1> SUFFICES ASSUME StartInv, [StartNext]_startVars PROVE StartInv'
    OBVIOUS
  <1>1. CASE Shutdown
    BY <1>1, ShutdownOK
  <1>2. ASSUME NEW t \in Threads, Open(t) \/ Advance(t) \/ CloseConn(t)
        PROVE  StartInv'
    BY <1>2, OutsideOK, ExtraOK, FinishOK, FailOK, KeyOK DEF Advance
  <1>3. CASE UNCHANGED startVars
    BY <1>3 DEF startVars, resources, ltc, StartInv, StartTypeOK, MasterInv, StageInv,
                ReadyInv, CodecInv, CountInv
  <1>4. QED
    BY <1>1, <1>2, <1>3 DEF StartNext

\* The invariant holds in every state the threads can reach.
THEOREM StartInvariance == StartSpec => []StartInv
  BY StartInitOK, StartNextOK, PTL DEF StartSpec

---------------------------------------------------------------------------
(* What follows from it.                                                   *)

\* Every variable keeps its type; in particular ltc_ref_count, which
\* sqlcipher_ltc_deactivate decrements without a test, never passes below 0.
THEOREM StartTypeCorrect == StartSpec => []StartTypeOK
  BY StartInvariance, PTL DEF StartInv

\* Under a codec context sqlcipher_init is set and the static mutexes, the private
\* heap and the shield mask are there, whatever thread made them and whatever
\* start failed before.  The provider is not part of this: see PrngIsSafe.
THEOREM ContextsAreBacked == StartSpec => []CodecHasResources
  <1>1. StartInv => CodecHasResources
    BY DEF StartInv, ReadyInv, CodecInv, CodecHasResources
  <1>2. QED
    BY <1>1, StartInvariance, PTL

\* The generator is not terminated under a connection that uses it.
THEOREM PrngIsSafe == StartSpec => []PrngServesUsers
  <1>1. StartInv => PrngServesUsers
    <2> SUFFICES ASSUME StartInv PROVE PrngServesUsers
      OBVIOUS
    <2>1. IsFiniteSet(codec) /\ Cardinality(codec) \in Nat /\ ltcRef \in Nat
      BY CodecCount DEF StartInv, StartTypeOK
    <2>2. codec # {} => Cardinality(codec) # 0
      BY <2>1, FS_EmptySet
    <2>3. QED
      BY <2>1, <2>2 DEF StartInv, CountInv, PrngServesUsers
  <1>2. QED
    BY <1>1, StartInvariance, PTL

\* Two threads are never inside sqlcipher_extra_init, and none is inside
\* once the initialization is complete: its parts are never allocated a
\* second time over the first.
THEOREM OneStart ==
    StartSpec => [](\A t, u \in Threads :
                 pc[t] \in Inside /\ pc[u] \in Inside => t = u /\ ~cipherInit)
  <1>1. StartInv => \A t, u \in Threads :
                 pc[t] \in Inside /\ pc[u] \in Inside => t = u /\ ~cipherInit
    BY DEF StartInv, MasterInv, StageInv
  <1>2. QED
    BY <1>1, StartInvariance, PTL
=============================================================================
