-------------------------- MODULE CallbacksProofs --------------------------
(***************************************************************************)
(* Proofs about Callbacks, for any number of connections and addresses:    *)
(* while a connection is open or being closed, every address SQLite calls  *)
(* with stands for the Go value it was registered for.                     *)
(*                                                                         *)
(* CallbacksResolve alone is not inductive.  Handles are made for the      *)
(* connection that a table entry names (goVOpen), so one has to know that  *)
(* no entry names a connection that has been closed, and a connection that *)
(* is opened must not find callbacks or a trace mask of an earlier one.    *)
(***************************************************************************)
EXTENDS Callbacks, TLAPS

\* deleteHandles is the last thing that happens to the handles of a
\* connection: an entry belongs to one that is open or being closed.
EntriesInv ==
    \A p \in DOMAIN handleVals : conn[handleVals[p].db] \in {"open", "closing"}

\* A trace configuration belongs to an open connection.
TraceInv == \A c \in traceMap : conn[c] = "open"

\* A SQLiteConn that has not been opened.
NewInv ==
    \A c \in Conns : conn[c] = "new" =>
        app[c] = NoApp /\ stmt[c] = NoStmt /\ ~mask[c] /\ ~backup[c]

\* Only a closed connection has an sqlite3 object that is not live.
DbInv == \A c \in Conns : conn[c] = "open" => db[c] = "live"

\* The table that a statement reads stays connected while the connection is open.
VTabInv ==
    \A c \in Conns : conn[c] = "open" /\ stmt[c].uses = "vtab" => Has(c, "vtab")

IInv ==
    TypeOK /\ CallbacksResolve /\ EntriesInv /\ TraceInv /\ NewInv /\ DbInv /\ VTabInv

\* The two halves of TypeOK: the connections, and the handles.
ConnTypeOK ==
    /\ conn \in [Conns -> {"new", "open", "closing", "closed"}]
    /\ db \in [Conns -> {"none", "live", "zombie"}]
    /\ stmt \in [Conns -> [uses : {"none", "tables", "vtab"},
                           active : BOOLEAN, closed : BOOLEAN]]
    /\ backup \in [Conns -> BOOLEAN]
    /\ mask \in [Conns -> BOOLEAN] /\ traceMap \subseteq Conns
    /\ panicked \in BOOLEAN

CursorInv == \A c \in Conns : Has(c, "cursor") => stmt[c].active

HandleTypeOK ==
    /\ DOMAIN handleVals \subseteq Ptrs
    /\ \A p \in DOMAIN handleVals : handleVals[p] \in Entries
    /\ app \in [Conns -> [Kinds -> Refs]]
    /\ nvals \in 0 .. MaxVals

\* The two halves of CallbacksResolve.
HandlesInv ==
    \A c \in Conns : conn[c] \in {"open", "closing"} =>
        \A k \in Kinds : Has(c, k) => Resolves(c, k)
MaskInv == \A c \in Conns : conn[c] = "open" /\ mask[c] => c \in traceMap

\* What an action leaves alone or has to establish, part by part.
Handles == HandleTypeOK /\ HandlesInv /\ EntriesInv
States == ConnTypeOK /\ CursorInv /\ MaskInv /\ TraceInv /\ NewInv /\ DbInv /\ VTabInv

\* The invariant splits into what the table says and what each connection says.
LEMMA IInvParts == IInv <=> Handles /\ States
  BY DEF IInv, TypeOK, CallbacksResolve, Handles, States, ConnTypeOK, CursorInv,
         HandleTypeOK, HandlesInv, MaskInv, Range

\* The same of the next state.
LEMMA IInvNext == Handles' /\ States' => IInv'
  BY DEF IInv, TypeOK, CallbacksResolve, Handles, States, ConnTypeOK, CursorInv,
         HandleTypeOK, HandlesInv, MaskInv, Range, EntriesInv, TraceInv,
         NewInv, DbInv, VTabInv, Has, Resolves, LooksUp

\* No connection is open and the table is empty.
LEMMA InitIInv == Init => IInv
  <1> SUFFICES ASSUME Init PROVE Handles /\ States
    BY IInvParts
  <1>1. NoApp \in [Kinds -> Refs] /\ NoStmt \in [uses : {"none", "tables", "vtab"},
                           active : BOOLEAN, closed : BOOLEAN]
    BY DEF NoApp, Refs, NoStmt
  <1>2. ConnTypeOK /\ MaskInv /\ TraceInv /\ NewInv /\ DbInv /\ VTabInv
    BY <1>1 DEF NoStmt, Init, ConnTypeOK, MaskInv, TraceInv, NewInv, DbInv, VTabInv
  <1>3. CursorInv
    BY DEF Init, CursorInv, Has, NoApp, Kinds
  <1>4. HandleTypeOK
    BY <1>1, CallbacksAssumption DEF Init, HandleTypeOK
  <1>5. HandlesInv /\ EntriesInv
    BY DEF Init, HandlesInv, EntriesInv
  <1>6. QED
    BY <1>2, <1>3, <1>4, <1>5 DEF Handles, States

\* The table has a new entry for p, and p stands for it.
Made(d, k, p) ==
    /\ p \notin DOMAIN handleVals
    /\ DOMAIN handleVals' = DOMAIN handleVals \cup {p}
    /\ handleVals'[p] = [db |-> d, kind |-> k, val |-> nvals + 1]
    /\ \A q \in DOMAIN handleVals : q # p /\ handleVals'[q] = handleVals[q]
    /\ nvals' \in 0 .. MaxVals /\ nvals + 1 \in 1 .. MaxVals
    /\ Ref(p) \in Refs /\ Ref(p).ptr = p /\ Ref(p).val = nvals + 1

\* newHandle: a new entry, under an address that nothing in the table has.
LEMMA NewHandleShape ==
  ASSUME Handles, NEW d \in Conns, NEW k \in Kinds, NEW p \in Ptrs,
         NewHandle(d, k, p)
  PROVE  Made(d, k, p)
  BY CallbacksAssumption DEF Made, NewHandle, FreeAddresses, Handles, HandleTypeOK, Ref, Refs

\* A handle is made for d and given to SQLite for c, or lost.
LEMMA HandleMade ==
  ASSUME Handles, NEW c \in Conns, NEW d \in Conns, conn[d] \in {"open", "closing"},
         c = d \/ conn[c] = "closed", NEW k \in Kinds, NEW p \in Ptrs,
         NewHandle(d, k, p), conn' = conn,
         app' = app \/ app' = [app EXCEPT ![c][k] = Ref(p)]
  PROVE  Handles'
  <1>1. Made(d, k, p)
    BY NewHandleShape
  <1>2. HandleTypeOK /\ HandlesInv /\ EntriesInv
    BY DEF Handles
  <1>3. app' \in [Conns -> [Kinds -> Refs]]
    BY <1>1, <1>2 DEF HandleTypeOK, Made
  <1>4. HandleTypeOK'
    <2>1. \A q \in DOMAIN handleVals' : handleVals'[q] \in Entries
      BY <1>1, <1>2 DEF HandleTypeOK, Made, Entries
    <2>2. QED
      BY <2>1, <1>1, <1>2, <1>3 DEF HandleTypeOK, Made
  <1>5. EntriesInv'
    BY <1>1, <1>2 DEF EntriesInv, Made
  <1>6. ASSUME NEW e \in Conns, conn[e] \in {"open", "closing"}, NEW j \in Kinds,
               app'[e][j] # NoRef
        PROVE  Resolves(e, j)'
    <2>1. CASE app'[e][j] = app[e][j]
      <3>1. Resolves(e, j)
        BY <2>1, <1>2, <1>6 DEF HandlesInv, Has
      <3>2. QED
        BY <3>1, <2>1, <1>1 DEF Resolves, LooksUp, Made
    <2>2. CASE app'[e][j] # app[e][j]
      <3>1. app' = [app EXCEPT ![c][k] = Ref(p)]
        BY <2>2
      <3>2. e = c /\ j = k
        BY <2>2, <3>1, <1>2 DEF HandleTypeOK
      <3>3. app'[e][j] = Ref(p) /\ c = d
        BY <3>1, <3>2, <1>2, <1>6 DEF HandleTypeOK
      <3>4. QED
        BY <3>2, <3>3, <1>1 DEF Resolves, LooksUp, Made
    <2>3. QED
      BY <2>1, <2>2
  <1>7. HandlesInv'
    BY <1>6 DEF HandlesInv, Has
  <1>8. QED
    BY <1>4, <1>5, <1>7 DEF Handles

\* What the invariant says of one connection, apart from its handles.
ConnOK(e) ==
    /\ Has(e, "cursor") => stmt[e].active
    /\ conn[e] = "open" => db[e] = "live" /\ (mask[e] => e \in traceMap)
    /\ conn[e] = "open" /\ stmt[e].uses = "vtab" => Has(e, "vtab")
    /\ e \in traceMap => conn[e] = "open"
    /\ conn[e] = "new" => app[e] = NoApp /\ stmt[e] = NoStmt /\ ~mask[e] /\ ~backup[e]

\* A call of connection c leaves the other connections alone.
OthersKept(c) ==
    \A e \in Conns \ {c} :
        /\ conn'[e] = conn[e] /\ db'[e] = db[e] /\ app'[e] = app[e]
        /\ stmt'[e] = stmt[e] /\ backup'[e] = backup[e] /\ mask'[e] = mask[e]
        /\ e \in traceMap' <=> e \in traceMap

\* The states of the connections, one connection at a time.
LEMMA StatesOf == States => ConnTypeOK /\ \A e \in Conns : ConnOK(e)
  BY DEF States, ConnOK, CursorInv, MaskInv, TraceInv, NewInv, DbInv, VTabInv

\* A call of one connection has to show only what it does to that one.
LEMMA StatesStep ==
  ASSUME States, NEW c \in Conns, OthersKept(c), ConnTypeOK', ConnOK(c)'
  PROVE  States'
  <1>1. \A e \in Conns : ConnOK(e)
    BY StatesOf
  <1>2. ASSUME NEW e \in Conns PROVE ConnOK(e)'
    <2>1. CASE e = c
      BY <2>1
    <2>2. CASE e # c
      BY <2>2, <1>1 DEF OthersKept, ConnOK, Has
    <2>3. QED
      BY <2>1, <2>2
  <1>3. traceMap' \subseteq Conns
    BY DEF ConnTypeOK
  <1>4. QED
    BY <1>2, <1>3 DEF States, ConnOK, CursorInv, MaskInv, TraceInv, NewInv, DbInv, VTabInv

\* The handles of a connection are alive until deleteHandles.
Alive(s) == s \in {"open", "closing"}

\* A call that makes no handle: SQLite forgets some references of c, or none.
LEMMA HandlesKept ==
  ASSUME Handles, NEW c \in Conns, OthersKept(c), handleVals' = handleVals, nvals' = nvals,
         Alive(conn[c]) => Alive(conn'[c]),
         Alive(conn'[c]) => Alive(conn[c]) \/ app[c] = NoApp,
         app' \in [Conns -> [Kinds -> Refs]],
         \A j \in Kinds : app'[c][j] = app[c][j] \/ app'[c][j] = NoRef
  PROVE  Handles'
  <1>1. HandleTypeOK /\ HandlesInv /\ EntriesInv
    BY DEF Handles
  <1>2. HandleTypeOK'
    BY <1>1 DEF HandleTypeOK
  <1>3. EntriesInv'
    <2>1. \A e \in Conns : Alive(conn[e]) => Alive(conn'[e])
      BY DEF OthersKept
    <2>2. QED
      BY <2>1, <1>1 DEF EntriesInv, HandleTypeOK, Entries, Alive
  <1>4. HandlesInv'
    <2> SUFFICES ASSUME NEW e \in Conns, conn'[e] \in {"open", "closing"}, NEW j \in Kinds,
                        app'[e][j] # NoRef
                 PROVE  Resolves(e, j)'
      BY DEF HandlesInv, Has
    <2>1. app'[e][j] = app[e][j]
      BY DEF OthersKept
    <2>2. conn[e] \in {"open", "closing"}
      BY <2>1 DEF OthersKept, Alive, NoApp
    <2>3. Resolves(e, j)
      BY <2>1, <2>2, <1>1 DEF HandlesInv, Has
    <2>4. QED
      BY <2>1, <2>3 DEF Resolves, LooksUp
  <1>5. QED
    BY <1>2, <1>3, <1>4 DEF Handles

\* What the proof of a step starts from.
LEMMA StepFacts ==
  ASSUME IInv, NEW c \in Conns
  PROVE  /\ Handles /\ States /\ ConnTypeOK /\ ConnOK(c)
         /\ app \in [Conns -> [Kinds -> Refs]]
         /\ app[c] \in [Kinds -> Refs]
         /\ NoRef \in Refs /\ NoApp \in [Kinds -> Refs] /\ "cursor" \in Kinds
  BY IInvParts, StatesOf DEF Handles, HandleTypeOK, NoApp, Refs, Kinds

---------------------------------------------------------------------------
(* The steps.                                                              *)

\* sqlite3_open_v2 of a new SQLiteConn.
LEMMA OpenIInv ==
  ASSUME IInv, NEW c \in Conns, Open(c)
  PROVE  IInv'
  <1> USE StepFacts
  <1>1. OthersKept(c)
    BY DEF OthersKept, ConnTypeOK, Open, trace
  <1>2. panicked' \in BOOLEAN
    BY DEF Open, ConnTypeOK
  <1>3. ConnTypeOK'
    BY <1>2 DEF ConnTypeOK, Open, trace
  <1>4. ConnOK(c)'
    BY DEF ConnOK, ConnTypeOK, Has, NoStmt, Open, trace
  <1>5. Handles'
    <2>1. app' \in [Conns -> [Kinds -> Refs]]
      BY DEF Open
    <2>2. \A j \in Kinds : app'[c][j] = app[c][j] \/ app'[c][j] = NoRef
      BY DEF Open, NoApp
    <2>3. QED
      BY <1>1, <2>1, <2>2, HandlesKept DEF Alive, ConnTypeOK, Open, ConnOK
  <1>6. QED
    BY <1>1, <1>3, <1>4, <1>5, StatesStep, IInvNext

\* A hook is replaced by a null pointer.
LEMMA RemoveHookIInv ==
  ASSUME IInv, NEW c \in Conns, RemoveHook(c)
  PROVE  IInv'
  <1> USE StepFacts
  <1>1. OthersKept(c)
    BY DEF OthersKept, ConnTypeOK, RemoveHook, trace
  <1>2. panicked' \in BOOLEAN
    BY DEF RemoveHook, ConnTypeOK
  <1>3. ConnTypeOK'
    BY <1>2 DEF ConnTypeOK, RemoveHook, trace
  <1>4. ConnOK(c)'
    BY DEF ConnOK, ConnTypeOK, Has, RemoveHook, trace
  <1>5. Handles'
    <2>1. app' \in [Conns -> [Kinds -> Refs]]
      BY DEF RemoveHook
    <2>2. \A j \in Kinds : app'[c][j] = app[c][j] \/ app'[c][j] = NoRef
      BY DEF RemoveHook, NoApp
    <2>3. QED
      BY <1>1, <2>1, <2>2, HandlesKept DEF Alive, ConnTypeOK, RemoveHook
  <1>6. QED
    BY <1>1, <1>3, <1>4, <1>5, StatesStep, IInvNext

\* sqlite3_backup_init with c as the source.
LEMMA BackupInitIInv ==
  ASSUME IInv, NEW c \in Conns, BackupInit(c)
  PROVE  IInv'
  <1> USE StepFacts
  <1>1. OthersKept(c)
    BY DEF OthersKept, ConnTypeOK, BackupInit, trace
  <1>2. panicked' \in BOOLEAN
    BY DEF BackupInit, ConnTypeOK
  <1>3. ConnTypeOK'
    BY <1>2 DEF ConnTypeOK, BackupInit, trace
  <1>4. ConnOK(c)'
    BY DEF ConnOK, ConnTypeOK, Has, BackupInit, trace
  <1>5. Handles'
    <2>1. app' \in [Conns -> [Kinds -> Refs]]
      BY DEF BackupInit
    <2>2. \A j \in Kinds : app'[c][j] = app[c][j] \/ app'[c][j] = NoRef
      BY DEF BackupInit, NoApp
    <2>3. QED
      BY <1>1, <2>1, <2>2, HandlesKept DEF Alive, ConnTypeOK, BackupInit
  <1>6. QED
    BY <1>1, <1>3, <1>4, <1>5, StatesStep, IInvNext

\* sqlite3_backup_finish, which may be the end of a zombie.
LEMMA BackupFinishIInv ==
  ASSUME IInv, NEW c \in Conns, BackupFinish(c)
  PROVE  IInv'
  <1> USE StepFacts
  <1>1. OthersKept(c)
    BY DEF OthersKept, ConnTypeOK, BackupFinish, trace
  <1>2. panicked' \in BOOLEAN
    BY DEF BackupFinish, Call, ConnTypeOK
  <1>3. ConnTypeOK'
    <2>1. UNCHANGED <<conn, stmt, traceMap>> /\ backup' = [backup EXCEPT ![c] = FALSE]
      BY DEF BackupFinish
    <2>2. db' = db \/ db' = [db EXCEPT ![c] = "none"]
      BY Zenon DEF BackupFinish
    <2>3. mask' = mask \/ mask' = [mask EXCEPT ![c] = FALSE]
      BY Zenon DEF BackupFinish
    <2>4. mask' \in [Conns -> BOOLEAN]
      BY <2>3 DEF ConnTypeOK
    <2>5. QED
      BY <2>1, <2>2, <2>4, <1>2 DEF ConnTypeOK
  <1>4. ConnOK(c)'
    <2>1. CASE db[c] = "zombie" /\ stmt[c] = NoStmt
      <3>1. conn'[c] # "open" /\ conn'[c] # "new" /\ traceMap' = traceMap /\ conn' = conn
        BY <2>1 DEF BackupFinish, ConnOK, ConnTypeOK
      <3>2. app'[c] = NoApp
        BY <2>1 DEF BackupFinish
      <3>3. QED
        BY <3>1, <3>2 DEF ConnOK, Has, NoApp
    <2>2. CASE ~(db[c] = "zombie" /\ stmt[c] = NoStmt)
      BY <2>2 DEF BackupFinish, ConnOK, ConnTypeOK, Has
    <2>3. QED
      BY <2>1, <2>2
  <1>5. Handles'
    <2>1. app' \in [Conns -> [Kinds -> Refs]]
      BY DEF BackupFinish
    <2>2. \A j \in Kinds : app'[c][j] = app[c][j] \/ app'[c][j] = NoRef
      BY DEF BackupFinish, NoApp
    <2>3. QED
      BY <1>1, <2>1, <2>2, HandlesKept DEF Alive, ConnTypeOK, BackupFinish
  <1>6. QED
    BY <1>1, <1>3, <1>4, <1>5, StatesStep, IInvNext

\* A statement on ordinary tables.
LEMMA PrepareIInv ==
  ASSUME IInv, NEW c \in Conns, Prepare(c)
  PROVE  IInv'
  <1> USE StepFacts
  <1>1. OthersKept(c)
    BY DEF OthersKept, ConnTypeOK, Prepare, trace
  <1>2. panicked' \in BOOLEAN
    BY DEF Prepare, ConnTypeOK
  <1>3. ConnTypeOK'
    BY <1>2 DEF ConnTypeOK, Prepare, trace
  <1>4. ConnOK(c)'
    BY DEF ConnOK, ConnTypeOK, Has, Prepare, trace
  <1>5. Handles'
    <2>1. app' \in [Conns -> [Kinds -> Refs]]
      BY DEF Prepare
    <2>2. \A j \in Kinds : app'[c][j] = app[c][j] \/ app'[c][j] = NoRef
      BY DEF Prepare, NoApp
    <2>3. QED
      BY <1>1, <2>1, <2>2, HandlesKept DEF Alive, ConnTypeOK, Prepare
  <1>6. QED
    BY <1>1, <1>3, <1>4, <1>5, StatesStep, IInvNext

\* sqlite3_step, on an open connection or a zombie.
LEMMA StepIInv ==
  ASSUME IInv, NEW c \in Conns, Step(c)
  PROVE  IInv'
  <1> USE StepFacts
  <1>1. OthersKept(c)
    BY DEF OthersKept, ConnTypeOK, Step, trace
  <1>2. panicked' \in BOOLEAN
    BY DEF Step
  <1>3. ConnTypeOK'
    BY <1>2 DEF ConnTypeOK, Step, trace
  <1>4. ConnOK(c)'
    BY DEF ConnOK, ConnTypeOK, Has, Step, trace, CanStep
  <1>5. Handles'
    <2>1. app' \in [Conns -> [Kinds -> Refs]]
      BY DEF Step
    <2>2. \A j \in Kinds : app'[c][j] = app[c][j] \/ app'[c][j] = NoRef
      BY DEF Step, NoApp
    <2>3. QED
      BY <1>1, <2>1, <2>2, HandlesKept DEF Alive, ConnTypeOK, Step
  <1>6. QED
    BY <1>1, <1>3, <1>4, <1>5, StatesStep, IInvNext

\* The Open method of a virtual table fails.
LEMMA CursorOpenFailsIInv ==
  ASSUME IInv, NEW c \in Conns, CursorOpenFails(c)
  PROVE  IInv'
  <1> USE StepFacts
  <1>1. OthersKept(c)
    BY DEF OthersKept, ConnTypeOK, CursorOpenFails, trace
  <1>2. panicked' \in BOOLEAN
    BY DEF CursorOpenFails
  <1>3. ConnTypeOK'
    BY <1>2 DEF ConnTypeOK, CursorOpenFails, trace
  <1>4. ConnOK(c)'
    BY DEF ConnOK, ConnTypeOK, Has, CursorOpenFails, trace, CanStep
  <1>5. Handles'
    <2>1. app' \in [Conns -> [Kinds -> Refs]]
      BY DEF CursorOpenFails
    <2>2. \A j \in Kinds : app'[c][j] = app[c][j] \/ app'[c][j] = NoRef
      BY DEF CursorOpenFails, NoApp
    <2>3. QED
      BY <1>1, <2>1, <2>2, HandlesKept DEF Alive, ConnTypeOK, CursorOpenFails
  <1>6. QED
    BY <1>1, <1>3, <1>4, <1>5, StatesStep, IInvNext

\* The end of the rows closes the cursor.
LEMMA ResetIInv ==
  ASSUME IInv, NEW c \in Conns, Reset(c)
  PROVE  IInv'
  <1> USE StepFacts
  <1>1. OthersKept(c)
    BY DEF OthersKept, ConnTypeOK, Reset, trace, ClosesCursor
  <1>2. panicked' \in BOOLEAN
    BY DEF Reset, ClosesCursor, Call
  <1>3. ConnTypeOK'
    BY <1>2 DEF ConnTypeOK, Reset, trace
  <1>4. ConnOK(c)'
    BY DEF ConnOK, ConnTypeOK, Has, Reset, trace, CanStep, ClosesCursor
  <1>5. Handles'
    <2>1. app' \in [Conns -> [Kinds -> Refs]]
      BY DEF Reset, ClosesCursor
    <2>2. \A j \in Kinds : app'[c][j] = app[c][j] \/ app'[c][j] = NoRef
      BY DEF Reset, NoApp, ClosesCursor
    <2>3. QED
      BY <1>1, <2>1, <2>2, HandlesKept DEF Alive, ConnTypeOK, Reset
  <1>6. QED
    BY <1>1, <1>3, <1>4, <1>5, StatesStep, IInvNext

\* SQLiteStmt.Close finalizes the statement of an open connection only.
LEMMA StmtCloseIInv ==
  ASSUME IInv, NEW c \in Conns, StmtClose(c)
  PROVE  IInv'
  <1> USE StepFacts
  <1>1. OthersKept(c)
    BY DEF OthersKept, ConnTypeOK, StmtClose, trace, ClosesCursor
  <1>2. panicked' \in BOOLEAN
    BY DEF StmtClose, ClosesCursor, Call, ConnTypeOK
  <1>3. ConnTypeOK'
    <2>1. stmt' = [stmt EXCEPT ![c] = NoStmt] \/ stmt' = [stmt EXCEPT ![c].closed = TRUE]
      BY DEF StmtClose
    <2>2. stmt' \in [Conns -> [uses : {"none", "tables", "vtab"},
                               active : BOOLEAN, closed : BOOLEAN]]
      <3>1. NoStmt \in [uses : {"none", "tables", "vtab"},
                        active : BOOLEAN, closed : BOOLEAN]
        BY DEF NoStmt
      <3>2. CASE stmt' = [stmt EXCEPT ![c] = NoStmt]
        BY <3>1, <3>2 DEF ConnTypeOK
      <3>3. CASE stmt' = [stmt EXCEPT ![c].closed = TRUE]
        BY <3>3 DEF ConnTypeOK
      <3>4. QED
        BY <2>1, <3>2, <3>3
    <2>3. UNCHANGED <<conn, db, backup, mask, traceMap>>
      BY DEF StmtClose, trace
    <2>4. QED
      BY <2>2, <2>3, <1>2 DEF ConnTypeOK
  <1>4. ConnOK(c)'
    <2>1. UNCHANGED <<conn, db, backup, mask, traceMap>> /\ conn[c] # "new"
      BY DEF StmtClose, CanStep, ConnOK, trace
    <2>2. CASE conn[c] = "open"
      BY <2>1, <2>2 DEF StmtClose, ClosesCursor, ConnOK, ConnTypeOK, Has, NoStmt
    <2>3. CASE conn[c] # "open"
      <3>1. app' = app /\ stmt'[c].active = stmt[c].active
        BY <2>3 DEF StmtClose, ConnTypeOK
      <3>2. QED
        BY <2>1, <2>3, <3>1 DEF ConnOK, Has
    <2>4. QED
      BY <2>2, <2>3
  <1>5. Handles'
    <2>1. app' \in [Conns -> [Kinds -> Refs]]
      BY DEF StmtClose, ClosesCursor
    <2>2. \A j \in Kinds : app'[c][j] = app[c][j] \/ app'[c][j] = NoRef
      BY DEF StmtClose, NoApp, ClosesCursor
    <2>3. QED
      BY <1>1, <2>1, <2>2, HandlesKept DEF Alive, ConnTypeOK, StmtClose
  <1>6. QED
    BY <1>1, <1>3, <1>4, <1>5, StatesStep, IInvNext

\* sqlite3_close_v2: its callbacks still find the handles.
LEMMA CloseV2IInv ==
  ASSUME IInv, NEW c \in Conns, CloseV2(c)
  PROVE  IInv'
  <1> USE StepFacts
  <1>1. OthersKept(c)
    BY DEF OthersKept, ConnTypeOK, CloseV2, trace
  <1>2. panicked' \in BOOLEAN
    BY DEF CloseV2
  <1>3. ConnTypeOK'
    BY <1>2 DEF ConnTypeOK, CloseV2, trace
  <1>4. ConnOK(c)'
    BY DEF ConnOK, ConnTypeOK, Has, CloseV2, trace, NoApp
  <1>5. Handles'
    <2>1. app' \in [Conns -> [Kinds -> Refs]]
      BY DEF CloseV2
    <2>2. \A j \in Kinds : app'[c][j] = app[c][j] \/ app'[c][j] = NoRef
      BY DEF CloseV2, NoApp
    <2>3. QED
      BY <1>1, <2>1, <2>2, HandlesKept DEF Alive, ConnTypeOK, CloseV2, HandlesAtClose
  <1>6. QED
    BY <1>1, <1>3, <1>4, <1>5, StatesStep, IInvNext

\* SetTrace writes the trace mask and traceMap together.
LEMMA SetTraceIInv ==
  ASSUME IInv, NEW c \in Conns, NEW on \in BOOLEAN, SetTrace(c, on)
  PROVE  IInv'
  <1> USE StepFacts
  <1>1. OthersKept(c)
    BY DEF OthersKept, ConnTypeOK, SetTrace
  <1>2. ConnTypeOK'
    BY DEF ConnTypeOK, SetTrace
  <1>3. mask'[c] => c \in traceMap'
    BY DEF SetTrace, ConnTypeOK
  <1>4. ConnOK(c)'
    BY <1>3 DEF ConnOK, ConnTypeOK, Has, SetTrace
  <1>5. Handles'
    BY <1>1, HandlesKept DEF SetTrace
  <1>6. QED
    BY <1>1, <1>2, <1>4, <1>5, StatesStep, IInvNext

\* RegisterFunc and its kin, the hooks and CreateModule make a handle.
LEMMA RegisterIInv ==
  ASSUME IInv, NEW c \in Conns, RegisterFunc(c) \/ RegisterHook(c) \/ CreateModule(c)
  PROVE  IInv'
  <1> USE StepFacts
  <1>1. PICK k \in {"function", "hook", "module"}, p \in Ptrs :
          /\ NewHandle(c, k, p)
          /\ app' = app \/ app' = [app EXCEPT ![c][k] = Ref(p)]
    BY DEF RegisterFunc, RegisterHook, CreateModule
  <1>2. /\ conn[c] = "open"
        /\ UNCHANGED <<conn, db, stmt, backup, mask, traceMap, panicked>>
    BY DEF RegisterFunc, RegisterHook, CreateModule, trace
  <1>3. k \in Kinds /\ k # "cursor" /\ k # "vtab" /\ "vtab" \in Kinds
    BY DEF Kinds
  <1>4. /\ OthersKept(c)
        /\ app'[c]["cursor"] = app[c]["cursor"] /\ app'[c]["vtab"] = app[c]["vtab"]
    BY <1>1, <1>2, <1>3 DEF OthersKept
  <1>5. ConnTypeOK' /\ ConnOK(c)'
    BY <1>2, <1>4 DEF ConnTypeOK, ConnOK, Has
  <1>6. Handles'
    BY <1>1, <1>2, <1>3, HandleMade
  <1>7. QED
    BY <1>4, <1>5, <1>6, StatesStep, IInvNext

\* goMInit makes the handle of a table; a statement on it later makes none.
LEMMA PrepareVTabIInv ==
  ASSUME IInv, NEW c \in Conns, PrepareVTab(c)
  PROVE  IInv'
  <1> USE StepFacts
  <1>1. /\ conn[c] = "open" /\ stmt[c] = NoStmt
        /\ stmt' = [stmt EXCEPT ![c].uses = "vtab"]
        /\ UNCHANGED <<conn, db, backup, mask, traceMap>>
    BY DEF PrepareVTab, trace
  <1>2. \/ UNCHANGED <<handleVals, app, nvals>>
        \/ \E p \in Ptrs : /\ NewHandle(c, "vtab", p)
                           /\ app' = [app EXCEPT ![c]["vtab"] = Ref(p)]
    BY DEF PrepareVTab
  <1>3. panicked' \in BOOLEAN
    BY DEF PrepareVTab, Call
  <1>4. OthersKept(c) /\ app'[c]["cursor"] = app[c]["cursor"]
    BY <1>1, <1>2 DEF OthersKept
  <1>5. ConnTypeOK'
    BY <1>1, <1>3 DEF ConnTypeOK
  <1>6. ConnOK(c)'
    <2>1. Has(c, "vtab")'
      BY <1>2, CallbacksAssumption DEF PrepareVTab, Has, Ref, NoRef, Kinds
    <2>2. QED
      BY <1>1, <1>4, <2>1 DEF ConnOK, ConnTypeOK, Has, NoStmt
  <1>7. Handles'
    <2>1. CASE UNCHANGED <<handleVals, app, nvals>>
      BY <2>1, <1>1, <1>4, HandlesKept
    <2>2. CASE \E p \in Ptrs : /\ NewHandle(c, "vtab", p)
                               /\ app' = [app EXCEPT ![c]["vtab"] = Ref(p)]
      BY <2>2, <1>1, HandleMade DEF Kinds
    <2>3. QED
      BY <2>1, <2>2, <1>2
  <1>8. QED
    BY <1>4, <1>5, <1>6, <1>7, StatesStep, IInvNext

\* goVOpen makes the handle of a cursor, for the connection of the table entry:
\* that is the connection of the statement, or the statement's connection is
\* closed and the address belongs to another one by now.
LEMMA StepOpensCursorIInv ==
  ASSUME IInv, NEW c \in Conns, StepOpensCursor(c)
  PROVE  IInv'
  <1> USE StepFacts
  <1>1. /\ stmt[c] # NoStmt /\ conn[c] # "closing"
        /\ stmt' = [stmt EXCEPT ![c].active = TRUE]
        /\ UNCHANGED <<conn, db, backup, mask, traceMap>>
    BY DEF StepOpensCursor, CanStep, trace
  <1>2. \/ UNCHANGED <<handleVals, app, nvals>>
        \/ LooksUp(c, "vtab") /\ \E p \in Ptrs :
              /\ NewHandle(handleVals[app[c]["vtab"].ptr].db, "cursor", p)
              /\ app' = [app EXCEPT ![c]["cursor"] = Ref(p)]
    BY DEF StepOpensCursor
  <1>3. panicked' \in BOOLEAN
    BY DEF StepOpensCursor, Call
  <1>4. OthersKept(c)
    BY <1>1, <1>2 DEF OthersKept
  <1>5. ConnTypeOK'
    BY <1>1, <1>3 DEF ConnTypeOK
  <1>6. conn[c] # "new"
    BY <1>1 DEF ConnOK
  <1>7. ConnOK(c)'
    <2>1. stmt'[c].active /\ stmt'[c].uses = stmt[c].uses
      BY <1>1 DEF ConnTypeOK
    <2>2. app'[c]["vtab"] = app[c]["vtab"]
      BY <1>2 DEF Kinds
    <2>3. QED
      BY <2>1, <2>2, <1>1, <1>6 DEF ConnOK, Has
  <1>8. Handles'
    <2>1. CASE UNCHANGED <<handleVals, app, nvals>>
      BY <2>1, <1>1, <1>4, HandlesKept
    <2>2. ASSUME LooksUp(c, "vtab"), NEW d, d = handleVals[app[c]["vtab"].ptr].db, NEW p \in Ptrs,
                 NewHandle(d, "cursor", p), app' = [app EXCEPT ![c]["cursor"] = Ref(p)]
          PROVE  Handles'
      <3>1. d \in Conns /\ conn[d] \in {"open", "closing"}
        BY <2>2 DEF LooksUp, Handles, HandleTypeOK, EntriesInv, Entries
      <3>2. c = d \/ conn[c] = "closed"
        <4>1. CASE conn[c] = "open"
          <5>1. app[c]["vtab"] # NoRef
            BY <2>2, CallbacksAssumption DEF LooksUp, NoRef, Handles, HandleTypeOK
          <5>2. QED
            BY <4>1, <5>1, <2>2 DEF Handles, HandlesInv, Has, Resolves, Kinds
        <4>2. QED
          BY <4>1, <1>1, <1>6 DEF ConnTypeOK
      <3>3. QED
        BY ONLY <3>1, <3>2, <2>2, <1>1, StepFacts, IInv, HandleMade
    <2>3. QED
      BY <2>1, <2>2, <1>2
  <1>9. QED
    BY <1>4, <1>5, <1>7, <1>8, StatesStep, IInvNext

\* deleteHandles drops the entries of c, which is closed from then on.
LEMMA DeleteHandlesIInv ==
  ASSUME IInv, NEW c \in Conns, DeleteHandles(c)
  PROVE  IInv'
  <1> USE StepFacts
  <1>1. /\ conn[c] = "closing" /\ conn' = [conn EXCEPT ![c] = "closed"]
        /\ UNCHANGED <<db, app, stmt, backup, mask, traceMap, nvals, panicked>>
    BY DEF DeleteHandles, trace
  <1>2. /\ DOMAIN handleVals' = Kept(c)
        /\ \A p \in Kept(c) : handleVals'[p] = handleVals[p]
    BY DEF DeleteHandles, Restrict
  <1>3. \A p \in Kept(c) : p \in DOMAIN handleVals /\ handleVals[p].db # c
    BY DEF Kept
  <1>4. OthersKept(c) /\ ConnTypeOK' /\ ConnOK(c)'
    BY <1>1 DEF OthersKept, ConnTypeOK, ConnOK, Has
  <1>5. HandleTypeOK'
    BY <1>1, <1>2, <1>3 DEF Handles, HandleTypeOK
  <1>6. EntriesInv'
    BY <1>1, <1>2, <1>3 DEF Handles, EntriesInv, HandleTypeOK, Entries, ConnTypeOK
  <1>7. ASSUME NEW e \in Conns, conn'[e] \in {"open", "closing"}, NEW j \in Kinds, Has(e, j)
        PROVE  Resolves(e, j)'
    <2>1. e # c /\ conn[e] = conn'[e]
      BY <1>1, <1>7 DEF ConnTypeOK
    <2>2. Resolves(e, j)
      BY <2>1, <1>7 DEF Handles, HandlesInv
    <2>3. app[e][j].ptr \in Kept(c)
      BY <2>1, <2>2 DEF Resolves, LooksUp, Kept
    <2>4. QED
      BY <2>2, <2>3, <1>1, <1>2 DEF Resolves, LooksUp
  <1>8. HandlesInv'
    BY <1>1, <1>7 DEF HandlesInv, Has
  <1>9. QED
    BY <1>4, <1>5, <1>6, <1>8, StatesStep, IInvNext DEF Handles

---------------------------------------------------------------------------
(* The theorems.                                                           *)

\* The invariant is inductive.
LEMMA NextIInv == IInv /\ [Next]_vars => IInv'
  <1> SUFFICES ASSUME IInv, [Next]_vars PROVE IInv'
    OBVIOUS
  <1>1. CASE UNCHANGED vars
    BY <1>1 DEF vars, trace, IInv, TypeOK, CallbacksResolve, EntriesInv, TraceInv,
                NewInv, DbInv, VTabInv, Has, Resolves, LooksUp
  <1>2. CASE Next
    BY <1>2, OpenIInv, RegisterIInv, RemoveHookIInv, BackupInitIInv, BackupFinishIInv,
       SetTraceIInv, PrepareIInv, PrepareVTabIInv, StepIInv, StepOpensCursorIInv,
       CursorOpenFailsIInv, ResetIInv, StmtCloseIInv, CloseV2IInv, DeleteHandlesIInv
       DEF Next
  <1>3. QED
    BY <1>1, <1>2

\* The inductive invariant, for any number of connections and addresses.
THEOREM Invariance == Spec => []IInv
  <1>1. Init => IInv
    BY InitIInv
  <1>2. IInv /\ [Next]_vars => IInv'
    BY NextIInv
  <1>3. QED
    BY <1>1, <1>2, PTL DEF Spec

\* The types of callback.go, sqlite3_trace.go and the sqlite3 objects.
THEOREM TypeCorrect == Spec => []TypeOK
  <1>1. IInv => TypeOK
    BY DEF IInv
  <1>2. QED
    BY <1>1, Invariance, PTL

\* lookupHandle of an open or closing connection finds the registered value,
\* whatever addresses malloc gives out again.
THEOREM HandlesResolve == Spec => []CallbacksResolve
  <1>1. IInv => CallbacksResolve
    BY DEF IInv
  <1>2. QED
    BY <1>1, Invariance, PTL

\* Close leaves neither a handle nor a trace configuration of the connection.
THEOREM CloseCleansUp == Spec => []ClosedLeavesNothing
  <1>1. IInv => ClosedLeavesNothing
    BY DEF IInv, EntriesInv, TraceInv, ClosedLeavesNothing
  <1>2. QED
    BY <1>1, Invariance, PTL

---------------------------------------------------------------------------

\* The calls in which SQLite calls back, except the opening of a cursor by a
\* table whose Open method fails (CursorOpenFails).
CallsBack(c) ==
    \/ PrepareVTab(c) \/ Step(c) \/ StepOpensCursor(c) \/ Reset(c) \/ StmtClose(c)
    \/ CloseV2(c) \/ BackupFinish(c)

\* A step that panics, in lookupHandle or goTrace, is either the null cursor of
\* a table whose Open method failed, which can happen on an open connection, or
\* a callback of a connection that SQLiteConn.Close has closed before.
PanicHasCause ==
    panicked' => \E c \in Conns : CursorOpenFails(c) \/ (conn[c] # "open" /\ CallsBack(c))

\* An open connection with a callback of kind k finds it.
LEMMA OpenLooksUp ==
  ASSUME IInv, NEW c \in Conns, conn[c] = "open", NEW k \in Kinds, Has(c, k)
  PROVE  LooksUp(c, k)
  BY DEF IInv, CallbacksResolve, Resolves

\* Every other step leaves the process alive.
LEMMA OtherStepsSucceed == IInv /\ [Next]_vars => [PanicHasCause]_vars
  <1> SUFFICES ASSUME IInv, Next, panicked',
                      NEW c \in Conns,
                      \/ Open(c) \/ RegisterFunc(c) \/ RegisterHook(c) \/ RemoveHook(c)
                      \/ CreateModule(c) \/ BackupInit(c) \/ \E on \in BOOLEAN : SetTrace(c, on)
                      \/ Prepare(c) \/ DeleteHandles(c)
                      \/ conn[c] = "open" /\ CallsBack(c)
               PROVE  FALSE
    BY DEF Next, PanicHasCause, CallsBack
  <1>1. ~panicked
    BY DEF Next
  <1>2. conn[c] = "open" /\ mask[c] => c \in traceMap
    BY DEF IInv, CallbacksResolve
  <1>3. conn[c] = "open" => \A k \in Kinds : Has(c, k) => LooksUp(c, k)
    BY OpenLooksUp
  <1>4. {"function", "hook", "module", "vtab", "cursor"} = Kinds
    BY DEF Kinds
  <1>5. CASE conn[c] = "open" /\ PrepareVTab(c)
    BY <1>3, <1>4, <1>5 DEF PrepareVTab, Call
  <1>6. CASE conn[c] = "open" /\ Step(c)
    BY <1>2, <1>3, <1>4, <1>6 DEF Step
  <1>7. CASE conn[c] = "open" /\ StepOpensCursor(c)
    <2>1. Has(c, "vtab")
      BY <1>7 DEF StepOpensCursor, IInv, VTabInv
    <2>2. QED
      BY <2>1, <1>3, <1>4, <1>7 DEF StepOpensCursor, Call
  <1>8. CASE conn[c] = "open" /\ Reset(c)
    BY <1>3, <1>4, <1>8 DEF Reset, ClosesCursor, Call
  <1>9. CASE conn[c] = "open" /\ StmtClose(c)
    BY <1>3, <1>4, <1>9 DEF StmtClose, ClosesCursor, Call
  <1>10. CASE conn[c] = "open" /\ CloseV2(c)
    BY <1>2, <1>3, <1>4, <1>10 DEF CloseV2, Released
  <1>11. CASE conn[c] = "open" /\ BackupFinish(c)
    <2>1. db[c] = "live"
      BY <1>11 DEF IInv, DbInv
    <2>2. QED
      BY <2>1, <1>1, <1>11 DEF BackupFinish
  <1>12. ASSUME \/ Open(c) \/ RegisterFunc(c) \/ RegisterHook(c) \/ RemoveHook(c)
                \/ CreateModule(c) \/ BackupInit(c) \/ \E on \in BOOLEAN : SetTrace(c, on)
                \/ Prepare(c) \/ DeleteHandles(c)
         PROVE  panicked' = panicked
    BY <1>12 DEF Open, RegisterFunc, RegisterHook, RemoveHook, CreateModule, BackupInit,
       SetTrace, Prepare, DeleteHandles
  <1>13. QED
    BY <1>1, <1>5, <1>6, <1>7, <1>8, <1>9, <1>10, <1>11, <1>12 DEF CallsBack

\* The process ends in a callback only when the Open method of a virtual table
\* has failed or the connection had been closed before: on an open connection
\* no handle and no trace configuration that SQLite looks up is missing.
THEOREM PanicsHaveTwoCauses == Spec => [][PanicHasCause]_vars
  <1>1. IInv /\ [Next]_vars => [PanicHasCause]_vars
    BY OtherStepsSucceed
  <1>2. QED
    BY <1>1, Invariance, PTL DEF Spec
=============================================================================
