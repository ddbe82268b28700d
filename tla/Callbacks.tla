----------------------------- MODULE Callbacks -----------------------------
(***************************************************************************)
(* Go values that SQLite calls back: the handle table of callback.go,      *)
(* RegisterFunc, the hooks, CreateModule and the virtual tables and        *)
(* cursors of sqlite3_opt_vtable.go, SetTrace and its traceMap, and what   *)
(* SQLiteConn.Close, SQLiteStmt.Close and sqlite3_close_v2 do with them.   *)
(*                                                                         *)
(* SQLite holds an address from malloc; the table gives the Go value.  An  *)
(* address is used again after free.  A connection is used by one          *)
(* goroutine at a time, as database/sql does; connections run in parallel. *)
(***************************************************************************)
EXTENDS Naturals, FiniteSets, Functions

CONSTANTS
    Conns,      \* SQLiteConn objects
    Ptrs,       \* addresses that malloc(1) can return
    NoPtr,      \* the null pointer
    MaxVals     \* bound: handles made in a behaviour

ASSUME CallbacksAssumption == NoPtr \notin Ptrs /\ MaxVals \in Nat

VARIABLES
    conn,       \* SQLiteConn: new, open, closing (deleteHandles is next), closed
    db,         \* its sqlite3 object: none, live or zombie
    handleVals, \* the table: address -> [db, kind, val]
    app,        \* what the sqlite3 object calls: kind -> [ptr, val]
    stmt,       \* the prepared statement of the connection
    backup,     \* an unfinished backup reads from the connection
    mask,       \* sqlite3_trace_v2 is on
    traceMap,   \* connections with a trace configuration
    nvals,      \* handles made so far
    panicked    \* a Go panic in a callback: the process is gone

vars == <<conn, db, handleVals, app, stmt, backup, mask, traceMap, nvals, panicked>>
trace == <<mask, traceMap>>

\* A function, collation or aggregator; a hook; a module, its table, a cursor.
Kinds == {"function", "hook", "module", "vtab", "cursor"}
NoRef == [ptr |-> NoPtr, val |-> 0]
NoApp == [k \in Kinds |-> NoRef]
NoStmt == [uses |-> "none", active |-> FALSE, closed |-> FALSE]

Init ==
    /\ conn = [c \in Conns |-> "new"]
    /\ db = [c \in Conns |-> "none"]
    /\ handleVals = <<>>
    /\ app = [c \in Conns |-> NoApp]
    /\ stmt = [c \in Conns |-> NoStmt]
    /\ backup = [c \in Conns |-> FALSE]
    /\ mask = [c \in Conns |-> FALSE] /\ traceMap = {}
    /\ nvals = 0 /\ panicked = FALSE

---------------------------------------------------------------------------
(* The handle table.                                                       *)

\* The addresses that malloc can return.
FreeAddresses == Ptrs \ DOMAIN handleVals

\* newHandle(c, v) returned p.
NewHandle(c, k, p) ==
    /\ nvals < MaxVals /\ p \in FreeAddresses
    /\ nvals' = nvals + 1
    /\ handleVals' = [q \in DOMAIN handleVals \cup {p} |->
                        IF q = p THEN [db |-> c, kind |-> k, val |-> nvals + 1]
                        ELSE handleVals[q]]

MutantKeepsCursors(c) ==
    {p \in DOMAIN handleVals : handleVals[p].db # c \/ handleVals[p].kind = "cursor"}
\* deleteHandles keeps the handles of the other connections.
Kept(c) == {p \in DOMAIN handleVals : handleVals[p].db # c}

Ref(p) == [ptr |-> p, val |-> nvals + 1]
Has(c, k) == app[c][k] # NoRef

\* lookupHandle(ptr).(*T): no entry, or one of another type, is a panic.
LooksUp(c, k) ==
    LET p == app[c][k].ptr
    IN  p \in DOMAIN handleVals /\ handleVals[p].kind = k
Call(c, ks) == panicked' = ~(\A k \in ks : LooksUp(c, k))

---------------------------------------------------------------------------
(* The calls of an open connection.                                        *)

Open(c) ==
    /\ conn[c] = "new"
    /\ conn' = [conn EXCEPT ![c] = "open"] /\ db' = [db EXCEPT ![c] = "live"]
    /\ UNCHANGED <<handleVals, app, stmt, backup, trace, nvals, panicked>>

\* RegisterFunc, RegisterAggregator, RegisterCollation.  A function of this
\* name cannot be replaced while a statement runs; the new handle stays.
RegisterFunc(c) ==
    /\ conn[c] = "open"
    /\ \E p \in Ptrs :
         /\ NewHandle(c, "function", p)
         /\ app' = IF Has(c, "function") /\ stmt[c].active THEN app
                   ELSE [app EXCEPT ![c]["function"] = Ref(p)]
    /\ UNCHANGED <<conn, db, stmt, backup, trace, panicked>>

\* Register..Hook and RegisterAuthorizer replace the callback or remove it.
RegisterHook(c) ==
    /\ conn[c] = "open"
    /\ \E p \in Ptrs : /\ NewHandle(c, "hook", p)
                       /\ app' = [app EXCEPT ![c]["hook"] = Ref(p)]
    /\ UNCHANGED <<conn, db, stmt, backup, trace, panicked>>

RemoveHook(c) ==
    /\ conn[c] = "open" /\ Has(c, "hook")
    /\ app' = [app EXCEPT ![c]["hook"] = NoRef]
    /\ UNCHANGED <<conn, db, handleVals, stmt, backup, trace, nvals, panicked>>

CreateModule(c) ==
    /\ conn[c] = "open" /\ ~Has(c, "module")
    /\ \E p \in Ptrs : /\ NewHandle(c, "module", p)
                       /\ app' = [app EXCEPT ![c]["module"] = Ref(p)]
    /\ UNCHANGED <<conn, db, stmt, backup, trace, panicked>>

SetTrace(c, on) ==
    /\ conn[c] = "open"
    /\ traceMap' = IF on THEN traceMap \cup {c} ELSE traceMap \ {c}
    /\ mask' = [mask EXCEPT ![c] = on]
    /\ UNCHANGED <<conn, db, handleVals, app, stmt, backup, nvals, panicked>>

BackupInit(c) ==
    /\ conn[c] = "open" /\ ~backup[c]
    /\ backup' = [backup EXCEPT ![c] = TRUE]
    /\ UNCHANGED <<conn, db, handleVals, app, stmt, trace, nvals, panicked>>

---------------------------------------------------------------------------
(* Statements.                                                             *)

Prepare(c) ==
    /\ conn[c] = "open" /\ stmt[c] = NoStmt
    /\ stmt' = [stmt EXCEPT ![c].uses = "tables"]
    /\ UNCHANGED <<conn, db, handleVals, app, backup, trace, nvals, panicked>>

\* The statement reads the virtual table; goMInit connects it the first time.
PrepareVTab(c) ==
    /\ conn[c] = "open" /\ stmt[c] = NoStmt /\ Has(c, "module")
    /\ stmt' = [stmt EXCEPT ![c].uses = "vtab"]
    /\ IF Has(c, "vtab")
       THEN Call(c, {"vtab"}) /\ UNCHANGED <<handleVals, app, nvals>>
       ELSE /\ Call(c, {"module"})
            /\ \E p \in Ptrs : /\ NewHandle(c, "vtab", p)
                               /\ app' = [app EXCEPT ![c]["vtab"] = Ref(p)]
    /\ UNCHANGED <<conn, db, backup, trace>>

\* Rows.Next and Stmt.Exec ask for s.closed, not for the connection, and so
\* run on a zombie too.
CanStep(c) == stmt[c] # NoStmt /\ ~stmt[c].closed /\ conn[c] # "closing"

\* sqlite3_step calls functions, hooks, an open cursor and the trace.
Step(c) ==
    /\ CanStep(c)
    /\ stmt[c].uses = "vtab" => Has(c, "cursor")
    /\ stmt' = [stmt EXCEPT ![c].active = TRUE]
    /\ \E ks \in SUBSET {k \in {"function", "hook"} : Has(c, k)} :
         panicked' = ~( /\ \A k \in ks : LooksUp(c, k)
                        /\ Has(c, "cursor") => LooksUp(c, "cursor")
                        /\ mask[c] => c \in traceMap )
    /\ UNCHANGED <<conn, db, handleVals, app, backup, trace, nvals>>

\* goVOpen.  The cursor belongs to the connection of the table it finds.
StepOpensCursor(c) ==
    /\ CanStep(c)
    /\ stmt[c].uses = "vtab" /\ ~Has(c, "cursor")
    /\ Call(c, {"vtab"})
    /\ stmt' = [stmt EXCEPT ![c].active = TRUE]
    /\ IF LooksUp(c, "vtab")
       THEN \E p \in Ptrs :
              /\ NewHandle(handleVals[app[c]["vtab"].ptr].db, "cursor", p)
              /\ app' = [app EXCEPT ![c]["cursor"] = Ref(p)]
       ELSE UNCHANGED <<handleVals, app, nvals>>
    /\ UNCHANGED <<conn, db, backup, trace>>

\* The Open method of the table fails.  cXOpen returns SQLITE_OK with a null
\* cursor all the same, and the xFilter that follows looks it up.
CursorOpenFails(c) ==
    /\ CanStep(c)
    /\ stmt[c].uses = "vtab" /\ ~Has(c, "cursor")
    /\ panicked' = TRUE
    /\ UNCHANGED <<conn, db, handleVals, app, stmt, backup, trace, nvals>>

\* sqlite3_reset and sqlite3_finalize: goVClose.  Its handle stays.
ClosesCursor(c) ==
    /\ Call(c, {k \in {"cursor"} : Has(c, k)})
    /\ app' = [app EXCEPT ![c]["cursor"] = NoRef]

\* Rows.Close and the end of the rows.
Reset(c) ==
    /\ CanStep(c) /\ stmt[c].active
    /\ stmt' = [stmt EXCEPT ![c].active = FALSE]
    /\ ClosesCursor(c)
    /\ UNCHANGED <<conn, db, handleVals, backup, trace, nvals>>

\* SQLiteStmt.Close, also as the finalizer of the garbage collector: the
\* statement of a closed connection is never finalized.
StmtClose(c) ==
    /\ CanStep(c)
    /\ IF conn[c] = "open"
       THEN /\ stmt' = [stmt EXCEPT ![c] = NoStmt]
            /\ ClosesCursor(c)
       ELSE /\ stmt' = [stmt EXCEPT ![c].closed = TRUE]
            /\ UNCHANGED <<app, panicked>>
    /\ UNCHANGED <<conn, db, handleVals, backup, trace, nvals>>

---------------------------------------------------------------------------
(* The end of a connection.                                                *)

Busy(c) == stmt[c] # NoStmt \/ backup[c]

\* xDisconnect of a table that no statement uses, xDestroy of the module when
\* nothing keeps the sqlite3 object.
Released(c) ==
    {k \in {"vtab"} : Has(c, k) /\ stmt[c].uses # "vtab"}
        \cup {k \in {"module"} : Has(c, k) /\ ~Busy(c)}

MutantDeletesFirst(c) == handleVals' = Restrict(handleVals, Kept(c))
\* sqlite3_close_v2 runs with the handles still in the table.
HandlesAtClose(c) == UNCHANGED handleVals

\* The first half of SQLiteConn.Close: sqlite3_close_v2.
CloseV2(c) ==
    /\ conn[c] = "open"
    /\ conn' = [conn EXCEPT ![c] = "closing"]
    /\ HandlesAtClose(c)
    /\ panicked' = ~( /\ \A k \in Released(c) : LooksUp(c, k)
                      /\ mask[c] => c \in traceMap )
    /\ traceMap' = traceMap \ {c}
    /\ db' = [db EXCEPT ![c] = IF Busy(c) THEN "zombie" ELSE "none"]
    /\ app' = [app EXCEPT ![c] = IF Busy(c)
                                 THEN [k \in Kinds |-> IF k \in Released(c) THEN NoRef
                                                       ELSE @[k]]
                                 ELSE NoApp]
    /\ mask' = [mask EXCEPT ![c] = @ /\ Busy(c)]
    /\ UNCHANGED <<stmt, backup, nvals>>

\* The second half: deleteHandles, c.db = nil.
DeleteHandles(c) ==
    /\ conn[c] = "closing"
    /\ conn' = [conn EXCEPT ![c] = "closed"]
    /\ handleVals' = Restrict(handleVals, Kept(c))
    /\ UNCHANGED <<db, app, stmt, backup, trace, nvals, panicked>>

\* sqlite3_backup_finish frees a zombie that has no statement.
BackupFinish(c) ==
    /\ backup[c] /\ conn[c] # "closing"
    /\ backup' = [backup EXCEPT ![c] = FALSE]
    /\ IF db[c] = "zombie" /\ stmt[c] = NoStmt
       THEN /\ db' = [db EXCEPT ![c] = "none"]
            /\ Call(c, {k \in {"module"} : Has(c, k)})
            /\ app' = [app EXCEPT ![c] = NoApp]
            /\ mask' = [mask EXCEPT ![c] = FALSE]
       ELSE UNCHANGED <<db, app, mask, panicked>>
    /\ UNCHANGED <<conn, handleVals, stmt, traceMap, nvals>>

Next ==
    /\ ~panicked
    /\ \E c \in Conns :
        \/ Open(c) \/ RegisterFunc(c) \/ RegisterHook(c) \/ RemoveHook(c)
        \/ CreateModule(c) \/ BackupInit(c) \/ BackupFinish(c)
        \/ \E on \in BOOLEAN : SetTrace(c, on)
        \/ Prepare(c) \/ PrepareVTab(c) \/ Step(c) \/ StepOpensCursor(c)
        \/ CursorOpenFails(c) \/ Reset(c) \/ StmtClose(c)
        \/ CloseV2(c) \/ DeleteHandles(c)

Spec == Init /\ [][Next]_vars

---------------------------------------------------------------------------
(* Properties.                                                             *)

Entries == [db : Conns, kind : Kinds, val : 1 .. MaxVals]
Refs == [ptr : Ptrs, val : 1 .. MaxVals] \cup {NoRef}

\* Every variable has its type; a cursor is open only in an active statement.
TypeOK ==
    /\ conn \in [Conns -> {"new", "open", "closing", "closed"}]
    /\ db \in [Conns -> {"none", "live", "zombie"}]
    /\ DOMAIN handleVals \subseteq Ptrs /\ Range(handleVals) \subseteq Entries
    /\ app \in [Conns -> [Kinds -> Refs]]
    /\ stmt \in [Conns -> [uses : {"none", "tables", "vtab"},
                           active : BOOLEAN, closed : BOOLEAN]]
    /\ \A c \in Conns : Has(c, "cursor") => stmt[c].active
    /\ backup \in [Conns -> BOOLEAN]
    /\ mask \in [Conns -> BOOLEAN] /\ traceMap \subseteq Conns
    /\ nvals \in 0 .. MaxVals /\ panicked \in BOOLEAN

\* The handle that SQLite holds still stands for the value it was made for.
Resolves(c, k) ==
    /\ LooksUp(c, k)
    /\ LET e == handleVals[app[c][k].ptr]
       IN  e.db = c /\ e.val = app[c][k].val

\* Until deleteHandles, through every replacement and through the callbacks of
\* sqlite3_close_v2 itself, each callback reaches the Go value that was
\* registered, though addresses are freed and used again by other connections.
CallbacksResolve ==
    \A c \in Conns : conn[c] \in {"open", "closing"} =>
        /\ \A k \in Kinds : Has(c, k) => Resolves(c, k)
        /\ conn[c] = "open" /\ mask[c] => c \in traceMap

\* sqlite3.go: "fi must outlast the database connection, or we'll have
\* dangling pointers": so for as long as SQLite holds the pointers.
OutlastsDatabase ==
    \A c \in Conns : \A k \in Kinds : Has(c, k) => Resolves(c, k)

\* A closed connection leaves no handle and no trace configuration behind,
\* which would keep it and all that its callbacks refer to alive.
ClosedLeavesNothing ==
    \A c \in Conns : conn[c] = "closed" =>
        c \notin traceMap /\ \A p \in DOMAIN handleVals : handleVals[p].db # c
=============================================================================
