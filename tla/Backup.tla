------------------------------- MODULE Backup -------------------------------
(***************************************************************************)
(* The online backup: SQLiteConn.Backup, SQLiteBackup.Step and Finish over *)
(* sqlite3_backup_init, _step and _finish, and the calls of the source's   *)
(* pager that keep the copy right while the source changes under it        *)
(* (sqlite3BackupUpdate, sqlite3BackupRestart).                            *)
(*                                                                         *)
(* The source file is shared by the pager of the backup's source           *)
(* connection, which writes, spills, commits and rolls back, and by other  *)
(* processes, whose commits that pager sees at its next shared lock.  The  *)
(* content of a page is the number of the transaction that wrote it; both  *)
(* files are plain or both have a codec, which is the identity on that.    *)
(***************************************************************************)
EXTENDS Naturals, FiniteSets

CONSTANTS
    MaxPages,   \* bound: pages of the source
    MaxTx,      \* bound: write transactions on the source
    Steps       \* the arguments of SQLiteBackup.Step

ASSUME BackupAssumption ==
    /\ MaxPages \in Nat \ {0}
    /\ MaxTx \in Nat \ {0}
    /\ Steps \subseteq Nat

VARIABLES
    file,       \* pages of the source file
    size,       \* pages in its committed header
    vers,       \* its change counter
    seen,       \* Pager.dbFileVers of the source's pager
    tx,         \* a write transaction of the source's pager is open
    mem,        \* what it sees: the pages in its cache over the file
    memSize,    \* Pager.dbSize
    dirty,      \* pages that it has to write
    journal,    \* the pages before the transaction
    txs,        \* write transactions begun
    bk,         \* the sqlite3_backup
    image,      \* destination pages, in the destination's open transaction
    dest        \* the destination as it is committed

source == <<file, size, vers, seen, tx, mem, memSize, dirty, journal, txs>>
destination == <<image, dest>>
vars == <<file, size, vers, seen, tx, mem, memSize, dirty, journal, txs, bk,
          image, dest>>

Pages == 1 .. MaxPages
Blank == [p \in Pages |-> 0]

NoBackup == [open |-> FALSE, iNext |-> 1, rc |-> "ok", attached |-> FALSE]

Init ==
    /\ size \in Pages
    /\ file = [p \in Pages |-> IF p <= size THEN 1 ELSE 0]
    /\ vers = 0 /\ seen = 0
    /\ tx = FALSE /\ mem = file /\ memSize = size /\ dirty = {}
    /\ journal = file /\ txs = 1
    /\ bk = NoBackup
    /\ image = Blank /\ dest = [pages |-> Blank, size |-> 0]

\* What a reader would see: the file, or what its journal restores.
Committed == [pages |-> IF tx THEN journal ELSE file, size |-> size]

---------------------------------------------------------------------------
(* The hooks of the pager.                                                 *)

Listening == bk.open /\ bk.attached /\ bk.rc = "ok"

MutantOffByOne(p) == p + 1 < bk.iNext
\* backupUpdate: the backup has copied this page.
Copied(p) == p < bk.iNext

\* sqlite3BackupUpdate for the pages in ps, with the data in from; it may fail.
BackupUpdate(ps, from) ==
    LET hit == {p \in ps : Listening /\ Copied(p)}
    IN  \/ /\ image' = [p \in Pages |-> IF p \in hit THEN from[p] ELSE image[p]]
           /\ UNCHANGED bk
        \/ /\ hit # {}
           /\ \E done \in SUBSET hit :
                image' = [p \in Pages |-> IF p \in done THEN from[p] ELSE image[p]]
           /\ bk' = [bk EXCEPT !.rc = "fatal"]

MutantAlwaysRestarts(b) == [b EXCEPT !.iNext = 1]
\* sqlite3PagerSharedLock of the source: if the file has changed, pager_reset
\* calls sqlite3BackupRestart.
Refreshed(b) == IF b.attached /\ seen # vers THEN [b EXCEPT !.iNext = 1] ELSE b

---------------------------------------------------------------------------
(* The source.                                                             *)

\* Pages that a transaction which leaves m pages may have written: page 1
\* with the change counter, all it adds and some of the others.
Writes(m) ==
    {w \in SUBSET (1 .. m) : 1 \in w /\ (size + 1) .. m \subseteq w}

Written(w, m) ==
    [p \in Pages |-> IF p > m THEN 0 ELSE IF p \in w THEN txs + 1 ELSE file[p]]

\* Another process commits; it needs the exclusive lock.
ExternalCommit ==
    /\ ~tx /\ txs < MaxTx
    /\ txs' = txs + 1 /\ vers' = vers + 1
    /\ \E m \in Pages : \E w \in Writes(m) :
         /\ size' = m
         /\ file' = Written(w, m)
    /\ UNCHANGED <<seen, tx, mem, memSize, dirty, journal, bk, destination>>

\* A reader of the source's pager takes the shared lock, and so notices.
SourceRead ==
    /\ ~tx /\ seen # vers
    /\ seen' = vers /\ bk' = Refreshed(bk)
    /\ UNCHANGED <<file, size, vers, tx, mem, memSize, dirty, journal, txs,
                   destination>>

\* The source's pager takes its locks and a statement changes pages.
SourceWrite ==
    /\ ~tx /\ txs < MaxTx
    /\ tx' = TRUE /\ txs' = txs + 1 /\ seen' = vers
    /\ bk' = Refreshed(bk)
    /\ journal' = file
    /\ \E m \in Pages : \E w \in Writes(m) :
         mem' = Written(w, m) /\ memSize' = m /\ dirty' = w
    /\ UNCHANGED <<file, size, vers, destination>>

\* pagerStress: a dirty page goes to the file before the commit.
Spill(p) ==
    /\ tx /\ p \in dirty
    /\ file' = [file EXCEPT ![p] = mem[p]]
    /\ dirty' = dirty \ {p}
    /\ BackupUpdate({p}, mem)
    /\ UNCHANGED <<size, vers, seen, tx, mem, memSize, journal, txs, dest>>

\* pager_write_pagelist, the truncation of the file and the end of the journal.
SourceCommit ==
    /\ tx
    /\ tx' = FALSE
    /\ file' = mem /\ size' = memSize
    /\ vers' = vers + 1 /\ seen' = vers + 1
    /\ dirty' = {}
    /\ BackupUpdate(dirty, mem)
    /\ UNCHANGED <<mem, memSize, journal, txs, dest>>

Spilled == {p \in Pages : file[p] # journal[p]}

MutantSilentPlayback == {}
\* pager_playback_one_page writes a page back to the file, and to the backup.
PlayedBack == Spilled \cap (1 .. size)

SourceRollback ==
    /\ tx
    /\ tx' = FALSE
    /\ file' = journal /\ dirty' = {}
    /\ mem' = journal /\ memSize' = size
    /\ BackupUpdate(PlayedBack, journal)
    /\ UNCHANGED <<size, vers, seen, journal, txs, dest>>

---------------------------------------------------------------------------
(* The backup.                                                             *)

BackupInit ==
    /\ ~bk.open
    /\ bk' = [NoBackup EXCEPT !.open = TRUE]
    /\ image' = dest.pages
    /\ UNCHANGED <<source, dest>>

\* The loop of sqlite3_backup_step ends after n pages or at the last page.
NextAfter(b, n) ==
    IF b.iNext > size THEN b.iNext
    ELSE IF b.iNext + n > size + 1 THEN size + 1 ELSE b.iNext + n

Stepping == bk.open /\ bk.rc = "ok" /\ ~tx

CopyUpTo(b, next) ==
    image' = [p \in Pages |->
                IF p \in b.iNext .. (next - 1) THEN file[p] ELSE image[p]]

\* Pages remain: the object is attached to the source's pager.
StepMore(n) ==
    LET b == Refreshed(bk)
        next == NextAfter(b, n)
    IN  /\ Stepping
        /\ seen' = vers
        /\ next <= size
        /\ CopyUpTo(b, next)
        /\ bk' = [b EXCEPT !.iNext = next, !.attached = TRUE]
        /\ UNCHANGED <<file, size, vers, tx, mem, memSize, dirty, journal, txs,
                       dest>>

\* The last page is copied: the destination is truncated and committed.
StepDone(n) ==
    LET b == Refreshed(bk)
        next == NextAfter(b, n)
    IN  /\ Stepping
        /\ seen' = vers
        /\ next > size
        /\ CopyUpTo(b, next)
        /\ dest' = [pages |-> [p \in Pages |-> IF p <= size THEN image'[p] ELSE 0],
                    size |-> size]
        /\ bk' = [b EXCEPT !.iNext = next, !.rc = "done"]
        /\ UNCHANGED <<file, size, vers, tx, mem, memSize, dirty, journal, txs>>

\* An I/O error, out of memory or READONLY after some pages.
StepFails(n) ==
    LET b == Refreshed(bk)
    IN  /\ Stepping
        /\ seen' = vers
        /\ \E next \in b.iNext .. NextAfter(b, n) :
             /\ CopyUpTo(b, next)
             /\ bk' = [b EXCEPT !.iNext = next, !.rc = "fatal"]
        /\ UNCHANGED <<file, size, vers, tx, mem, memSize, dirty, journal, txs,
                       dest>>

\* sqlite3_backup_finish rolls the destination back; Close, Finish and the
\* finalizer all come here.
BackupFinish ==
    /\ bk.open
    /\ bk' = NoBackup
    /\ image' = dest.pages
    /\ UNCHANGED <<source, dest>>

\* The process dies: both hot journals are rolled back by the next reader.
Crash ==
    /\ bk' = NoBackup /\ image' = dest.pages
    /\ tx' = FALSE /\ file' = Committed.pages /\ dirty' = {}
    /\ mem' = Committed.pages /\ memSize' = size
    /\ UNCHANGED <<size, vers, seen, journal, txs, dest>>

Source ==
    \/ ExternalCommit \/ SourceRead \/ SourceWrite \/ SourceCommit \/ SourceRollback
    \/ \E p \in Pages : Spill(p)

Step(n) == StepMore(n) \/ StepDone(n)

Next ==
    \/ Source \/ BackupInit \/ BackupFinish \/ Crash
    \/ \E n \in Steps : Step(n) \/ StepFails(n)

Spec == Init /\ [][Next]_vars

\* Step is called again until it is done, with a positive number of pages, and
\* the source's transactions end.
FairSpec ==
    /\ Spec /\ WF_vars(SourceCommit \/ SourceRollback)
    /\ \A n \in Steps \ {0} : WF_vars(Step(n))

---------------------------------------------------------------------------
(* Properties.                                                             *)

Images == [Pages -> 0 .. MaxTx]

\* Every variable has its type; iNext is at most one past the last page.
TypeOK ==
    /\ file \in Images /\ mem \in Images /\ journal \in Images /\ image \in Images
    /\ size \in Pages /\ memSize \in Pages
    /\ vers \in Nat /\ seen \in Nat /\ txs \in 1 .. MaxTx
    /\ tx \in BOOLEAN /\ dirty \subseteq Pages
    /\ bk \in [open : BOOLEAN, iNext : 1 .. MaxPages + 1,
               rc : {"ok", "done", "fatal"}, attached : BOOLEAN]
    /\ dest \in [pages : Images, size : 0 .. MaxPages]

\* sqlite3BackupUpdate and sqlite3BackupRestart: what the backup has copied
\* is what the source file holds, spilled and rolled back pages included, as
\* long as no other process has changed the file since the last lock.
CopiedIsCurrent ==
    Listening /\ seen = vers =>
       \A p \in 1 .. size : p < bk.iNext => image[p] = file[p]

\* sqlite3_backup_step: the destination changes only at the step that returns
\* SQLITE_DONE, and is then the committed source of that moment, not a mixture
\* of moments and nothing that was rolled back.
DestIsSnapshot == [][dest' # dest => dest' = Committed]_vars

\* Once other processes leave the source alone, a backup that is stepped ends.
BackupEnds == Stepping ~> (bk.rc # "ok" \/ ~bk.open)
=============================================================================
