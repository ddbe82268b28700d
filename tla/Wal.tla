--------------------------------- MODULE Wal ---------------------------------
(***************************************************************************)
(* Write-ahead logging (wal.c in the amalgamation): processes that share a *)
(* database file, its WAL file and the wal-index in shared memory.  Readers*)
(* hold a read mark, one writer appends frames, a checkpointer copies      *)
(* frames back into the database, the log is restarted when all of it has  *)
(* been copied and no reader needs it, and whoever finds the wal-index     *)
(* header torn rebuilds it from the WAL file.  A process may die between   *)
(* any two steps; a power failure also loses any part of what no sync has  *)
(* covered.                                                                *)
(*                                                                         *)
(* The content of a page is a number that names the transaction that wrote *)
(* it and whether it is the draft that a cache spill wrote or the final    *)
(* content.  A checksum is the sequence of the frames that it covers, and  *)
(* a pair of salts is a number that is never drawn twice.                  *)
(***************************************************************************)
EXTENDS Integers, Sequences, FiniteSets, FiniteSetsExt

CONSTANTS Procs,        \* the connections, each in a process of its own
          NPage,        \* pages of the database
          NReader,      \* WAL_NREADER, the number of read locks
          Modes,        \* the checkpoint modes in use
          SyncModes,    \* PRAGMA synchronous of the writers: "NORMAL", "FULL"
          Spills,       \* sets of pages that a cache spill may write
          Commits,      \* sets of pages that a commit may write
          MaxTx,        \* bound: write transactions
          MaxFrame,     \* bound: frames in the WAL file
          MaxSalt,      \* bound: pairs of salts drawn
          Faults,       \* what may go wrong: "crash", "power", "error"
          MaxFault,     \* bound: how often
          CrashInRestart, \* whether a process may die in walRestartHdr behind
                          \* the header, before nBackfill is reset,
          CrashOverEmpty  \* or between the copies of the header of a log that
                          \* was empty already

ASSUME NReaderAssumption == NReader \in Nat /\ NReader >= 2
ASSUME ModesAssumption   == Modes \subseteq {"PASSIVE", "FULL", "RESTART", "TRUNCATE"}

VARIABLES db, dbDisk,   \* the database file, and what the disk may hold of it
          wal, walDisk, \* the WAL file, and what the disk may hold of it
          aHdr,         \* the two copies of the wal-index header
          aPgno,        \* the page of each frame, in the wal-index
          nBackfill,    \* frames already copied into the database
          aReadMark,    \* the read marks
          conn,         \* the private state of each connection
          nextTx, salts, faults,                  \* bounded counters
          log, doubt, durable                     \* history, see SnapshotStore

files  == <<db, dbDisk, wal, walDisk>>
index  == <<aHdr, aPgno, nBackfill, aReadMark>>
bounds == <<nextTx, salts, faults>>
ghosts == <<log, doubt, durable>>
vars   == <<files, index, conn, bounds, ghosts>>

Pages    == 1..NPage
Draft(t) == 2 * t
Final(t) == 2 * t + 1
Contents == 0..Final(MaxTx)
DbState  == [Pages -> Contents]
NoCache  == [p \in {} |-> 0]
NOT_USED == MaxFrame + 1                \* READMARK_NOT_USED

ASSUME MaxFrameAssumption == MaxFrame \in Nat
(* A spill writes the page that pagerStress is given, a commit some page:  *)
(* pagerWalFrames gets page 1 when no other page is dirty.                 *)
ASSUME WritesAssumption == /\ NPage \in Nat
                           /\ Spills \cup Commits \subseteq (SUBSET Pages) \ {{}}

Entry  == [pg : Pages, val : Contents, trunc : BOOLEAN]
Torn   == [pg |-> 1, val |-> 0, trunc |-> FALSE, salt |-> 0, cksum |-> <<>>]
NoWal  == [salt |-> 0, f |-> <<>>]
NoHdr  == [isInit |-> FALSE, iChange |-> 0, mxFrame |-> 0, salt |-> 0, cksum |-> <<>>]

(* A connection between two operations, or closed.                         *)
Rest(pc, h, cached) ==
    [pc |-> pc, hdr |-> h, cache |-> cached, readLock |-> -1, mi |-> 0, mv |-> 0,
     minFrame |-> 0, writeLock |-> FALSE, ckptLock |-> FALSE, excl |-> FALSE,
     tx |-> 0, spilled |-> {}, todo |-> {}, commit |-> FALSE, iFirst |-> 0,
     iReCksum |-> 0, iFrame |-> 0, synced |-> FALSE,
     mode |-> "PASSIVE", mxSafe |-> 0, changed |-> FALSE]
Closed == Rest("off", NoHdr, NoCache)
Off(c) == conn[c].pc = "off"

------------------------------------------------------------------------------
(* The WAL file                                                            *)

(* A file after a sync: the disk holds what was written last.  Before one, *)
(* it may hold any content written since the sync before.                  *)
SyncedDb(d)  == [p \in Pages |-> {d[p]}]
SyncedWal(w) == [salt |-> {w.salt}, f |-> [i \in 1..Len(w.f) |-> {w.f[i]}]]
AlsoFrame(disk, i, fr) ==
    [disk EXCEPT !.f = [j \in 1..Max({i, Len(@)}) |->
        (IF j <= Len(@) THEN @[j] ELSE {Torn}) \cup (IF j = i THEN {fr} ELSE {})]]

Body(fr)  == [pg |-> fr.pg, val |-> fr.val, trunc |-> fr.trunc]
Put(f, i, fr) == [j \in 1..Max({i, Len(f)}) |-> IF j = i THEN fr ELSE f[j]]

(* walDecodeFrame: the salts are those of the header and the cumulative    *)
(* checksum covers exactly the frames that stand before and in this one.   *)
ValidFrame(w, i) == /\ w.f[i].salt = w.salt
                    /\ w.f[i].cksum = [j \in 1..i |-> Body(w.f[j])]
ValidTo(w) == IF w.salt = 0 THEN 0
              ELSE Max({n \in 0..Len(w.f) : \A i \in 1..n : ValidFrame(w, i)})
LastCommit(w) == Max({0} \cup {i \in 1..ValidTo(w) : w.f[i].trunc})

Overlay(d, f, n) ==
    [p \in Pages |-> LET at == {i \in 1..n : f[i].pg = p}
                     IN  IF at = {} THEN d[p] ELSE f[Max(at)].val]

(* What the database holds for whoever recovers it from the two files.     *)
Recovered(d, w) == Overlay(d, w.f, LastCommit(w))

------------------------------------------------------------------------------
(* Locks on the wal-index, derived from who stands where.  They belong to  *)
(* a process and vanish with it.                                           *)

WriteLockFree   == \A c \in Procs : ~conn[c].writeLock
CkptLockFree    == \A c \in Procs : ~conn[c].ckptLock
Backfilling(c)  == conn[c].pc = "copy"
Restarting(c)   == conn[c].pc \in {"rst0", "rst", "trunc"}
SharedOn(i)     == {c \in Procs : conn[c].readLock = i}
MayShare(i)     == IF i = 0 THEN \A c \in Procs : ~Backfilling(c)
                   ELSE \A c \in Procs : ~Restarting(c)
MayExclude(i)   == MayShare(i) /\ SharedOn(i) = {}
NoReaderOfLog   == \A i \in 1..(NReader - 1) : MayExclude(i)
OthersOff(c)    == \A d \in Procs \ {c} : Off(d)
DbFileFree      == \A c \in Procs : ~conn[c].excl

Clean == aHdr[0] = aHdr[1] /\ aHdr[0].isInit
Live  == aHdr[0]

(* walFindFrame: the newest frame of a page within the snapshot.           *)
FindUpTo(c, p, n) == Max({0} \cup {i \in conn[c].minFrame..n : i > 0 /\ aPgno[i] = p})
FindFrame(c, p)   == IF conn[c].readLock <= 0 THEN 0
                     ELSE FindUpTo(c, p, conn[c].hdr.mxFrame)

(* What a page read returns to a connection, and what it would return      *)
(* without the frames of its own unfinished transaction.                   *)
ReadFrame(p, i) == IF i = 0 THEN db[p] ELSE wal.f[i].val
ReadPage(c, p)  == ReadFrame(p, FindFrame(c, p))
Snapshot(c) == [p \in Pages |-> ReadFrame(p,
    IF conn[c].readLock <= 0 THEN 0
    ELSE FindUpTo(c, p, IF conn[c].writeLock THEN Min({conn[c].hdr.mxFrame, Live.mxFrame})
                        ELSE conn[c].hdr.mxFrame))]

(* The states between the start and the end of a transaction.              *)
InWrite(c) == conn[c].writeLock /\ ~conn[c].ckptLock
InTx(c)    == conn[c].pc = "read" \/ InWrite(c)

Fault(kind) == kind \in Faults /\ faults < MaxFault /\ faults' = faults + 1

------------------------------------------------------------------------------
Init == /\ db = [p \in Pages |-> 0] /\ dbDisk = SyncedDb(db)
        /\ wal = NoWal /\ walDisk = SyncedWal(wal)
        /\ aHdr = [k \in {0, 1} |-> NoHdr]
        /\ aPgno = [i \in 1..MaxFrame |-> 0]
        /\ nBackfill = 0
        /\ aReadMark = [i \in 0..(NReader - 1) |-> 0]
        /\ conn = [c \in Procs |-> Closed]
        /\ nextTx = 1 /\ salts = 0 /\ faults = 0
        /\ log = <<db>> /\ doubt = {} /\ durable = 1

ZeroIndex == /\ aHdr' = [k \in {0, 1} |-> NoHdr]
             /\ aPgno' = [i \in 1..MaxFrame |-> 0]
             /\ nBackfill' = 0
             /\ aReadMark' = [i \in 0..(NReader - 1) |-> 0]

(* sqlite3WalOpen and the first mapping of the wal-index.  The first       *)
(* process to map it finds the dead-man switch free and empties it; nobody *)
(* opens a database that another connection holds EXCLUSIVE to close it.   *)
Open(c) == /\ Off(c) /\ DbFileFree
           /\ conn' = [conn EXCEPT ![c] = Rest("idle", NoHdr, NoCache)]
           /\ IF \A d \in Procs : Off(d) THEN ZeroIndex ELSE UNCHANGED index
           /\ UNCHANGED <<files, bounds, ghosts>>

------------------------------------------------------------------------------
(* Recovery of the wal-index                                               *)

(* walIndexReadHdr: the header is torn or zero, and still is once the      *)
(* WRITE lock is held.  walIndexRecover takes CKPT and RECOVER as well,    *)
(* reads the WAL, enters every valid frame in the index, those after the   *)
(* last commit too, and writes the second copy of the header.  "why" is    *)
(* what the connection wanted the header for.                              *)
RecoverFrames(c, why) ==
    /\ conn[c].pc = "idle" /\ ~Clean
    /\ WriteLockFree /\ CkptLockFree
    /\ why = "close" => OthersOff(c)
    /\ LET mx == LastCommit(wal)
           h  == [isInit |-> TRUE, iChange |-> 0, mxFrame |-> mx,
                  salt |-> IF wal.f = <<>> THEN 0 ELSE wal.salt,
                  cksum |-> IF mx = 0 THEN <<>> ELSE wal.f[mx].cksum]
       IN  /\ aHdr' = [aHdr EXCEPT ![1] = h]
           /\ conn' = [conn EXCEPT ![c] =
                  [Rest("rec0", h, IF why = "begin" THEN NoCache ELSE conn[c].cache)
                      EXCEPT !.writeLock = TRUE, !.ckptLock = TRUE, !.changed = TRUE,
                             !.mode = why, !.excl = (why = "close")]]
    /\ aPgno' = IF wal.f = <<>> THEN aPgno
                ELSE [i \in 1..MaxFrame |-> IF i <= ValidTo(wal) THEN wal.f[i].pg ELSE 0]
    /\ UNCHANGED <<files, nBackfill, aReadMark, bounds, ghosts>>

(* The second half of walIndexWriteHdr makes the result visible.           *)
RecoverHdr(c) ==
    /\ conn[c].pc = "rec0"
    /\ aHdr' = [aHdr EXCEPT ![0] = conn[c].hdr]
    /\ conn' = [conn EXCEPT ![c].pc = "rec"]
    /\ LET s == Recovered(db, wal)
       IN  IF [at |-> Len(log), db |-> s] \in doubt THEN log' = Append(log, s) /\ doubt' = {}
           ELSE UNCHANGED <<log, doubt>>
    /\ UNCHANGED <<files, aPgno, nBackfill, aReadMark, bounds, durable>>

RecoverInfo(c) ==
    /\ conn[c].pc = "rec"
    /\ nBackfill' = 0
    /\ aReadMark' = [i \in 0..(NReader - 1) |->
                        IF i = 0 THEN 0
                        ELSE IF ~MayExclude(i) THEN aReadMark[i]
                        ELSE IF i = 1 /\ conn[c].hdr.mxFrame > 0 THEN conn[c].hdr.mxFrame
                        ELSE NOT_USED]
    /\ LET r == conn[c]
       IN  conn' = [conn EXCEPT ![c] =
               IF r.mode = "begin"
               THEN Rest("begin", r.hdr, r.cache)
               ELSE [Rest("ckpt", r.hdr, r.cache) EXCEPT
                        !.ckptLock = TRUE, !.changed = TRUE, !.excl = r.excl]]
    /\ UNCHANGED <<files, aHdr, aPgno, bounds, ghosts>>

------------------------------------------------------------------------------
(* Read transactions                                                       *)

(* walIndexReadHdr: the two copies agree.  A changed header makes the      *)
(* pager throw its cache away.                                             *)
ReadHdr(c) ==
    /\ conn[c].pc = "idle" /\ Clean
    /\ conn' = [conn EXCEPT ![c].pc = "begin", ![c].hdr = Live,
                            ![c].cache = IF conn[c].hdr = Live THEN @ ELSE NoCache]
    /\ UNCHANGED <<files, index, bounds, ghosts>>

(* WAL_RETRY: from the header on, or, for a writer that has restarted the  *)
(* log and may not be overtaken, from the read marks on.                   *)
RetryAt(c) == IF conn[c].writeLock THEN "begin" ELSE "idle"

(* walTryBeginRead: a reader that needs no frame takes read lock 0, every  *)
(* other one the largest mark within its snapshot, or moves one that it    *)
(* can lock exclusively.                                                   *)
NeedsNoFrame(c) == ~conn[c].writeLock /\ nBackfill = conn[c].hdr.mxFrame

Usable(c)  == {i \in 1..(NReader - 1) : aReadMark[i] <= conn[c].hdr.mxFrame}
Largest(c) == IF Usable(c) = {} THEN 0
              ELSE Max({i \in Usable(c) : \A j \in Usable(c) : aReadMark[j] <= aReadMark[i]})
Free       == {i \in 1..(NReader - 1) : MayExclude(i)}

ChooseMark(c) ==
    /\ conn[c].pc = "begin"
    /\ ~NeedsNoFrame(c) \/ ~MayShare(0)
    /\ LET mx  == conn[c].hdr.mxFrame
           i   == Largest(c)
           set == (i = 0 \/ aReadMark[i] < mx) /\ Free # {}
           k   == IF set THEN Min(Free) ELSE i
       IN  IF k = 0
           THEN /\ conn' = [conn EXCEPT ![c].pc = RetryAt(c)]
                /\ UNCHANGED aReadMark
           ELSE /\ aReadMark' = IF set THEN [aReadMark EXCEPT ![k] = mx] ELSE aReadMark
                /\ conn' = [conn EXCEPT ![c].pc = "mark", ![c].mi = k,
                                        ![c].mv = aReadMark'[k]]
    /\ UNCHANGED <<files, aHdr, aPgno, nBackfill, bounds, ghosts>>

(* A transaction has begun: the pager fills its cache from the snapshot.   *)
Newest(p, from, to) == Max({0} \cup {i \in from..to : i > 0 /\ aPgno[i] = p})
Started(c, lock, from) ==
    LET r      == conn[c]
        filled == [p \in Pages |->
                      ReadFrame(p, IF lock = 0 THEN 0 ELSE Newest(p, from, r.hdr.mxFrame))]
    IN  [conn EXCEPT ![c].readLock = lock, ![c].minFrame = from, ![c].mi = 0, ![c].mv = 0,
                     ![c].pc = IF r.writeLock THEN "frames" ELSE "read",
                     ![c].iFrame = IF r.writeLock THEN r.hdr.mxFrame ELSE 0,
                     ![c].cache = IF @ = NoCache THEN filled ELSE @]

(* Read lock 0, unless a checkpointer writes the database.                 *)
LockZero(c) ==
    /\ conn[c].pc = "begin" /\ NeedsNoFrame(c) /\ MayShare(0)
    /\ conn' = IF Live = conn[c].hdr THEN Started(c, 0, 0)
               ELSE [conn EXCEPT ![c].pc = "idle"]
    /\ UNCHANGED <<files, index, bounds, ghosts>>

(* With the shared lock held, nobody moves the mark or restarts the log:   *)
(* the snapshot stands if neither happened before.                         *)
LockMark(c) ==
    /\ conn[c].pc = "mark"
    /\ LET i == conn[c].mi
       IN  conn' = IF /\ MayShare(i)
                      /\ aReadMark[i] = conn[c].mv
                      /\ Live = conn[c].hdr
                   THEN Started(c, i, nBackfill + 1)
                   ELSE [conn EXCEPT ![c].pc = RetryAt(c), ![c].mi = 0, ![c].mv = 0]
    /\ UNCHANGED <<files, index, bounds, ghosts>>

(* sqlite3WalEndReadTransaction                                            *)
EndRead(c) == /\ conn[c].pc = "read"
              /\ conn' = [conn EXCEPT ![c] = Rest("idle", conn[c].hdr, conn[c].cache)]
              /\ UNCHANGED <<files, index, bounds, ghosts>>

------------------------------------------------------------------------------
(* Write transactions                                                      *)

(* sqlite3WalBeginWriteTransaction: SQLITE_BUSY_SNAPSHOT unless the        *)
(* snapshot is still the newest state.                                     *)
BeginWrite(c) ==
    /\ conn[c].pc = "read" /\ WriteLockFree
    /\ conn[c].hdr = Live
    /\ conn' = [conn EXCEPT ![c].pc = "write", ![c].writeLock = TRUE]
    /\ UNCHANGED <<files, index, bounds, ghosts>>

(* walFrames for a set of dirty pages: spilled by the cache or committed.  *)
Tx(c) == IF conn[c].tx > 0 THEN conn[c].tx ELSE nextTx
Intended(c, S) == [p \in Pages |-> IF p \in S THEN Final(Tx(c))
                                   ELSE IF p \in conn[c].spilled THEN Draft(Tx(c))
                                   ELSE Snapshot(c)[p]]

(* walRestartHdr: a new pair of salts and an empty log, published like any *)
(* header; the checkpoint information follows.                             *)
NewSalt == salts < MaxSalt /\ salts' = salts + 1
RestartedHdr(c) == [conn[c].hdr EXCEPT !.mxFrame = 0, !.salt = salts + 1]

(* walRestartLog: a writer that reads no frame starts the log again when   *)
(* it is not empty and nobody reads from it, and in any case gives read    *)
(* lock 0 back and takes a mark.                                           *)
MayRestart(c) == conn[c].readLock = 0 /\ nBackfill > 0 /\ NoReaderOfLog

StartFrames(c, S, isCommit) ==
    /\ conn[c].pc = "write"
    /\ IF isCommit THEN S \in Commits ELSE S \in Spills /\ conn[c].spilled = {}
    /\ Tx(c) <= MaxTx
    /\ nextTx' = IF conn[c].tx > 0 THEN nextTx ELSE nextTx + 1
    /\ LET first  == IF conn[c].hdr = Live THEN 0 ELSE Live.mxFrame + 1
           listed == [conn[c] EXCEPT !.todo = S, !.commit = isCommit, !.tx = Tx(c),
                          !.spilled = IF isCommit THEN @ ELSE S, !.iFirst = first]
       IN  IF MayRestart(c)
           THEN /\ NewSalt
                /\ conn' = [conn EXCEPT ![c] = [listed EXCEPT
                                !.pc = "rst0", !.hdr = RestartedHdr(c)]]
                /\ aHdr' = [aHdr EXCEPT ![1] = RestartedHdr(c)]
           ELSE /\ conn' = [conn EXCEPT ![c] =
                       IF @.readLock = 0
                       THEN [listed EXCEPT !.pc = "begin", !.readLock = -1]
                       ELSE [listed EXCEPT !.pc = "frames", !.iFrame = conn[c].hdr.mxFrame]]
                /\ UNCHANGED <<salts, aHdr>>
    /\ doubt' = IF isCommit THEN doubt \cup {[at |-> Len(log), db |-> Intended(c, S)]}
                ELSE doubt
    /\ UNCHANGED <<files, aPgno, nBackfill, aReadMark, faults, log, durable>>

RestartHdr(c) == /\ conn[c].pc = "rst0"
                 /\ aHdr' = [aHdr EXCEPT ![0] = conn[c].hdr]
                 /\ conn' = [conn EXCEPT ![c].pc = "rst"]
                 /\ UNCHANGED <<files, aPgno, nBackfill, aReadMark, bounds, ghosts>>
MutantKeepsBackfill(c) ==
    /\ conn[c].pc = "rst"
    /\ conn' = IF conn[c].tx = 0 THEN [conn EXCEPT ![c].pc = "trunc"]
               ELSE [conn EXCEPT ![c].pc = "begin", ![c].readLock = -1]
    /\ UNCHANGED <<files, index, bounds, ghosts>>
RestartInfo(c) ==
    /\ conn[c].pc = "rst"
    /\ nBackfill' = 0
    /\ aReadMark' = [i \in 0..(NReader - 1) |->
                        IF i = 0 THEN aReadMark[0] ELSE IF i = 1 THEN 0 ELSE NOT_USED]
    /\ conn' = IF conn[c].tx = 0 THEN [conn EXCEPT ![c].pc = "trunc"]
               ELSE [conn EXCEPT ![c].pc = "begin", ![c].readLock = -1]
    /\ UNCHANGED <<files, aHdr, aPgno, bounds, ghosts>>

(* The first frame of a log is preceded by a header, and the header is     *)
(* synced before the frame is written.  A connection whose nCkpt is zero   *)
(* draws the salts here, another one keeps those of the wal-index header.  *)
HasWalHdr(c) == conn[c].iFrame > 0
WriteWalHdr(c) ==
    /\ conn[c].pc = "frames" /\ ~HasWalHdr(c)
    /\ \/ conn[c].hdr.salt > 0 /\ salts' = salts
       \/ NewSalt
    /\ LET s == IF salts' = salts THEN conn[c].hdr.salt ELSE salts'
       IN  /\ wal' = [wal EXCEPT !.salt = s]
           /\ conn' = [conn EXCEPT ![c].pc = "frame1",
                                   ![c].hdr.salt = s, ![c].hdr.cksum = <<>>]
    /\ walDisk' = SyncedWal(wal')
    /\ UNCHANGED <<db, dbDisk, index, nextTx, faults, ghosts>>

(* walEncodeFrame: once a frame of this transaction has been overwritten,  *)
(* neither salts nor checksum, until all of them are computed again.       *)
MutantSealsAtOnce(r, body) ==
    [pg |-> body.pg, val |-> body.val, trunc |-> body.trunc,
     salt |-> r.hdr.salt, cksum |-> Append(r.hdr.cksum, body)]
EncodeFrame(r, body) ==
    [pg |-> body.pg, val |-> body.val, trunc |-> body.trunc,
     salt  |-> IF r.iReCksum = 0 THEN r.hdr.salt ELSE 0,
     cksum |-> IF r.iReCksum = 0 THEN Append(r.hdr.cksum, body) ELSE <<>>]

(* One page of the list, in page order: over the frame that an earlier     *)
(* spill of this transaction wrote, whose checksum is then stale, or in a  *)
(* frame of its own.  The last frame of a commit carries the commit flag.  *)
WriteFrame(c) ==
    /\ conn[c].todo # {}
    /\ conn[c].pc = "frame1" \/ (conn[c].pc = "frames" /\ HasWalHdr(c))
    /\ LET r    == conn[c]
           p    == Min(r.todo)
           last == r.commit /\ r.todo = {p}
           old  == FindFrame(c, p)
           val  == IF r.commit THEN Final(r.tx) ELSE Draft(r.tx)
           body == [pg |-> p, val |-> val, trunc |-> last]
           new  == EncodeFrame(r, body)
       IN  IF r.iFirst > 0 /\ ~last /\ old >= r.iFirst
           THEN /\ wal' = [wal EXCEPT !.f[old].val = val]
                /\ walDisk' = AlsoFrame(walDisk, old, wal'.f[old])
                /\ conn' = [conn EXCEPT ![c].todo = @ \ {p},
                        ![c].iReCksum = IF @ = 0 \/ old < @ THEN old ELSE @]
           ELSE /\ r.iFrame < MaxFrame
                /\ wal' = [wal EXCEPT !.f = Put(@, r.iFrame + 1, new)]
                /\ walDisk' = AlsoFrame(walDisk, r.iFrame + 1, new)
                /\ conn' = [conn EXCEPT ![c].todo = @ \ {p}, ![c].iFrame = @ + 1,
                        ![c].hdr.cksum = IF new.salt = 0 THEN @ ELSE new.cksum,
                        ![c].pc = "frames"]
    /\ UNCHANGED <<db, dbDisk, index, bounds, ghosts>>

(* walRewriteChecksums: from the first overwritten frame to the last.      *)
RewriteChecksums(c) ==
    /\ conn[c].pc = "frames" /\ conn[c].todo = {}
    /\ conn[c].commit /\ conn[c].iReCksum > 0
    /\ LET r    == conn[c]
           k    == r.iReCksum
           base == IF k = 1 THEN <<>> ELSE wal.f[k - 1].cksum
           Sum(i) == base \o [j \in 1..(i - k + 1) |-> Body(wal.f[k + j - 1])]
       IN  /\ wal' = [wal EXCEPT !.f = [i \in 1..Len(@) |->
                         IF i \in k..r.iFrame
                         THEN [@[i] EXCEPT !.salt = r.hdr.salt, !.cksum = Sum(i)]
                         ELSE @[i]]]
           /\ walDisk' = [walDisk EXCEPT !.f =
                             [i \in 1..Len(@) |-> @[i] \cup {wal'.f[i]}]]
           /\ conn' = [conn EXCEPT ![c].iReCksum = 0, ![c].hdr.cksum = Sum(r.iFrame)]
    /\ UNCHANGED <<db, dbDisk, index, bounds, ghosts>>

(* walIndexAppend for the frames of this call: the first frame of a log    *)
(* clears the index, an entry that a dead writer left clears the rest.     *)
Appended(c) ==
    LET mx    == conn[c].hdr.mxFrame
        n     == conn[c].iFrame
        stale == n > mx /\ (mx = 0 \/ \E i \in (mx + 1)..n : aPgno[i] # 0)
    IN  [i \in 1..MaxFrame |-> IF i \in (mx + 1)..n THEN wal.f[i].pg
                               ELSE IF i > n /\ stale THEN 0 ELSE aPgno[i]]

(* A spill enters the index and the private header only.                   *)
MutantSpillUnseen(c) ==
    /\ conn[c].pc = "frames" /\ conn[c].todo = {} /\ ~conn[c].commit
    /\ aPgno' = Appended(c)
    /\ conn' = [conn EXCEPT ![c].pc = "write"]
    /\ UNCHANGED <<files, aHdr, nBackfill, aReadMark, bounds, ghosts>>
FinishSpill(c) ==
    /\ conn[c].pc = "frames" /\ conn[c].todo = {} /\ ~conn[c].commit
    /\ aPgno' = Appended(c)
    /\ conn' = [conn EXCEPT ![c].pc = "write", ![c].hdr.mxFrame = conn[c].iFrame]
    /\ UNCHANGED <<files, aHdr, nBackfill, aReadMark, bounds, ghosts>>

(* PRAGMA synchronous FULL syncs the WAL in every commit, NORMAL does not. *)
(* Then the index entries and the second copy of the header, and then the  *)
(* first, which ends the commit.                                           *)
PublishHdr1(c) ==
    /\ conn[c].pc = "frames" /\ conn[c].todo = {} /\ conn[c].commit
    /\ conn[c].iReCksum = 0
    /\ \E sync \in SyncModes :
           /\ walDisk' = IF sync = "FULL" THEN SyncedWal(wal) ELSE walDisk
           /\ conn' = [conn EXCEPT ![c].pc = "publish", ![c].synced = (sync = "FULL"),
                           ![c].hdr.mxFrame = conn[c].iFrame, ![c].hdr.iChange = @ + 1]
    /\ aPgno' = Appended(c)
    /\ aHdr' = [aHdr EXCEPT ![1] = conn'[c].hdr]
    /\ UNCHANGED <<db, dbDisk, wal, nBackfill, aReadMark, bounds, ghosts>>

PublishHdr0(c) ==
    /\ conn[c].pc = "publish"
    /\ aHdr' = [aHdr EXCEPT ![0] = conn[c].hdr]
    /\ LET new == [p \in Pages |-> ReadPage(c, p)]
           r   == conn[c]
           own == {Draft(r.tx), Final(r.tx)}
           kept == [p \in Pages |-> IF new[p] \in own THEN new[p] ELSE r.cache[p]]
       IN  /\ log' = Append(log, new)
           /\ durable' = IF r.synced THEN Len(log') ELSE durable
           /\ doubt' = IF r.synced THEN {} ELSE doubt
           /\ conn' = [conn EXCEPT ![c] = [Rest("read", r.hdr, kept) EXCEPT
                            !.readLock = r.readLock, !.minFrame = r.minFrame]]
    /\ UNCHANGED <<files, aPgno, nBackfill, aReadMark, bounds>>

(* ROLLBACK, or a commit or spill that fails while it writes or syncs:     *)
(* sqlite3WalUndo and the end of the write transaction.                    *)
Undo(c) ==
    /\ \/ conn[c].pc = "write" /\ faults' = faults
       \/ conn[c].pc \in {"frames", "frame1"} /\ Fault("error")
    /\ LET r == conn[c]
       IN  /\ aPgno' = IF r.hdr.mxFrame # Live.mxFrame /\ Live.mxFrame > 0
                       THEN [i \in 1..MaxFrame |-> IF i > Live.mxFrame THEN 0 ELSE aPgno[i]]
                       ELSE aPgno
           /\ conn' = [conn EXCEPT ![c] = [Rest("read", Live, r.cache) EXCEPT
                            !.readLock = r.readLock, !.minFrame = r.minFrame]]
    /\ UNCHANGED <<files, aHdr, nBackfill, aReadMark, nextTx, salts, ghosts>>

------------------------------------------------------------------------------
(* Checkpoints                                                             *)

(* sqlite3WalCheckpoint: the CKPT lock, for the stronger modes the WRITE   *)
(* lock too, or else the mode falls back to PASSIVE; then the header.      *)
CkptBegin(c, m, closing) ==
    /\ conn[c].pc = "idle" /\ Clean /\ CkptLockFree
    /\ closing => m = "PASSIVE" /\ OthersOff(c)
    /\ LET both == m # "PASSIVE" /\ WriteLockFree
       IN  conn' = [conn EXCEPT ![c].pc = "ckpt", ![c].ckptLock = TRUE,
                        ![c].writeLock = both, ![c].mode = IF both THEN m ELSE "PASSIVE",
                        ![c].changed = (conn[c].hdr # Live), ![c].hdr = Live,
                        ![c].excl = closing]
    /\ UNCHANGED <<files, index, bounds, ghosts>>

(* A header that was new to this connection is forgotten, so that the next *)
(* transaction finds it changed and drops the cache.                       *)
MutantRemembered(r) == r.hdr
Remembered(r) == IF r.changed THEN NoHdr ELSE r.hdr
CkptEnded(c) ==
    LET r == conn[c]
        h == Remembered(r)
    IN  [conn EXCEPT ![c] = IF ~r.excl THEN Rest("idle", h, r.cache)
                            ELSE [Rest("unlink", h, NoCache) EXCEPT !.excl = TRUE]]

(* The stronger modes have something left to do.                           *)
CkptCopied(c) == IF conn[c].mode = "TRUNCATE"
                 THEN [conn EXCEPT ![c].pc = "ckend"] ELSE CkptEnded(c)

(* walCheckpoint: nothing left to copy.                                    *)
CkptNothing(c) ==
    /\ conn[c].pc = "ckpt" /\ nBackfill >= conn[c].hdr.mxFrame
    /\ conn' = CkptCopied(c)
    /\ UNCHANGED <<files, index, bounds, ghosts>>

(* One mark after the other: a mark behind the checkpoint is moved when    *)
(* nobody uses it, and limits the checkpoint when somebody does.           *)
CkptMark(c) ==
    /\ \/ conn[c].pc = "ckpt" /\ nBackfill < conn[c].hdr.mxFrame
       \/ conn[c].pc = "ckmark"
    /\ LET i    == conn[c].mi + 1
           safe == IF i = 1 THEN conn[c].hdr.mxFrame ELSE conn[c].mxSafe
           used == safe > aReadMark[i] /\ ~MayExclude(i)
       IN  /\ aReadMark' = IF safe > aReadMark[i] /\ ~used
                           THEN [aReadMark EXCEPT ![i] = IF i = 1 THEN safe ELSE NOT_USED]
                           ELSE aReadMark
           /\ conn' = [conn EXCEPT
                  ![c].mxSafe = IF used THEN aReadMark[i] ELSE safe,
                  ![c].mi = IF i = NReader - 1 THEN 0 ELSE i,
                  ![c].pc = IF i = NReader - 1 THEN "ckstart" ELSE "ckmark"]
    /\ UNCHANGED <<files, aHdr, aPgno, nBackfill, bounds, ghosts>>

(* The pages whose newest frame lies in the part that is to be copied.     *)
ToCopy(c) == {p \in Pages : Newest(p, 1, conn[c].hdr.mxFrame)
                                \in (nBackfill + 1)..conn[c].mxSafe}

(* With read lock 0 held exclusively: is the log still the one whose       *)
(* header was read?  Then the WAL is synced before the first copy.         *)
MutantAnyLog(c) == TRUE
SameLog(c) == Live.salt = conn[c].hdr.salt
CkptStart(c) ==
    /\ conn[c].pc = "ckstart"
    /\ IF /\ nBackfill < conn[c].mxSafe
          /\ MayExclude(0)
          /\ SameLog(c)
       THEN /\ walDisk' = SyncedWal(wal)
            /\ durable' = Len(log)
            /\ doubt' = {x \in doubt : x.at = Len(log)}
            /\ conn' = [conn EXCEPT ![c].pc = "copy", ![c].todo = ToCopy(c)]
       ELSE /\ conn' = CkptCopied(c)
            /\ UNCHANGED <<walDisk, durable, doubt>>
    /\ UNCHANGED <<db, dbDisk, wal, index, bounds, log>>

CkptCopy(c) ==
    /\ conn[c].pc = "copy" /\ conn[c].todo # {}
    /\ LET p == Min(conn[c].todo)
       IN  /\ db' = [db EXCEPT ![p] = wal.f[Newest(p, 1, conn[c].hdr.mxFrame)].val]
           /\ dbDisk' = [dbDisk EXCEPT ![p] = @ \cup {db'[p]}]
           /\ conn' = [conn EXCEPT ![c].todo = @ \ {p}]
    /\ UNCHANGED <<wal, walDisk, index, bounds, ghosts>>

(* sqlite3_interrupt, or an error of the copy.                             *)
CkptInterrupt(c) ==
    /\ conn[c].pc = "copy" /\ conn[c].todo # {}
    /\ Fault("error")
    /\ conn' = IF conn[c].excl THEN [conn EXCEPT ![c] = Closed] ELSE CkptEnded(c)
    /\ UNCHANGED <<files, index, nextTx, salts, ghosts>>

(* The database is synced when the whole log has been copied.              *)
MutantUnsyncedCopy(c) == dbDisk
CopyOnDisk(c) == IF conn[c].mxSafe = Live.mxFrame THEN SyncedDb(db) ELSE dbDisk
CkptDone(c) ==
    /\ conn[c].pc = "copy" /\ conn[c].todo = {}
    /\ dbDisk' = CopyOnDisk(c)
    /\ nBackfill' = conn[c].mxSafe
    /\ conn' = CkptCopied(c)
    /\ UNCHANGED <<db, wal, walDisk, aHdr, aPgno, aReadMark, bounds, ghosts>>

(* SQLITE_CHECKPOINT_TRUNCATE restarts the log here; RESTART only makes    *)
(* sure that the next writer can.                                          *)
MayTruncate(c) == nBackfill >= conn[c].hdr.mxFrame /\ NoReaderOfLog

CkptRestart(c) ==
    /\ conn[c].pc = "ckend" /\ MayTruncate(c)
    /\ NewSalt
    /\ conn' = [conn EXCEPT ![c].pc = "rst0", ![c].hdr = RestartedHdr(c)]
    /\ aHdr' = [aHdr EXCEPT ![1] = RestartedHdr(c)]
    /\ UNCHANGED <<files, aPgno, nBackfill, aReadMark, nextTx, faults, ghosts>>

CkptTruncate(c) ==
    /\ conn[c].pc = "trunc"
    /\ wal' = NoWal
    /\ conn' = CkptEnded(c)
    /\ UNCHANGED <<db, dbDisk, walDisk, index, bounds, ghosts>>

CkptEnd(c) ==
    /\ conn[c].pc = "ckend" /\ ~MayTruncate(c)
    /\ conn' = CkptEnded(c)
    /\ UNCHANGED <<files, index, bounds, ghosts>>

------------------------------------------------------------------------------
(* sqlite3WalClose: the last connection checkpoints with the database file *)
(* locked EXCLUSIVE (CkptBegin, RecoverFrames) and deletes the wal-index and *)
(* the WAL file; any other one just leaves.                                *)
Leave(c) == /\ conn[c].pc = "idle" /\ ~OthersOff(c)
            /\ conn' = [conn EXCEPT ![c] = Closed]
            /\ UNCHANGED <<files, index, bounds, ghosts>>

UnlinkIndex(c) == /\ conn[c].pc = "unlink"
                  /\ ZeroIndex
                  /\ conn' = [conn EXCEPT ![c].pc = "unlinkwal"]
                  /\ UNCHANGED <<files, bounds, ghosts>>

UnlinkWal(c) == /\ conn[c].pc = "unlinkwal"
                /\ wal' = NoWal
                /\ conn' = [conn EXCEPT ![c] = Closed]
                /\ UNCHANGED <<db, dbDisk, walDisk, index, bounds, ghosts>>

------------------------------------------------------------------------------
(* Failures.  The process of a connection dies.                            *)
Crash(c) == /\ ~Off(c) /\ Fault("crash")
            /\ conn[c].pc = "rst" => CrashInRestart
            /\ conn[c].pc = "rst0" /\ wal.f = <<>> => CrashOverEmpty
            /\ conn' = [conn EXCEPT ![c] = Closed]
            /\ UNCHANGED <<files, index, nextTx, salts, ghosts>>

(* What may be left after a power failure.  A deletion or truncation of the*)
(* WAL file has reached the disk whole or not at all.                      *)
DbsLeft  == {d \in [Pages -> Contents] : \A p \in Pages : d[p] \in dbDisk[p]}
WalsLeft == LET n == Len(walDisk.f)
            IN  [salt : walDisk.salt,
                 f : {g \in [1..n -> UNION {walDisk.f[i] : i \in 1..n}] :
                          \A i \in 1..n : g[i] \in walDisk.f[i]}]
                \cup (IF wal = NoWal THEN {NoWal} ELSE {})

PowerFailure ==
    /\ Fault("power")
    /\ \E w \in WalsLeft, d \in DbsLeft :
           /\ wal' = w /\ walDisk' = SyncedWal(w) /\ db' = d /\ dbDisk' = SyncedDb(d)
           /\ LET s  == Recovered(d, w)
                  ks == {k \in durable..Len(log) : log[k] = s}
                  xs == {x \in doubt : x.db = s}
              IN  IF ks # {} THEN log' = SubSeq(log, 1, Max(ks)) /\ doubt' = {}
                  ELSE IF xs # {}
                  THEN \E x \in xs : log' = SubSeq(log, 1, x.at) /\ doubt' = {x}
                  ELSE UNCHANGED <<log, doubt>>
    /\ durable' = Len(log')
    /\ ZeroIndex
    /\ conn' = [c \in Procs |-> Closed]
    /\ UNCHANGED <<nextTx, salts>>

------------------------------------------------------------------------------
Next ==
    \/ \E c \in Procs :
        \/ Open(c) \/ Leave(c) \/ UnlinkIndex(c) \/ UnlinkWal(c) \/ Crash(c)
        \/ RecoverHdr(c) \/ RecoverInfo(c)
        \/ ReadHdr(c) \/ ChooseMark(c) \/ LockZero(c) \/ LockMark(c) \/ EndRead(c)
        \/ BeginWrite(c) \/ RestartHdr(c) \/ RestartInfo(c)
        \/ WriteWalHdr(c) \/ WriteFrame(c) \/ RewriteChecksums(c)
        \/ FinishSpill(c) \/ PublishHdr1(c) \/ PublishHdr0(c) \/ Undo(c)
        \/ CkptNothing(c) \/ CkptMark(c) \/ CkptStart(c) \/ CkptCopy(c) \/ CkptInterrupt(c)
        \/ CkptDone(c) \/ CkptRestart(c) \/ CkptTruncate(c) \/ CkptEnd(c)
    \/ \E c \in Procs, why \in {"begin", "ckpt", "close"} : RecoverFrames(c, why)
    \/ \E c \in Procs, S \in Spills \cup Commits, isCommit \in BOOLEAN :
           StartFrames(c, S, isCommit)
    \/ \E c \in Procs, m \in Modes, closing \in BOOLEAN : CkptBegin(c, m, closing)
    \/ PowerFailure

Spec == Init /\ [][Next]_vars

------------------------------------------------------------------------------
(* Well-formed state; the read marks and the headers stay within the log.  *)
HdrOK(h) == /\ h.isInit \in BOOLEAN /\ h.iChange \in 0..MaxTx
            /\ h.mxFrame \in 0..MaxFrame /\ h.salt \in 0..MaxSalt
            /\ h.cksum \in Seq(Entry)
TypeOK ==
    /\ db \in DbState /\ \A p \in Pages : dbDisk[p] \subseteq Contents /\ db[p] \in dbDisk[p]
    /\ wal.salt \in 0..MaxSalt /\ \A i \in 1..Len(wal.f) : /\ Body(wal.f[i]) \in Entry
                                                          /\ wal.f[i] \in walDisk.f[i]
    /\ \A k \in {0, 1} : /\ HdrOK(aHdr[k])
                        /\ aHdr[k].mxFrame > 0 => Len(aHdr[k].cksum) = aHdr[k].mxFrame
    /\ aPgno \in [1..MaxFrame -> 0..NPage]
    /\ nBackfill \in 0..MaxFrame
    /\ aReadMark \in [0..(NReader - 1) -> 0..NOT_USED]
    /\ \A c \in Procs : /\ HdrOK(conn[c].hdr)
                        /\ conn[c].readLock \in -1..(NReader - 1)
                        /\ conn[c].cache \in DbState \cup {NoCache}
    /\ \A k \in 1..Len(log) : log[k] \in DbState

(* The files alone always hold the newest committed state, or a state      *)
(* whose commit has begun: whatever dies, recovery finds the one or the    *)
(* other, and after a power failure no less than the last sync covered.    *)
CrashSafe == LET s == Recovered(db, wal)
             IN  s = log[Len(log)] \/ [at |-> Len(log), db |-> s] \in doubt

(* sqlite3WalBeginReadTransaction: *pChanged is set "if the database       *)
(* contents have changes since the previous read transaction".  What a     *)
(* connection keeps in its page cache between transactions is never used   *)
(* for another state: inside a transaction the cache is the snapshot,      *)
(* whoever has committed, checkpointed, restarted or recovered the log.    *)
CacheIsSnapshot == \A c \in Procs :
    InTx(c) /\ conn[c].readLock >= 0 => conn[c].cache = Snapshot(c)

(* A writer reads its own spilled pages and otherwise the newest state.    *)
ReadsOwnWrites == \A c \in Procs :
    conn[c].pc = "write" => \A p \in Pages :
        ReadPage(c, p) = IF p \in conn[c].spilled THEN Draft(conn[c].tx)
                         ELSE log[Len(log)][p]

(* "The nBackfill number is never greater than WalIndexHdr.mxFrame":       *)
(* whenever nobody is in the middle of changing them.                      *)
BackfillWithinLog == WriteLockFree => nBackfill <= Live.mxFrame

(* Every transaction reads one committed state, the newest one when it     *)
(* began; commits form a sequence; what a failure loses is only a suffix   *)
(* that no sync has covered.                                               *)
View(c) == IF InTx(c) THEN Snapshot(c) ELSE NoCache
Store == INSTANCE SnapshotStore WITH
             States <- DbState, NoView <- NoCache,
             view <- [c \in Procs |-> View(c)]
SnapshotSpec == Store!Spec
=============================================================================
