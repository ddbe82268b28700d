------------------------------ MODULE Savepoints ------------------------------
(***************************************************************************)
(* Savepoints and statement transactions of one writer (src/sqlite3.c,     *)
(* pager.c and wal.c): the page cache that spills pages in the middle of a *)
(* transaction, the main journal in segments, the sub-journal shared by    *)
(* the nested savepoints, and in WAL mode the frames that a rollback takes *)
(* back and a later spill overwrites.  One record holds the state, so that *)
(* the functions of the code are operators from a pager to a pager, and    *)
(* what a rollback WOULD restore is a state function (Shown).              *)
(***************************************************************************)
EXTENDS Integers, SequencesExt

CONSTANTS Modes,         \* journal modes: "delete" (rollback journal), "wal"
          NOrig,         \* pages of the database at first
          NPage,         \* bound: the largest page number
          MaxSavepoint,  \* bound: savepoints open at once
          MaxSubRec,     \* bound: records in the sub-journal when a savepoint opens
          MaxFrame,      \* bound: frames in the log after a spill
          MaxWrite,      \* bound: writes; each gives its page a fresh content
          PlaybackFails  \* the modes in which a rollback to a savepoint may fail midway

ASSUME SavepointsAssumption ==
    /\ Modes \subseteq {"delete", "wal"}
    /\ PlaybackFails \subseteq Modes
    /\ {NOrig, NPage, MaxSavepoint, MaxSubRec, MaxFrame, MaxWrite} \subseteq Nat
    /\ 1 <= NOrig /\ NOrig <= NPage

VARIABLES pager,    \* Pager, Wal and their files: see Opened
          shows,    \* what the pager shows now: Shown(pager), kept to be compared
          nWrite    \* writes so far

vars == <<pager, shows, nWrite>>

Pages == 1..NPage
Contents == 0..MaxWrite

(* A pager that has just opened a file, with no page in its cache.  An     *)
(* item of the journal is a record or, with pg = 0, a header: its val is   *)
(* nRec, or -1 while it has no magic.  journalOff is Len(journal) + 1.  A  *)
(* WAL header is [mx, cksum]: mxFrame, and the bodies that aFrameCksum     *)
(* covers, after the salt of the log (nCkpt stands for it).                *)
Opened(mode, f) ==
    [mode |-> mode, eState |-> "READER", dbSize |-> Len(f), dbOrigSize |-> Len(f),
     cache |-> <<>>, file |-> f,
     journal |-> <<>>, journalHdr |-> 0, inJournal |-> {},
     subj |-> <<>>, aSavepoint |-> <<>>,
     wal |-> <<>>, hdr |-> [mx |-> 0, cksum |-> <<>>], live |-> [mx |-> 0, cksum |-> <<>>],
     nCkpt |-> 0, backfilled |-> FALSE, iReCksum |-> 0]

(***************************************************************************)
(* Pages: the frame that the log has of page p, the content on disk, the   *)
(* content that the writer sees, and the database that it sees.            *)
(***************************************************************************)
FrameOf(s, p) ==
    Max({0} \cup {k \in 1..s.hdr.mx : s.wal[k].pg = p})

ReadDbPage(s, p) == LET k == FrameOf(s, p)
                    IN  IF k > 0 THEN s.wal[k].val
                        ELSE IF p <= Len(s.file) THEN s.file[p] ELSE 0

Content(s, p) == IF p \in DOMAIN s.cache THEN s.cache[p].val ELSE ReadDbPage(s, p)

Image(s) == [p \in 1..s.dbSize |-> Content(s, p)]

Put(s, p, pg) == [s EXCEPT !.cache = (p :> pg) @@ @]
Drop(s, S) == [s EXCEPT !.cache = [p \in DOMAIN @ \ S |-> @[p]]]
Dirty(s) == {p \in DOMAIN s.cache : s.cache[p].dirty}
MakeClean(s, S) ==
    [s EXCEPT !.cache = [p \in DOMAIN @ |->
        IF p \in S THEN [@[p] EXCEPT !.dirty = FALSE, !.needSync = FALSE] ELSE @[p]]]

(* The numbers of S in their order.                                       *)
Ascending(S) == SelectSeq([k \in 1..Max({0} \cup S) |-> k], LAMBDA k : k \in S)

(* Writing past the end of a file fills the gap with zeros.                *)
WritePage(f, p, v) == [k \in 1..Max({p, Len(f)}) |->
    IF k = p THEN v ELSE IF k <= Len(f) THEN f[k] ELSE 0]
Resize(f, n) == [k \in 1..n |-> IF k <= Len(f) THEN f[k] ELSE 0]

(***************************************************************************)
(* The two journals.                                                       *)
(***************************************************************************)
AddToSavepointBitvecs(s, p) ==
    [s EXCEPT !.aSavepoint = [i \in DOMAIN @ |->
        IF p <= @[i].nOrig THEN [@[i] EXCEPT !.inSavepoint = @ \cup {p}] ELSE @[i]]]

(* The mutant lets a savepoint cut the records that outer ones share.      *)
MutantAllTruncate(s, p) ==
    LET lacking == {i \in DOMAIN s.aSavepoint : /\ p <= s.aSavepoint[i].nOrig
                                                /\ p \notin s.aSavepoint[i].inSavepoint}
        t == [s EXCEPT !.subj = Append(@, [pg |-> p, val |-> Content(s, p)])]
    IN  IF lacking = {} THEN s ELSE AddToSavepointBitvecs(t, p)

(* A page is copied if some savepoint has no copy of it; the savepoints    *)
(* inside of the first such one share the record, and may no longer cut    *)
(* the sub-journal when they are released.                                 *)
SubjournalPageIfRequired(s, p) ==
    LET lacking == {i \in DOMAIN s.aSavepoint : /\ p <= s.aSavepoint[i].nOrig
                                                /\ p \notin s.aSavepoint[i].inSavepoint}
        shared(sv, i) == [sv EXCEPT !.truncateOnRelease = @ /\ i <= Min(lacking)]
        t == [s EXCEPT !.subj = Append(@, [pg |-> p, val |-> Content(s, p)]),
                       !.aSavepoint = [i \in DOMAIN @ |-> shared(@[i], i)]]
    IN  IF lacking = {} THEN s ELSE AddToSavepointBitvecs(t, p)

(* The savepoints opened since the last header learn where the next one    *)
(* begins; of the first header of a journal the offset is 0, for "none".   *)
WriteJournalHdr(s) ==
    LET off == IF s.journal = <<>> THEN 0 ELSE Len(s.journal) + 1
    IN  [s EXCEPT !.aSavepoint = [i \in DOMAIN @ |->
                      IF @[i].iHdrOffset = 0 THEN [@[i] EXCEPT !.iHdrOffset = off] ELSE @[i]],
                  !.journal = Append(@, [pg |-> 0, val |-> -1]),
                  !.journalHdr = Len(s.journal) + 1]

OpenJournal(s) ==
    LET t == [s EXCEPT !.eState = "CACHEMOD"]
    IN  IF s.mode = "wal" THEN t ELSE WriteJournalHdr(t)

AddPageToRollbackJournal(s, p) ==
    AddToSavepointBitvecs([s EXCEPT !.journal = Append(@, [pg |-> p, val |-> Content(s, p)]),
                                    !.inJournal = @ \cup {p},
                                    !.cache[p].needSync = TRUE], p)

(* sqlite3PagerWrite on a page of the cache, before its content changes.   *)
PagerWrite(s, p) ==
    LET a == IF s.eState = "LOCKED" THEN OpenJournal(s) ELSE s
        b == [a EXCEPT !.cache[p].dirty = TRUE]
        c == IF b.mode = "wal" \/ p \in b.inJournal THEN b
             ELSE IF p <= b.dbOrigSize THEN AddPageToRollbackJournal(b, p)
             ELSE [b EXCEPT !.cache[p].needSync = @ \/ b.eState # "DBMOD"]
        d == SubjournalPageIfRequired(c, p)
    IN  [d EXCEPT !.dbSize = Max({p, @})]

(* sqlite3PagerGet.                                                        *)
Fetch(s, p) ==
    IF p \in DOMAIN s.cache THEN s
    ELSE Put(s, p, [val |-> ReadDbPage(s, p), dirty |-> FALSE, needSync |-> FALSE])

(* The b-tree gets a page, makes it writeable and changes it.              *)
Written(s, p, v) == [PagerWrite(Fetch(s, p), p) EXCEPT !.cache[p].val = v]

(* nRec and the magic go into the last header: its segment becomes one     *)
(* that a hot rollback reads.                                              *)
SyncJournal(s, newHdr) ==
    LET t == [s EXCEPT !.journal[s.journalHdr].val = Len(s.journal) - s.journalHdr,
                       !.journalHdr = Len(s.journal) + 1,
                       !.cache = [p \in DOMAIN @ |-> [@[p] EXCEPT !.needSync = FALSE]],
                       !.eState = "DBMOD"]
    IN  IF newHdr THEN WriteJournalHdr(t) ELSE t

WritePagelist(s, S) ==
    FoldLeft(LAMBDA t, p : [t EXCEPT !.file = WritePage(@, p, t.cache[p].val)],
             s, Ascending({p \in S : p <= s.dbSize}))

(***************************************************************************)
(* The log.                                                                *)
(***************************************************************************)
Body(f) == <<f.pg, f.val, f.nTruncate>>

AppendFrame(s, p, n) ==
    LET k == s.hdr.mx + 1
        body == [pg |-> p, val |-> s.cache[p].val, nTruncate |-> n]
        sum == Append(s.hdr.cksum, Body(body))
    IN  [s EXCEPT !.wal = SubSeq(@, 1, k - 1)
                          \o <<body @@ [cksum |-> IF s.iReCksum = 0 THEN sum ELSE <<>>]>>
                          \o SubSeq(@, k + 1, Len(@)),
                  !.hdr = [mx |-> k, cksum |-> IF s.iReCksum = 0 THEN sum ELSE @.cksum]]

OverwriteFrame(s, p) ==
    LET k == FrameOf(s, p)
    IN  [s EXCEPT !.wal[k].val = s.cache[p].val,
                  !.iReCksum = IF @ = 0 THEN k ELSE Min({k, @})]

RewriteChecksums(s) ==
    LET chain(t, k) ==
          LET sum == Append(IF k = 1 THEN <<t.nCkpt>> ELSE t.wal[k - 1].cksum, Body(t.wal[k]))
          IN  [t EXCEPT !.wal[k].cksum = sum, !.hdr.cksum = sum]
    IN  [FoldLeft(chain, s, [j \in 1..(s.hdr.mx - s.iReCksum + 1) |-> s.iReCksum + j - 1])
            EXCEPT !.iReCksum = 0]

(* A log that is copied to the database file entirely starts again.        *)
WalRestartLog(s) ==
    IF s.backfilled THEN [s EXCEPT !.nCkpt = @ + 1, !.backfilled = FALSE,
                                   !.hdr.mx = 0, !.live = [s.hdr EXCEPT !.mx = 0]]
    ELSE s

(* The pages of S go into the log, with the commit mark nTruncate if it is *)
(* not 0.  A frame that this transaction has written already is            *)
(* overwritten, except by the page that carries the mark.                  *)
WalFrames(s, S, nTruncate) ==
    LET iFirst == IF s.hdr = s.live THEN 0 ELSE s.live.mx + 1
        r == WalRestartLog(s)
        h == IF r.hdr.mx = 0 THEN [r EXCEPT !.hdr.cksum = <<r.nCkpt>>] ELSE r
        mark(p) == IF p = Max(S) THEN nTruncate ELSE 0
        log(t, p) == IF iFirst > 0 /\ mark(p) = 0 /\ FrameOf(t, p) >= iFirst
                     THEN OverwriteFrame(t, p) ELSE AppendFrame(t, p, mark(p))
        l == FoldLeft(log, h, Ascending(S))
        c == IF nTruncate > 0 /\ l.iReCksum > 0 THEN RewriteChecksums(l) ELSE l
    IN  IF nTruncate = 0 THEN l ELSE [c EXCEPT !.live = c.hdr]

WalSavepointUndo(s, i) ==
    LET old == s.aSavepoint[i].walData
        data == IF old.nCkpt = s.nCkpt THEN old ELSE [old EXCEPT !.mx = 0, !.nCkpt = s.nCkpt]
        t == [s EXCEPT !.aSavepoint[i].walData = data]
    IN  IF data.mx < s.hdr.mx
        THEN [t EXCEPT !.hdr = [mx |-> data.mx, cksum |-> data.cksum],
                       !.iReCksum = IF @ > data.mx THEN 0 ELSE @]
        ELSE t

(* The mutant forgets the pages that were spilled and are clean again.     *)
MutantForgetsFrames(s) ==
    LET t == [s EXCEPT !.dbSize = s.dbOrigSize, !.hdr = s.live, !.iReCksum = 0]
        u == Drop(t, Dirty(s) \ {1})
    IN  IF 1 \in Dirty(s) THEN [u EXCEPT !.cache[1].val = ReadDbPage(t, 1)] ELSE u

(* Every page that is dirty, or has a frame of this transaction, leaves    *)
(* the cache; page 1, which the b-tree holds, is read again.               *)
PagerRollbackWal(s) ==
    LET t == [s EXCEPT !.dbSize = s.dbOrigSize, !.hdr = s.live, !.iReCksum = 0]
        undone == Dirty(s) \cup {s.wal[k].pg : k \in s.live.mx + 1 .. s.hdr.mx}
        u == Drop(t, undone \ {1})
    IN  IF 1 \in undone \cap DOMAIN u.cache
        THEN [u EXCEPT !.cache[1].val = ReadDbPage(t, 1)] ELSE u

(***************************************************************************)
(* Playback.  The records of the main journal come first, then those of    *)
(* the sub-journal; of each page the first record wins, and pages past the *)
(* size at the savepoint are skipped.                                      *)
(***************************************************************************)
InDbmod(s) == s.eState \in {"DBMOD", "COMMIT"}

MainRecord(s, k) == [pg |-> s.journal[k].pg, val |-> s.journal[k].val,
                     main |-> TRUE, synced |-> k < s.journalHdr]

PlaybackOnePage(s, r) ==
    LET cached == s.mode = "delete" /\ r.pg \in DOMAIN s.cache
        synced == IF r.main THEN r.synced ELSE cached => ~s.cache[r.pg].needSync
        toFile == InDbmod(s) /\ synced
        t == IF toFile THEN [s EXCEPT !.file = WritePage(@, r.pg, r.val)] ELSE s
    IN  IF cached THEN [t EXCEPT !.cache[r.pg].val = r.val]
        ELSE IF toFile \/ r.main THEN t
        ELSE [Fetch(t, r.pg) EXCEPT !.cache[r.pg].val = r.val, !.cache[r.pg].dirty = TRUE]

(* A header where a record was expected ends the reading.                  *)
Playlist(s, i) ==
    LET sv == s.aSavepoint[i]
        hdrOff == IF sv.iHdrOffset # 0 THEN sv.iHdrOffset ELSE Len(s.journal) + 1
        readable(k) == \A j \in sv.iOffset .. Min({k, hdrOff - 1}) : s.journal[j].pg # 0
        main == Ascending({k \in sv.iOffset .. Len(s.journal) :
                                 readable(k) /\ s.journal[k].pg # 0})
        sub == [j \in 1..(Len(s.subj) - sv.iSubRec) |->
                   s.subj[sv.iSubRec + j] @@ [main |-> FALSE, synced |-> FALSE]]
        all == [j \in DOMAIN main |-> MainRecord(s, main[j])] \o sub
        first == Ascending({j \in DOMAIN all : /\ all[j].pg <= sv.nOrig
                                               /\ \A d \in 1..(j - 1) : all[d].pg # all[j].pg})
    IN  [j \in DOMAIN first |-> all[first[j]]]

(* The first n records of a playback of savepoint i.                       *)
PlayedBack(s, i, n) ==
    LET t == [s EXCEPT !.dbSize = s.aSavepoint[i].nOrig]
        u == IF s.mode = "wal" THEN WalSavepointUndo(t, i) ELSE t
    IN  FoldLeft(PlaybackOnePage, u, SubSeq(Playlist(s, i), 1, n))

PlayedBackAll(s) ==
    FoldLeft(PlaybackOnePage, [s EXCEPT !.dbSize = s.dbOrigSize],
             LET main == Ascending({k \in DOMAIN s.journal : s.journal[k].pg # 0})
             IN  [j \in DOMAIN main |-> MainRecord(s, main[j])])

(* sqlite3PagerSavepoint(SAVEPOINT_ROLLBACK, i - 1): the savepoints inside *)
(* of i are gone; 0 is the transaction itself.                             *)
RolledBackTo(s, i) ==
    LET t == [s EXCEPT !.aSavepoint = SubSeq(@, 1, i)]
    IN  IF s.mode = "delete" /\ s.journal = <<>> THEN t
        ELSE IF i > 0 THEN PlayedBack(t, i, Len(Playlist(t, i)))
        ELSE IF s.mode = "wal" THEN PagerRollbackWal(t) ELSE PlayedBackAll(t)

EndTransaction(s) ==
    LET t == [s EXCEPT !.eState = "READER", !.aSavepoint = <<>>, !.subj = <<>>,
                       !.journal = <<>>, !.journalHdr = 0, !.inJournal = {}, !.iReCksum = 0]
    IN  MakeClean(Drop(t, {p \in DOMAIN t.cache : p > t.dbSize}), DOMAIN t.cache)

(* sqlite3PagerRollback.                                                   *)
RolledBack(s) ==
    LET t == RolledBackTo(s, 0)
    IN  EndTransaction(IF s.mode = "delete" /\ InDbmod(s)
                       THEN [t EXCEPT !.file = Resize(@, s.dbOrigSize)] ELSE t)

(* What a process finds that opens the file after a crash: the segments of *)
(* the journal whose header has its magic are played back, or the log is   *)
(* valid up to the last commit mark of an unbroken chain of checksums.     *)
HotRollback(s) ==
    LET hot == {k \in DOMAIN s.journal : s.journal[k].pg # 0
                   /\ s.journal[Max({h \in 1..k : s.journal[h].pg = 0})].val # -1}
        old(p) == CHOOSE k \in hot : s.journal[k].pg = p
        file == IF s.journal = <<>> \/ s.journal[1].val = -1 THEN s.file
                ELSE [p \in 1..s.dbOrigSize |->
                        IF \E k \in hot : s.journal[k].pg = p THEN s.journal[old(p)].val
                        ELSE Resize(s.file, s.dbOrigSize)[p]]
    IN  Opened("delete", file)

WalRecovered(s) ==
    LET sum == [j \in DOMAIN s.wal |-> Body(s.wal[j])]
        valid(k) == \A j \in 1..k : s.wal[j].cksum = <<s.nCkpt>> \o SubSeq(sum, 1, j)
        mx == Max({0} \cup {k \in DOMAIN s.wal : s.wal[k].nTruncate > 0 /\ valid(k)})
        hdr == [mx |-> mx, cksum |-> IF mx = 0 THEN <<>> ELSE s.wal[mx].cksum]
        size == IF mx = 0 THEN Len(s.file) ELSE s.wal[mx].nTruncate
    IN  [Opened("wal", s.file) EXCEPT !.dbSize = size, !.dbOrigSize = size, !.wal = s.wal,
                                      !.nCkpt = s.nCkpt, !.hdr = hdr, !.live = hdr]

Reopened(s) == IF s.mode = "wal" THEN WalRecovered(s) ELSE HotRollback(s)

(* What the writer sees, what going back would restore now, savepoint by   *)
(* savepoint, and what a crash would leave.                                *)
Shown(s) == [image |-> Image(s),
             restored |-> [i \in DOMAIN s.aSavepoint |-> Image(RolledBackTo(s, i))],
             committed |-> Image(Reopened(s))]
------------------------------------------------------------------------------
Init == /\ \E m \in Modes : pager = Opened(m, [p \in 1..NOrig |-> 0])
        /\ shows = Shown(pager)
        /\ nWrite = 0

Writing == pager.eState \in {"LOCKED", "CACHEMOD", "DBMOD"}

Become(s) == pager' = s /\ shows' = Shown(pager')
Step(s) == Become(s) /\ UNCHANGED nWrite

(* The b-tree reads page 1 first, and holds it as long as the transaction  *)
(* is open.  (No transaction begins after the last of MaxWrite.)           *)
Begin == /\ pager.eState = "READER" /\ nWrite < MaxWrite
         /\ Step([Fetch(pager, 1) EXCEPT !.eState = "LOCKED", !.dbOrigSize = pager.dbSize])

Get(p) == /\ p \in (2..pager.dbSize) \ DOMAIN pager.cache
          /\ Step(Fetch(pager, p))

(* The page cache recycles a clean page that nobody holds (no longer after *)
(* the last of MaxWrite).                                                  *)
Evict(p) == /\ nWrite < MaxWrite /\ p \in DOMAIN pager.cache \ (Dirty(pager) \cup {1})
            /\ Step(Drop(pager, {p}))

Counted == nWrite < MaxWrite /\ nWrite' = nWrite + 1

Write(p) == /\ Writing /\ p <= pager.dbSize /\ Counted
            /\ Become(Written(pager, p, nWrite'))

(* A new page is counted in page 1.                                        *)
Extend == /\ Writing /\ pager.dbSize < NPage /\ Counted
          /\ Become(Written(Written(pager, 1, nWrite'), pager.dbSize + 1, nWrite'))

(* pagerStress, called by the page cache when it needs room.               *)
Spill(p) ==
    /\ Writing /\ p \in Dirty(pager) \ {1}
    /\ LET s == IF pager.mode = "wal"
                THEN WalFrames(SubjournalPageIfRequired(pager, p), {p}, 0)
                ELSE WritePagelist(IF pager.cache[p].needSync \/ pager.eState = "CACHEMOD"
                                   THEN SyncJournal(pager, TRUE) ELSE pager, {p})
       IN  s.hdr.mx <= MaxFrame /\ Step(MakeClean(s, {p}))

OpenSavepoint ==
    /\ Writing /\ Len(pager.aSavepoint) < MaxSavepoint /\ Len(pager.subj) <= MaxSubRec
    /\ Step([pager EXCEPT !.aSavepoint = Append(@,
          [nOrig |-> pager.dbSize,
           iOffset |-> IF pager.journal = <<>> THEN 2 ELSE Len(pager.journal) + 1,
           iHdrOffset |-> 0, iSubRec |-> Len(pager.subj),
           inSavepoint |-> {}, truncateOnRelease |-> TRUE,
           walData |-> [mx |-> pager.hdr.mx, cksum |-> pager.hdr.cksum, nCkpt |-> pager.nCkpt]])])

ReleaseSavepoint(i) ==
    /\ Writing
    /\ LET sv == pager.aSavepoint[i]
       IN  Step([pager EXCEPT !.aSavepoint = SubSeq(@, 1, i - 1),
                              !.subj = IF sv.truncateOnRelease
                                       THEN SubSeq(@, 1, sv.iSubRec) ELSE @])

RollbackTo(i) == Writing /\ Step(RolledBackTo(pager, i))

(* Reading a journal fails after n records; the statement that fails so    *)
(* rolls the whole transaction back (sqlite3RollbackAll).                  *)
RollbackToFails(i) ==
    /\ Writing /\ pager.mode \in PlaybackFails
    /\ pager.mode = "wal" \/ pager.journal # <<>>
    /\ LET s == [pager EXCEPT !.aSavepoint = SubSeq(@, 1, i)]
       IN  \E n \in 0..(Len(Playlist(s, i)) - 1) : Step(RolledBack(PlayedBack(s, i, n)))

Rollback == /\ pager.eState # "READER"
            /\ Step(RolledBack(pager))

(* COMMIT without a change; COMMIT in WAL mode, in one call.               *)
CommitNothing == pager.eState = "LOCKED" /\ Step(EndTransaction(pager))

CommitWal ==
    /\ pager.mode = "wal" /\ pager.eState = "CACHEMOD"
    /\ LET s == IF Dirty(pager) = {} THEN Fetch(pager, 1) ELSE pager
           list == IF Dirty(pager) = {} THEN {1} ELSE {p \in Dirty(s) : p <= s.dbSize}
       IN  Step(EndTransaction(WalFrames(s, list, s.dbSize)))

(* COMMIT with a journal: page 1 gets a new change counter, the journal is *)
(* synced, the dirty pages go to the file one by one, and the deletion of  *)
(* the journal commits.                                                    *)
CommitStart ==
    /\ pager.mode = "delete" /\ pager.eState \in {"CACHEMOD", "DBMOD"}
    /\ Step([SyncJournal(PagerWrite(Fetch(pager, 1), 1), FALSE) EXCEPT !.eState = "COMMIT"])

Unwritten == {p \in Dirty(pager) : p <= pager.dbSize}

CommitPage == /\ pager.eState = "COMMIT" /\ Unwritten # {}
              /\ Step(MakeClean(WritePagelist(pager, {Min(Unwritten)}), {Min(Unwritten)}))

CommitEnd == /\ pager.eState = "COMMIT" /\ Unwritten = {}
             /\ Step(EndTransaction([pager EXCEPT !.file = Resize(@, pager.dbSize)]))

(* A checkpoint copies the whole log, while no transaction is open.        *)
Checkpoint == /\ pager.eState = "READER" /\ pager.live.mx > 0 /\ ~pager.backfilled
              /\ Step([pager EXCEPT !.file = Image(Drop(pager, Pages)), !.backfilled = TRUE])

(* The process dies, or an I/O error puts the pager into PAGER_ERROR,      *)
(* whose cache and locks are given up: the next reader recovers.           *)
Crash == /\ pager.eState # "READER"
         /\ Step(Reopened(pager))

Next == \/ Begin \/ Extend \/ OpenSavepoint \/ Rollback \/ CommitNothing \/ CommitWal
        \/ CommitStart \/ CommitPage \/ CommitEnd \/ Checkpoint \/ Crash
        \/ \E p \in Pages : Get(p) \/ Evict(p) \/ Write(p) \/ Spill(p)
        \/ \E i \in DOMAIN pager.aSavepoint : ReleaseSavepoint(i) \/ RollbackToFails(i)
        \/ \E i \in 0..Len(pager.aSavepoint) : RollbackTo(i)

Spec == Init /\ [][Next]_vars
------------------------------------------------------------------------------
(* Types: every cached page, journal record and savepoint is what the code *)
(* declares, and the sub-journal reaches as far as any savepoint needs.    *)
TypeOK ==
    /\ pager.eState \in {"READER", "LOCKED", "CACHEMOD", "DBMOD", "COMMIT"}
    /\ pager.dbSize \in Pages /\ pager.dbOrigSize \in Pages
    /\ pager.file \in Seq(Contents) /\ Range(pager.subj) \subseteq [pg : Pages, val : Contents]
    /\ DOMAIN pager.cache \subseteq Pages
    /\ Range(pager.cache) \subseteq [val : Contents, dirty : BOOLEAN, needSync : BOOLEAN]
    /\ pager.inJournal \subseteq 1..pager.dbOrigSize
    /\ \A i \in DOMAIN pager.aSavepoint :
          /\ pager.aSavepoint[i].inSavepoint \subseteq 1..pager.aSavepoint[i].nOrig
          /\ pager.aSavepoint[i].iSubRec <= Len(pager.subj)
    /\ nWrite \in 0..MaxWrite

(* Between two transactions every cached page is what the database holds:  *)
(* whatever sequence of spills, savepoints, rollbacks and failed playbacks *)
(* went before, nothing of it is left to be read or written again          *)
(* (sqlite3PagerRollback: the cache entries "are either expelled from the  *)
(* cache or reverted to their pre-transaction state").                     *)
CacheIsCurrent ==
    pager.eState = "READER" =>
        \A p \in DOMAIN pager.cache :
            ~pager.cache[p].dirty /\ pager.cache[p].val = ReadDbPage(pager, p)

(* The pager implements a stack of snapshots: no write, spill, eviction,   *)
(* release or journal header changes what going back to an open savepoint  *)
(* would restore or what a crash would leave, and going back, committing   *)
(* and giving up do exactly what they promise.                             *)
Stack == INSTANCE SnapshotStack WITH image <- shows.image,
                                     snapshots <- shows.restored,
                                     committed <- shows.committed,
                                     open <- pager.eState # "READER"
StackSpec == Stack!Spec
==============================================================================
