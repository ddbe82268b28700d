------------------------------ MODULE WalProofs ------------------------------
(***************************************************************************)
(* Proofs about Wal, for any number of connections, pages, read marks,     *)
(* transactions, crashes, errors and power failures: nBackfill stays       *)
(* within the log (BackfillWithinLog), every frame that the wal-index      *)
(* calls committed can be recovered from the WAL file (CommitsSurvive),    *)
(* and a transaction reads the same as long as it holds its read lock      *)
(* (SnapshotStays).                                                        *)
(*                                                                         *)
(* None is inductive.  The checkpointer that sets nBackfill has read       *)
(* the header long before, and writers have moved or restarted the log     *)
(* since; recovery sets mxFrame to what the checksums in the file say.     *)
(* So one has to know what a writer has put into the file and what its     *)
(* running checksum covers (WriterOK), that pairs of salts tell one log    *)
(* from another (SaltsDiffer), and how far a checkpointer may copy         *)
(* (CkptOK).  For the readers (RInv) one has to know which frames the      *)
(* database holds for whom, and that no checkpoint overtakes a read mark.  *)
(*                                                                         *)
(* The proofs assume CrashInRestart = FALSE: a process that dies between   *)
(* the two halves of walRestartHdr leaves nBackfill behind.                *)
(***************************************************************************)
EXTENDS Wal, SequenceTheorems, WellFoundedInduction, TLAPS

Writing(c) == conn[c].writeLock /\ ~conn[c].ckptLock

------------------------------------------------------------------------------
(* Types                                                                   *)

Bodies == [pg : Nat, val : Nat, trunc : BOOLEAN]
Frame  == [pg : Nat, val : Nat, trunc : BOOLEAN, salt : Nat, cksum : Seq(Bodies)]
Hdr    == [isInit : BOOLEAN, iChange : Nat, mxFrame : Nat, salt : Nat, cksum : Seq(Bodies)]
WalFile == [salt : Nat, f : Seq(Frame)]

Places == {"off", "idle", "begin", "mark", "read", "write", "frame1", "frames", "publish",
           "rst0", "rst", "trunc", "rec0", "rec", "ckpt", "ckmark", "ckstart", "copy",
           "ckend", "unlink", "unlinkwal"}

\* What a cache holds and which mode a checkpoint has are of no concern here.
ConnWith(cached, m) ==
    [pc : Places, hdr : Hdr, cache : {cached}, readLock : Int, mi : Nat, mv : Nat,
     minFrame : Nat, writeLock : BOOLEAN, ckptLock : BOOLEAN, excl : BOOLEAN,
     tx : Nat, spilled : SUBSET Pages, todo : SUBSET Pages, commit : BOOLEAN, iFirst : Nat,
     iReCksum : Nat, iFrame : Nat, synced : BOOLEAN,
     mode : {m}, mxSafe : Nat, changed : BOOLEAN]
Conn(r) == r \in ConnWith(r.cache, r.mode)

Typed ==
    /\ wal \in WalFile
    /\ walDisk \in [salt : SUBSET Nat, f : Seq(SUBSET Frame)]
    /\ aHdr \in [{0, 1} -> Hdr]
    /\ nBackfill \in Nat
    /\ aReadMark \in [0..(NReader - 1) -> Nat]
    /\ \A c \in Procs : Conn(conn[c])
    /\ conn = [c \in Procs |-> conn[c]]
    /\ nextTx \in Nat \ {0} /\ salts \in Nat

\* Where the disk may hold something of the WAL file, it does so frame by frame.
DiskOK == wal.f # <<>> => Len(walDisk.f) = Len(wal.f)

------------------------------------------------------------------------------
(* The invariant                                                           *)

\* The frames that a header covers stand in the file, with the salts and the
\* checksum of the header, and the last of them ends a commit.
SumTo(w, n) == [j \in 1..n |-> Body(w.f[j])]
Committed(w, h) == h.mxFrame > 0 =>
    /\ w.salt = h.salt /\ w.salt > 0
    /\ h.mxFrame <= Len(w.f)
    /\ \A i \in 1..h.mxFrame : ValidFrame(w, i)
    /\ w.f[h.mxFrame].trunc
    /\ h.cksum = SumTo(w, h.mxFrame)

\* Each lock has one holder, and whoever has the file EXCLUSIVE is alone.
LocksOK ==
    \A c, d \in Procs : c # d =>
        /\ ~(conn[c].writeLock /\ conn[d].writeLock)
        /\ ~(conn[c].ckptLock /\ conn[d].ckptLock)
        /\ conn[c].excl => Off(d)

\* Which locks a connection holds where.
PlaceOK(n, r) ==
    /\ r.pc = "off" => r = Closed
    /\ r.pc \in {"idle", "read", "unlink", "unlinkwal"} => ~r.writeLock /\ ~r.ckptLock
    /\ r.pc \in {"begin", "mark"} => ~r.ckptLock
    /\ r.pc \in {"write", "frame1", "frames", "publish"} => r.writeLock /\ ~r.ckptLock
    /\ r.pc \in {"rst0", "rst", "trunc"} => r.writeLock
    /\ r.pc = "trunc" => r.ckptLock
    /\ r.pc \in {"rec0", "rec", "ckend"} => r.writeLock /\ r.ckptLock
    /\ r.pc \in {"ckpt", "ckmark", "ckstart", "copy"} =>
           r.ckptLock /\ (r.mode = "TRUNCATE" => r.writeLock)
    /\ r.pc \in {"unlink", "unlinkwal"} => r.excl
    /\ ~r.writeLock \/ r.ckptLock => r.tx = 0 /\ r.iReCksum = 0
    /\ r.mi # 0 => r.pc \in {"mark", "ckmark"}
    /\ r.pc = "mark" => r.mi \in 1..(NReader - 1)
    /\ r.pc = "ckmark" => r.mi < NReader - 1
    /\ r.hdr.salt <= n

\* The frames of a writer: those before the first that it has overwritten carry
\* valid checksums, and its running checksum covers what it has written so far.
Extent(r) == IF r.pc \in {"frame1", "frames"} THEN r.iFrame ELSE r.hdr.mxFrame
Intact(r) == IF r.iReCksum = 0 THEN Extent(r) ELSE r.iReCksum - 1
Chained(w, r) ==
    /\ w.salt = r.hdr.salt /\ w.salt > 0
    /\ Extent(r) <= Len(w.f)
    /\ \A i \in 1..Intact(r) : ValidFrame(w, i)
    /\ r.iReCksum = 0 => r.hdr.cksum = SumTo(w, Extent(r))

WriterOK(w, disk, live, r) == r.writeLock /\ ~r.ckptLock =>
    /\ r.pc \in {"rst0", "rst"} => r.readLock = 0 /\ r.tx > 0
    /\ r.pc \in {"write", "begin", "mark", "frame1", "frames"} =>
           /\ live.mxFrame <= r.hdr.mxFrame
           /\ Extent(r) > 0 \/ r.pc = "frame1" => Chained(w, r)
    /\ r.pc \in {"frame1", "frames"} => r.hdr.mxFrame <= r.iFrame
    /\ r.pc = "frame1" => r.iFrame = 0 /\ Len(disk.f) = Len(w.f)
    /\ r.iReCksum # 0 =>
           r.pc = "frames" /\ live.mxFrame < r.iReCksum /\ r.iReCksum <= r.iFrame
    /\ r.pc \in {"rst0", "rst", "begin", "mark", "frame1", "frames"} =>
           r.iFirst = 0 \/ live.mxFrame < r.iFirst
    /\ r.pc = "write" /\ r.spilled = {} => r.hdr = live
    /\ r.pc \in {"rst0", "rst", "begin", "mark", "frame1", "frames"} /\ ~r.commit =>
           r.spilled # {} /\ r.iFirst = 0 /\ r.iReCksum = 0
    /\ r.pc \in {"rst0", "rst", "begin", "mark", "frame1"} /\ r.commit => r.todo # {}
    /\ r.pc = "frames" /\ r.commit /\ r.todo = {} => r.iFrame > 0 /\ w.f[r.iFrame].trunc
    /\ r.pc = "publish" => live.mxFrame <= r.hdr.mxFrame /\ Committed(w, r.hdr)

\* Whoever restarts or empties the log.
RestartOK(live, r) ==
    /\ r.pc = "rst0" => r.hdr.mxFrame = 0 /\ r.hdr.salt # live.salt
    /\ r.pc = "rst" => r.hdr = live
    /\ r.pc \in {"rst", "trunc", "unlinkwal"} => live.mxFrame = 0

\* Recovery and checkpoints: a log with the salts that were read has only grown.
CkptOK(w, live, r) ==
    /\ r.pc = "rec0" => Committed(w, r.hdr) /\ live.mxFrame <= r.hdr.mxFrame
    /\ r.pc = "rec" => r.hdr = live
    /\ r.pc \in {"ckpt", "ckmark", "ckstart"} /\ live.salt = r.hdr.salt =>
           r.hdr.mxFrame <= live.mxFrame
    /\ r.pc \in {"ckmark", "ckstart"} => r.mxSafe <= r.hdr.mxFrame
    /\ r.pc = "copy" => r.mxSafe <= live.mxFrame

\* While frames are copied nobody reads the database alone.
CopyAlone == \A c, d \in Procs : conn[c].pc = "copy" => conn[d].readLock # 0

\* A log that a writer has named anew is not the one a checkpointer looks at.
SaltsDiffer == \A c, d \in Procs :
    c # d /\ conn[c].writeLock /\ conn[d].ckptLock =>
        conn[c].hdr.salt = Live.salt \/ conn[d].hdr.salt # conn[c].hdr.salt

SaltsDrawn ==
    /\ Live.salt <= salts /\ wal.salt <= salts
    /\ \A s \in walDisk.salt : s <= salts

BackfillOK == nBackfill <= Live.mxFrame \/ \E c \in Procs : conn[c].pc = "rst"

ConnOK(c) ==
    /\ PlaceOK(salts, conn[c])
    /\ WriterOK(wal, walDisk, Live, conn[c])
    /\ RestartOK(Live, conn[c])
    /\ CkptOK(wal, Live, conn[c])

IInv ==
    /\ Typed /\ DiskOK
    /\ Committed(wal, Live)
    /\ LocksOK /\ CopyAlone /\ SaltsDiffer /\ SaltsDrawn
    /\ BackfillOK
    /\ \A c \in Procs : ConnOK(c)

(* What the wal-index calls committed would be found again in the WAL file. *)
CommitsSurvive == Live.mxFrame <= LastCommit(wal)

------------------------------------------------------------------------------
(* Numbers and checksums                                                   *)

\* A set of numbers that is not empty has a least element.
LEMMA LeastOf ==
  ASSUME NEW S \in SUBSET Nat, S # {}
  PROVE  Min(S) \in S /\ \A y \in S : Min(S) <= y
<1> DEFINE R == {ss \in Nat \X Nat : ss[1] < ss[2]}
<1>1. IsWellFoundedOn(R, Nat)
  BY NatLessThanWellFounded DEF OpToRel
<1>2. PICK x \in S : \A y \in S : ~(<<y, x>> \in R)
  <2> HIDE DEF R
  <2> QED BY <1>1, WFMin
<1>3. \A y \in S : x <= y
  <2> SUFFICES ASSUME NEW y \in S PROVE x <= y
    OBVIOUS
  <2>1. <<y, x>> \in Nat \X Nat
    OBVIOUS
  <2>2. ~(y < x)
    BY <1>2, <2>1
  <2> QED BY <2>2
<1> QED BY <1>3 DEF Min

\* One that is bounded has a greatest.
LEMMA GreatestOf ==
  ASSUME NEW n \in Nat, NEW S \in SUBSET (0..n), S # {}
  PROVE  Max(S) \in S /\ \A y \in S : y <= Max(S)
<1> DEFINE T == {n - x : x \in S}
<1>1. T \in SUBSET Nat /\ T # {}
  <2>1. \A x \in S : n - x \in Nat
    OBVIOUS
  <2> QED BY <2>1
<1>2. PICK t \in T : \A y \in T : t <= y
  <2> HIDE DEF T
  <2> QED BY <1>1, LeastOf
<1>3. PICK x \in S : t = n - x
  OBVIOUS
<1>4. \A y \in S : x >= y
  <2> SUFFICES ASSUME NEW y \in S PROVE x >= y
    OBVIOUS
  <2>1. t <= n - y
    BY <1>2
  <2> QED BY <1>3, <2>1
<1> QED BY <1>4 DEF Max

\* A frame of the file.
LEMMA FrameOf ==
  ASSUME NEW w \in WalFile, NEW i \in 1..Len(w.f)
  PROVE  w.f[i] \in Frame /\ Body(w.f[i]) \in Bodies
<1>1. w.f \in Seq(Frame)
  BY DEF WalFile
<1>2. w.f[i] \in Frame
  BY <1>1
<1> QED BY <1>2 DEF Frame, Bodies, Body

\* What a checksum covers depends on the frames up to it, and a frame stays
\* valid as long as they and the salts stay.
LEMMA SumKept ==
  ASSUME NEW w, NEW v, NEW n \in Nat, \A j \in 1..n : Body(v.f[j]) = Body(w.f[j])
  PROVE  \A i \in 0..n : SumTo(v, i) = SumTo(w, i)
BY DEF SumTo

\* Frames whose salts and bodies stay, up to a point, stay valid up to there.
LEMMA ValidKept ==
  ASSUME NEW w, NEW v, NEW n \in Nat, v.salt = w.salt,
         \A j \in 1..n : v.f[j] = w.f[j]
  PROVE  \A i \in 1..n : ValidFrame(w, i) => ValidFrame(v, i)
<1> SUFFICES ASSUME NEW i \in 1..n, ValidFrame(w, i) PROVE ValidFrame(v, i)
  OBVIOUS
<1>1. \A j \in 1..i : Body(v.f[j]) = Body(w.f[j])
  OBVIOUS
<1> QED BY <1>1 DEF ValidFrame

\* What is committed stays so when the frames behind it change.
LEMMA CommittedKept ==
  ASSUME NEW w, NEW v, NEW h \in Hdr, Committed(w, h), v.salt = w.salt,
         h.mxFrame <= Len(v.f), \A j \in 1..h.mxFrame : v.f[j] = w.f[j]
  PROVE  Committed(v, h)
<1>1. h.mxFrame \in Nat
  BY DEF Hdr
<1>2. \A i \in 1..h.mxFrame : ValidFrame(w, i) => ValidFrame(v, i)
  BY <1>1, ValidKept
<1>3. SumTo(v, h.mxFrame) = SumTo(w, h.mxFrame)
  <2>1. \A j \in 1..h.mxFrame : Body(v.f[j]) = Body(w.f[j])
    OBVIOUS
  <2>2. \A i \in 0..h.mxFrame : SumTo(v, i) = SumTo(w, i)
    BY <1>1, <2>1, SumKept
  <2> QED BY <1>1, <2>2
<1> QED BY <1>1, <1>2, <1>3 DEF Committed

\* walIndexRecover counts the frames from the first on that are valid.
LEMMA ValidToOK ==
  ASSUME NEW w \in WalFile
  PROVE  /\ ValidTo(w) \in 0..Len(w.f)
         /\ ValidTo(w) > 0 => w.salt > 0
         /\ \A i \in 1..ValidTo(w) : ValidFrame(w, i)
         /\ \A n \in 0..Len(w.f) :
               w.salt > 0 /\ (\A i \in 1..n : ValidFrame(w, i)) => n <= ValidTo(w)
<1> DEFINE S == {n \in 0..Len(w.f) : \A i \in 1..n : ValidFrame(w, i)}
<1>1. Len(w.f) \in Nat /\ w.salt \in Nat
  BY DEF WalFile
<1>2. 0 \in S /\ S \in SUBSET (0..Len(w.f))
  BY <1>1
<1>3. Max(S) \in S /\ \A y \in S : y <= Max(S)
  <2> HIDE DEF S
  <2> QED BY <1>1, <1>2, GreatestOf
<1>4. ValidTo(w) = IF w.salt = 0 THEN 0 ELSE Max(S)
  BY DEF ValidTo
<1>5. CASE w.salt = 0
  BY <1>1, <1>4, <1>5
<1>6. CASE w.salt # 0
  <2>1. ValidTo(w) = Max(S) /\ w.salt > 0
    BY <1>1, <1>4, <1>6
  <2>2. \A n \in 0..Len(w.f) : (\A i \in 1..n : ValidFrame(w, i)) => n \in S
    OBVIOUS
  <2>3. Max(S) \in 0..Len(w.f) /\ \A i \in 1..Max(S) : ValidFrame(w, i)
    BY <1>3
  <2> HIDE DEF S
  <2> QED BY <1>3, <2>1, <2>2, <2>3
<1> QED BY <1>5, <1>6

\* It recovers up to the last of them that ends a commit.
LEMMA LastCommitOK ==
  ASSUME NEW w \in WalFile
  PROVE  /\ LastCommit(w) \in 0..Len(w.f)
         /\ LastCommit(w) > 0 => w.salt > 0 /\ w.f[LastCommit(w)].trunc
         /\ \A i \in 1..LastCommit(w) : ValidFrame(w, i)
         /\ \A n \in 1..Len(w.f) :
               w.salt > 0 /\ w.f[n].trunc /\ (\A i \in 1..n : ValidFrame(w, i))
               => n <= LastCommit(w)
<1> DEFINE S == {0} \cup {i \in 1..ValidTo(w) : w.f[i].trunc}
<1>1. Len(w.f) \in Nat /\ ValidTo(w) \in 0..Len(w.f) /\ ValidTo(w) \in Nat
  BY ValidToOK DEF WalFile
<1>2. S \in SUBSET (0..ValidTo(w)) /\ S # {}
  BY <1>1
<1>3. Max(S) \in S /\ \A y \in S : y <= Max(S)
  <2> HIDE DEF S
  <2> QED BY <1>1, <1>2, GreatestOf
<1>4. LastCommit(w) = Max(S)
  BY DEF LastCommit
<1>5. /\ LastCommit(w) \in 0..ValidTo(w)
      /\ LastCommit(w) > 0 => w.f[LastCommit(w)].trunc
  BY <1>1, <1>3, <1>4
<1>6. \A n \in 1..ValidTo(w) : w.f[n].trunc => n <= LastCommit(w)
  <2> SUFFICES ASSUME NEW n \in 1..ValidTo(w), w.f[n].trunc PROVE n <= LastCommit(w)
    OBVIOUS
  <2>1. n \in S
    OBVIOUS
  <2> QED BY <1>3, <1>4, <2>1
<1> HIDE DEF S
<1>7. \A n \in 1..Len(w.f) :
         w.salt > 0 /\ (\A i \in 1..n : ValidFrame(w, i)) => n \in 1..ValidTo(w)
  BY <1>1, ValidToOK
<1> QED BY <1>1, <1>5, <1>6, <1>7, ValidToOK

\* So it finds no less than the wal-index calls committed.
LEMMA RecoversLog ==
  ASSUME NEW w \in WalFile, NEW h \in Hdr, Committed(w, h)
  PROVE  h.mxFrame <= LastCommit(w)
<1>1. h.mxFrame \in Nat /\ Len(w.f) \in Nat /\ LastCommit(w) \in Nat
  BY LastCommitOK DEF Hdr, WalFile
<1>2. CASE h.mxFrame = 0
  BY <1>1, <1>2
<1>3. CASE h.mxFrame > 0
  <2>1. h.mxFrame \in 1..Len(w.f) /\ w.salt > 0 /\ w.f[h.mxFrame].trunc
        /\ \A i \in 1..h.mxFrame : ValidFrame(w, i)
    BY <1>1, <1>3 DEF Committed
  <2> QED BY <2>1, LastCommitOK
<1> QED BY <1>1, <1>2, <1>3

\* The header that it publishes describes the log that it has found.
LEMMA RecoveredHdr ==
  ASSUME NEW w \in WalFile, NEW h \in Hdr, h.mxFrame = LastCommit(w),
         h.mxFrame > 0 => h.salt = w.salt /\ h.cksum = w.f[h.mxFrame].cksum
  PROVE  Committed(w, h)
<1>1. LastCommit(w) \in 0..Len(w.f) /\ Len(w.f) \in Nat
  BY LastCommitOK DEF WalFile
<1>2. h.mxFrame > 0 => h.mxFrame \in 1..LastCommit(w)
  BY <1>1
<1>3. h.mxFrame > 0 => w.f[h.mxFrame].cksum = SumTo(w, h.mxFrame)
  BY <1>2, LastCommitOK DEF ValidFrame, SumTo
<1> QED BY <1>1, <1>3, LastCommitOK DEF Committed

------------------------------------------------------------------------------
(* What a step of one connection leaves alone                              *)

Others(c) == \A d \in Procs \ {c} : conn'[d] = conn[d]

\* A connection that does not move: what it says about the log holds for the new
\* log if it has no lock that keeps the log as it is, or the log is as it was.
LEMMA OtherKept ==
  ASSUME IInv, NEW d \in Procs, conn'[d] = conn[d], salts' \in Nat, salts <= salts',
         conn[d].writeLock \/ conn[d].pc = "unlinkwal" => wal' = wal /\ Live' = Live,
         conn[d].pc = "frame1" => walDisk' = walDisk \/ Len(walDisk'.f) = Len(wal.f),
         conn[d].ckptLock /\ Live' # Live =>
             /\ conn[d].pc = "copy" => conn[d].mxSafe <= Live'.mxFrame
             /\ conn[d].pc # "copy" /\ Live'.salt = conn[d].hdr.salt =>
                    conn[d].writeLock \/ conn[d].hdr.mxFrame <= Live'.mxFrame
  PROVE  ConnOK(d)'
<1>1. ConnOK(d) /\ Conn(conn[d]) /\ salts \in Nat
  BY DEF IInv, Typed
<1>2. PlaceOK(salts', conn[d])
  <2>1. conn[d].hdr.salt \in Nat
    BY <1>1 DEF Conn, ConnWith, Hdr
  <2> QED BY <1>1, <2>1 DEF ConnOK, PlaceOK
<1>3. WriterOK(wal', walDisk', Live', conn[d])
  <2> SUFFICES ASSUME conn[d].writeLock
               PROVE  WriterOK(wal, walDisk', Live, conn[d])
    BY DEF WriterOK
  <2> QED BY <1>1 DEF ConnOK, WriterOK
<1>4. RestartOK(Live', conn[d])
  <2>1. conn[d].pc \in {"rst0", "rst", "trunc"} => conn[d].writeLock
    BY <1>1 DEF ConnOK, PlaceOK
  <2> QED BY <1>1, <2>1 DEF ConnOK, RestartOK
<1>5. CkptOK(wal', Live', conn[d])
  <2>1. conn[d].pc \in {"rec0", "rec"} => conn[d].writeLock
    BY <1>1 DEF ConnOK, PlaceOK
  <2>2. conn[d].pc \in {"ckpt", "ckmark", "ckstart", "copy"} => conn[d].ckptLock
    BY <1>1 DEF ConnOK, PlaceOK
  <2> QED BY <1>1, <2>1, <2>2 DEF ConnOK, CkptOK
<1> QED BY <1>2, <1>3, <1>4, <1>5 DEF ConnOK

\* Locks are taken when they are free.
LEMMA LocksKept ==
  ASSUME LocksOK, NEW c \in Procs, Others(c),
         conn'[c].writeLock => conn[c].writeLock \/ WriteLockFree,
         conn'[c].ckptLock => conn[c].ckptLock \/ CkptLockFree,
         conn'[c].excl => conn[c].excl \/ OthersOff(c),
         Off(c)' \/ ~Off(c) \/ DbFileFree
  PROVE  LocksOK'
<1> SUFFICES ASSUME NEW a \in Procs, NEW b \in Procs, a # b
             PROVE  /\ ~(conn'[a].writeLock /\ conn'[b].writeLock)
                    /\ ~(conn'[a].ckptLock /\ conn'[b].ckptLock)
                    /\ conn'[a].excl => Off(b)'
  BY DEF LocksOK
<1>1. CASE a = c
  BY <1>1 DEF Others, LocksOK, WriteLockFree, CkptLockFree, OthersOff, DbFileFree, Off
<1>2. CASE b = c
  BY <1>2 DEF Others, LocksOK, WriteLockFree, CkptLockFree, OthersOff, DbFileFree, Off
<1>3. CASE a # c /\ b # c
  BY <1>3 DEF Others, LocksOK, Off
<1> QED BY <1>1, <1>2, <1>3

\* Copying starts when nobody holds read lock 0, and nobody takes it during it.
LEMMA CopyKept ==
  ASSUME CopyAlone, NEW c \in Procs, Others(c),
         conn'[c].pc = "copy" =>
             /\ conn'[c].readLock # 0
             /\ conn[c].pc = "copy" \/ \A d \in Procs : conn[d].readLock # 0,
         conn'[c].readLock = 0 =>
             conn[c].readLock = 0 \/ \A d \in Procs : conn[d].pc # "copy"
  PROVE  CopyAlone'
<1> SUFFICES ASSUME NEW a \in Procs, NEW b \in Procs, conn'[a].pc = "copy"
             PROVE  conn'[b].readLock # 0
  BY DEF CopyAlone
<1>1. CASE a = c
  BY <1>1 DEF Others, CopyAlone
<1>2. CASE b = c
  BY <1>2 DEF Others, CopyAlone
<1>3. CASE a # c /\ b # c
  BY <1>3 DEF Others, CopyAlone
<1> QED BY <1>1, <1>2, <1>3

\* Salts come from the wal-index, or nobody has seen them.
LEMMA SaltsKept ==
  ASSUME SaltsDiffer, NEW c \in Procs, Others(c), Live'.salt = Live.salt,
         conn'[c].writeLock =>
             \/ conn'[c].hdr.salt = Live.salt
             \/ conn[c].writeLock /\ conn'[c].hdr.salt = conn[c].hdr.salt
             \/ \A d \in Procs : conn[d].hdr.salt # conn'[c].hdr.salt,
         conn'[c].ckptLock =>
             \/ conn'[c].hdr.salt = Live.salt
             \/ conn[c].ckptLock /\ conn'[c].hdr.salt = conn[c].hdr.salt
             \/ \A d \in Procs \ {c} : ~conn[d].writeLock
  PROVE  SaltsDiffer'
<1> SUFFICES ASSUME NEW a \in Procs, NEW b \in Procs, a # b,
                    conn'[a].writeLock, conn'[b].ckptLock
             PROVE  \/ conn'[a].hdr.salt = Live.salt
                    \/ conn'[b].hdr.salt # conn'[a].hdr.salt
  BY DEF SaltsDiffer
<1>1. CASE a = c
  BY <1>1 DEF Others, SaltsDiffer
<1>2. CASE b = c
  BY <1>2 DEF Others, SaltsDiffer
<1>3. CASE a # c /\ b # c
  BY <1>3 DEF Others, SaltsDiffer
<1> QED BY <1>1, <1>2, <1>3

------------------------------------------------------------------------------
(* Steps of one connection                                                 *)

\* A step gives one connection a new state.
Moved(c) == /\ conn' = [d \in Procs |-> conn'[d]]
            /\ Others(c)
            /\ Conn(conn'[c])

\* What a step may do with locks, read lock 0 and salts.
TakesOK(c) ==
    /\ conn'[c].writeLock => conn[c].writeLock \/ WriteLockFree
    /\ conn'[c].ckptLock => conn[c].ckptLock \/ CkptLockFree
    /\ conn'[c].excl => conn[c].excl \/ OthersOff(c)
    /\ Off(c)' \/ ~Off(c) \/ DbFileFree
    /\ conn'[c].pc = "copy" =>
           /\ conn'[c].readLock # 0
           /\ conn[c].pc = "copy" \/ \A d \in Procs : conn[d].readLock # 0
    /\ conn'[c].readLock = 0 =>
           conn[c].readLock = 0 \/ \A d \in Procs : conn[d].pc # "copy"
NamesOK(c) ==
    /\ conn'[c].writeLock =>
           \/ conn'[c].hdr.salt = Live.salt
           \/ conn[c].writeLock /\ conn'[c].hdr.salt = conn[c].hdr.salt
           \/ \A d \in Procs : conn[d].hdr.salt # conn'[c].hdr.salt
    /\ conn'[c].ckptLock =>
           \/ conn'[c].hdr.salt = Live.salt
           \/ conn[c].ckptLock /\ conn'[c].hdr.salt = conn[c].hdr.salt
           \/ \A d \in Procs \ {c} : ~conn[d].writeLock

\* A step that changes neither the log nor what the wal-index says of it.
LogSame == /\ wal' = wal /\ Live' = Live /\ nBackfill' = nBackfill
           /\ walDisk' = walDisk \/ walDisk' = SyncedWal(wal)
           /\ aHdr' \in [{0, 1} -> Hdr]
           /\ aReadMark' \in [0..(NReader - 1) -> Nat]
           /\ nextTx' \in Nat \ {0}
           /\ salts' \in Nat /\ salts <= salts'

\* After a sync the disk holds the file, frame by frame.
LEMMA SyncedType ==
  ASSUME NEW w \in WalFile
  PROVE  /\ SyncedWal(w) \in [salt : SUBSET Nat, f : Seq(SUBSET Frame)]
         /\ Len(SyncedWal(w).f) = Len(w.f)
         /\ SyncedWal(w).salt = {w.salt}
<1>1. w.salt \in Nat /\ w.f \in Seq(Frame) /\ Len(w.f) \in Nat
  BY DEF WalFile
<1>2. \A i \in 1..Len(w.f) : {w.f[i]} \in SUBSET Frame
  BY <1>1
<1>3. [i \in 1..Len(w.f) |-> {w.f[i]}] \in Seq(SUBSET Frame)
  BY <1>1, <1>2
<1>4. Len([i \in 1..Len(w.f) |-> {w.f[i]}]) = Len(w.f)
  BY <1>1
<1> QED BY <1>1, <1>3, <1>4 DEF SyncedWal

\* A step of one connection that leaves the log and both headers alone.
LEMMA QuietStep ==
  ASSUME IInv, NEW c \in Procs, Moved(c), TakesOK(c), NamesOK(c), ConnOK(c)',
         conn[c].pc # "rst", LogSame
  PROVE  IInv'
<1> USE DEF LogSame
<1>1. Typed /\ DiskOK
  BY DEF IInv
<1>2. /\ walDisk' \in [salt : SUBSET Nat, f : Seq(SUBSET Frame)]
      /\ walDisk' = walDisk \/ Len(walDisk'.f) = Len(wal.f)
      /\ \A s \in walDisk'.salt : s \in walDisk.salt \/ s = wal.salt
  <2>1. CASE walDisk' = walDisk
    BY <1>1, <2>1 DEF Typed
  <2>2. CASE walDisk' = SyncedWal(wal)
    BY <1>1, <2>2, SyncedType DEF Typed
  <2> QED BY <2>1, <2>2
<1>3. Typed'
  <2>1. \A d \in Procs : Conn(conn'[d])
    BY <1>1 DEF Typed, Moved, Others
  <2> QED BY <1>1, <1>2, <2>1 DEF Typed, Moved
<1>4. DiskOK'
  BY <1>1, <1>2 DEF DiskOK
<1>5. Committed(wal, Live)'
  BY DEF IInv
<1>6. LocksOK' /\ CopyAlone' /\ SaltsDiffer'
  <2>1. Others(c) /\ LocksOK /\ CopyAlone /\ SaltsDiffer
    BY DEF IInv, Moved
  <2>2. LocksOK'
    BY <2>1, LocksKept DEF TakesOK
  <2>3. CopyAlone'
    BY <2>1, CopyKept DEF TakesOK
  <2>4. SaltsDiffer'
    BY <2>1, SaltsKept DEF NamesOK
  <2> QED BY <2>2, <2>3, <2>4
<1>7. SaltsDrawn'
  <2>1. SaltsDrawn /\ salts \in Nat /\ wal.salt \in Nat /\ Live.salt \in Nat
        /\ walDisk.salt \in SUBSET Nat
    BY <1>1 DEF IInv, Typed, WalFile, Hdr, Live
  <2> QED BY <1>2, <2>1 DEF SaltsDrawn
<1>8. BackfillOK'
  <2>1. BackfillOK
    BY DEF IInv
  <2>2. ASSUME NEW d \in Procs, conn[d].pc = "rst" PROVE conn'[d].pc = "rst"
    BY <2>2 DEF Moved, Others
  <2> QED BY <2>1, <2>2 DEF BackfillOK
<1>9. \A d \in Procs : ConnOK(d)'
  <2> SUFFICES ASSUME NEW d \in Procs \ {c} PROVE ConnOK(d)'
    OBVIOUS
  <2>1. conn'[d] = conn[d]
    BY DEF Moved, Others
  <2> QED BY <1>2, <2>1, OtherKept
<1> QED BY <1>3, <1>4, <1>5, <1>6, <1>7, <1>8, <1>9 DEF IInv

\* The facts about a connection that moves.
LEMMA ConnType ==
  ASSUME IInv, NEW c \in Procs
  PROVE  /\ conn = [d \in Procs |-> conn[d]]
         /\ Conn(conn[c])
         /\ ConnOK(c)
         /\ aHdr \in [{0, 1} -> Hdr] /\ Live \in Hdr /\ nBackfill \in Nat
         /\ aReadMark \in [0..(NReader - 1) -> Nat]
         /\ nextTx \in Nat \ {0} /\ salts \in Nat
BY DEF IInv, Typed, Live

\* A step that changes no shared state.
LEMMA Stutters ==
  ASSUME IInv, UNCHANGED <<files, index, nextTx, salts>>
  PROVE  LogSame /\ walDisk' = walDisk /\ salts' = salts
BY ConnType, Z3 DEF LogSame, files, index, Live, IInv, Typed

\* A connection at rest.
LEMMA RestType ==
  ASSUME NEW pc \in Places, NEW h \in Hdr, NEW cached
  PROVE  /\ Conn(Rest(pc, h, cached))
         /\ Rest(pc, h, cached).pc = pc
         /\ Rest(pc, h, cached).hdr = h
<1>1. Rest(pc, h, cached).pc = pc /\ Rest(pc, h, cached).hdr = h
      /\ Rest(pc, h, cached).cache = cached
  BY DEF Rest
<1>2. -1 \in Int /\ {} \in SUBSET Pages
  OBVIOUS
<1>3. Conn(Rest(pc, h, cached))
  BY <1>1, <1>2, SMT DEF Rest, Conn, ConnWith
<1> QED BY <1>1, <1>3

\* A closed connection and an empty header are well typed.
LEMMA ClosedType ==
  /\ Conn(Closed) /\ NoHdr \in Hdr
  /\ Closed.hdr = NoHdr /\ Closed.pc = "off"
<1>1. NoHdr \in Hdr
  BY DEF NoHdr, Hdr
<1> QED BY <1>1, RestType DEF Closed, Places

\* A connection that rests is well placed.
LEMMA RestOK ==
  ASSUME NEW pc \in {"idle", "read", "begin"}, NEW h \in Hdr, NEW cached,
         NEW n \in Nat, h.salt <= n, NEW w, NEW disk, NEW live
  PROVE  /\ PlaceOK(n, Rest(pc, h, cached))
         /\ WriterOK(w, disk, live, Rest(pc, h, cached))
         /\ RestartOK(live, Rest(pc, h, cached))
         /\ CkptOK(w, live, Rest(pc, h, cached))
BY DEF Rest, PlaceOK, WriterOK, RestartOK, CkptOK

\* A step that only replaces the record of one connection moves no other.
LEMMA MoveTo ==
  ASSUME IInv, NEW c \in Procs, NEW s, Conn(s), conn' = [conn EXCEPT ![c] = s]
  PROVE  Moved(c) /\ conn'[c] = s /\ Others(c)
BY ConnType DEF Moved, Others

------------------------------------------------------------------------------
(* Readers                                                                 *)

\* walIndexReadHdr: the header read is the live one.
LEMMA ReadHdrStep == ASSUME IInv, NEW c \in Procs, ReadHdr(c) PROVE IInv'
<1> PICK r : r = conn[c]
  OBVIOUS
<1>y. PICK y : y = IF r.hdr = Live THEN r.cache ELSE NoCache
  OBVIOUS
<1> DEFINE s == [r EXCEPT !.pc = "begin", !.hdr = Live, !.cache = y]
<1>1. Conn(r) /\ ConnOK(c) /\ Live \in Hdr /\ r.pc = "idle" /\ Live.salt <= salts
  BY ConnType DEF ReadHdr, IInv, SaltsDrawn
<1>2. conn' = [conn EXCEPT ![c] = s]
  BY <1>y, ConnType DEF ReadHdr
<1>3. Conn(s)
  BY <1>1 DEF Conn, ConnWith, Places
<1>4. /\ s.pc = "begin" /\ s.hdr = Live /\ ~s.writeLock /\ ~s.ckptLock
      /\ s.excl = r.excl /\ s.readLock = r.readLock
      /\ s.tx = 0 /\ s.iReCksum = 0 /\ s.mi = 0
  BY <1>1, ConnType DEF Conn, ConnWith, ConnOK, PlaceOK
<1> HIDE DEF s
<1>5. Moved(c) /\ conn'[c] = s
  BY <1>2, <1>3, MoveTo
<1>6. LogSame /\ salts' = salts
  BY Stutters DEF ReadHdr, bounds
<1>7. ConnOK(c)'
  BY <1>1, <1>4, <1>5, <1>6 DEF LogSame, ConnOK, PlaceOK, WriterOK, RestartOK, CkptOK
<1>8. TakesOK(c) /\ NamesOK(c)
  BY <1>1, <1>4, <1>5 DEF TakesOK, NamesOK, Off
<1> QED BY <1>1, <1>5, <1>6, <1>7, <1>8, QuietStep

\* The mark that walTryBeginRead chooses.
LEMMA MarkOf ==
  ASSUME IInv, NEW c \in Procs
  PROVE  /\ Largest(c) \in 0..(NReader - 1)
         /\ Free # {} => Min(Free) \in 1..(NReader - 1)
<1>1. NReader \in Nat /\ NReader - 1 \in Nat /\ Usable(c) \in SUBSET (0..(NReader - 1))
  BY NReaderAssumption DEF Usable
<1>2. ASSUME Usable(c) = {} PROVE Largest(c) \in 0..(NReader - 1)
  <2>1. Largest(c) = 0
    BY <1>2 DEF Largest
  <2> QED BY <1>1, <2>1
<1>3. ASSUME Usable(c) # {} PROVE Largest(c) \in 0..(NReader - 1)
  <2> DEFINE T == {i \in Usable(c) : \A j \in Usable(c) : aReadMark[j] <= aReadMark[i]}
             V == {aReadMark[i] : i \in Usable(c)}
             n == conn[c].hdr.mxFrame
  <2>1. n \in Nat
    BY ConnType DEF Conn, ConnWith, Hdr
  <2>2. V \in SUBSET (0..n) /\ V # {}
    BY <1>1, <1>3, <2>1, ConnType DEF Usable
  <2>3. PICK v \in V : \A y \in V : y <= v
    <3> HIDE DEF V, n
    <3> QED BY <2>1, <2>2, GreatestOf
  <2>4. T \in SUBSET (0..(NReader - 1)) /\ T # {}
    BY <1>1, <2>3
  <2>5. Max(T) \in 0..(NReader - 1)
    <3> HIDE DEF T
    <3> QED BY <1>1, <2>4, GreatestOf
  <2>6. Largest(c) = Max(T)
    BY <1>3 DEF Largest
  <2> HIDE DEF T
  <2> QED BY <2>5, <2>6
<1>4. ASSUME Free # {} PROVE Min(Free) \in 1..(NReader - 1)
  <2>1. Free \in SUBSET Nat
    BY <1>1 DEF Free
  <2>2. Min(Free) \in Free
    BY <1>4, <2>1, LeastOf
  <2> QED BY <2>2 DEF Free
<1> QED BY <1>1, <1>2, <1>3, <1>4

\* walTryBeginRead: choosing a mark takes no lock yet.
LEMMA ChooseMarkStep == ASSUME IInv, NEW c \in Procs, ChooseMark(c) PROVE IInv'
<1> PICK r : r = conn[c]
  OBVIOUS
<1>1. Conn(r) /\ ConnOK(c) /\ r.pc = "begin" /\ r.hdr.mxFrame \in Nat
      /\ NReader \in Nat
  BY NReaderAssumption, ConnType DEF ChooseMark, Conn, ConnWith, Hdr
<1>2. /\ ~r.ckptLock /\ r.mi = 0 /\ NReader - 1 \in Nat
      /\ ~r.writeLock => r.tx = 0 /\ r.iReCksum = 0
  BY <1>1, NReaderAssumption DEF ConnOK, PlaceOK
<1>k. PICK k : k = (LET mx  == conn[c].hdr.mxFrame
                      i   == Largest(c)
                      set == (i = 0 \/ aReadMark[i] < mx) /\ Free # {}
                  IN  IF set THEN Min(Free) ELSE i)
  OBVIOUS
<1>3. k \in 0..(NReader - 1)
  BY <1>2, <1>k, MarkOf
<1>4. CASE k = 0
  <2> DEFINE s == [r EXCEPT !.pc = RetryAt(c)]
  <2>1. RetryAt(c) = IF r.writeLock THEN "begin" ELSE "idle"
    BY DEF RetryAt
  <2>2. conn' = [conn EXCEPT ![c] = s] /\ aReadMark' = aReadMark
    BY <1>4, <1>k, ConnType DEF ChooseMark
  <2>3. Conn(s)
    BY <1>1, <2>1 DEF Conn, ConnWith, Places
  <2>5. /\ s.pc = RetryAt(c) /\ s.hdr = r.hdr /\ s.writeLock = r.writeLock
        /\ s.ckptLock = r.ckptLock
        /\ s.excl = r.excl /\ s.readLock = r.readLock
        /\ s.tx = r.tx /\ s.iReCksum = r.iReCksum /\ s.mi = r.mi /\ s.iFirst = r.iFirst
        /\ s.commit = r.commit /\ s.todo = r.todo /\ s.spilled = r.spilled
    BY <1>1 DEF Conn, ConnWith
  <2> HIDE DEF s
  <2>6. Moved(c) /\ conn'[c] = s
    BY <2>2, <2>3, MoveTo
  <2>7. LogSame /\ walDisk' = walDisk /\ salts' = salts
    BY <2>2, Stutters DEF ChooseMark, bounds, index
  <2>8. ConnOK(c)'
    <3>1. PlaceOK(salts', s)
      BY <1>1, <1>2, <2>1, <2>5, <2>7 DEF ConnOK, PlaceOK
    <3>2. WriterOK(wal', walDisk', Live', s)
      BY <1>1, <1>2, <2>1, <2>5, <2>7 DEF LogSame, ConnOK, WriterOK, Chained, Extent, Intact
    <3> QED BY <1>2, <2>1, <2>5, <2>6, <3>1, <3>2 DEF ConnOK, RestartOK, CkptOK
  <2>9. TakesOK(c) /\ NamesOK(c)
    BY <1>1, <1>2, <2>1, <2>5, <2>6 DEF TakesOK, NamesOK, Off
  <2> QED BY <1>1, <2>6, <2>7, <2>8, <2>9, QuietStep
<1>5. CASE k # 0
  <2>0. PICK mark : mark = aReadMark'[k]
    OBVIOUS
  <2> DEFINE s == [r EXCEPT !.pc = "mark", !.mi = k, !.mv = mark]
  <2>2. conn' = [conn EXCEPT ![c] = s]
        /\ aReadMark' \in [0..(NReader - 1) -> Nat]
    BY <1>1, <1>3, <1>5, <1>k, <2>0, ConnType DEF ChooseMark
  <2>3. Conn(s)
    <3>1. k \in Nat /\ mark \in Nat
      BY <1>2, <1>3, <2>0, <2>2
    <3> QED BY <1>1, <3>1 DEF Conn, ConnWith, Places
  <2>5. /\ s.pc = "mark" /\ s.hdr = r.hdr /\ s.writeLock = r.writeLock
        /\ s.ckptLock = r.ckptLock
        /\ s.excl = r.excl /\ s.readLock = r.readLock
        /\ s.tx = r.tx /\ s.iReCksum = r.iReCksum /\ s.mi = k /\ s.iFirst = r.iFirst
        /\ s.commit = r.commit /\ s.todo = r.todo /\ s.spilled = r.spilled
    BY <1>1 DEF Conn, ConnWith
  <2> HIDE DEF s
  <2>6. Moved(c) /\ conn'[c] = s
    BY <2>2, <2>3, MoveTo
  <2>7. LogSame /\ walDisk' = walDisk /\ salts' = salts
    <3>1. UNCHANGED <<wal, walDisk, aHdr, nBackfill, nextTx, salts>>
      BY DEF ChooseMark, bounds, files
    <3> QED BY <2>2, <3>1, ConnType DEF LogSame, Live
  <2>8. ConnOK(c)'
    <3>1. PlaceOK(salts', s)
      BY <1>1, <1>2, <1>3, <1>5, <2>5, <2>7 DEF ConnOK, PlaceOK
    <3>2. WriterOK(wal', walDisk', Live', s)
      BY <1>1, <1>2, <2>5, <2>7 DEF LogSame, ConnOK, WriterOK, Chained, Extent, Intact
    <3> QED BY <1>2, <2>5, <2>6, <3>1, <3>2 DEF ConnOK, RestartOK, CkptOK
  <2>9. TakesOK(c) /\ NamesOK(c)
    BY <1>1, <1>2, <2>5, <2>6 DEF TakesOK, NamesOK, Off
  <2> QED BY <1>1, <2>6, <2>7, <2>8, <2>9, QuietStep
<1> QED BY <1>4, <1>5

\* A connection closes or dies.
LEMMA ClosedStep ==
  ASSUME IInv, NEW c \in Procs, conn' = [conn EXCEPT ![c] = Closed],
         conn[c].pc # "rst", LogSame
  PROVE  IInv'
<1>1. Moved(c) /\ conn'[c] = Closed
  BY MoveTo, ClosedType
<1>2. /\ Closed.pc = "off" /\ ~Closed.writeLock /\ ~Closed.ckptLock /\ ~Closed.excl
      /\ Closed.readLock = -1 /\ Closed.hdr.salt = 0 /\ Closed.mi = 0 /\ Closed.tx = 0
      /\ Closed.iReCksum = 0
  BY DEF Closed, Rest, NoHdr
<1>3. ConnOK(c)'
  BY <1>1, <1>2 DEF LogSame, ConnOK, PlaceOK, WriterOK, RestartOK, CkptOK
<1>4. TakesOK(c) /\ NamesOK(c)
  BY <1>1, <1>2 DEF TakesOK, NamesOK, Off
<1> QED BY <1>1, <1>3, <1>4, QuietStep

\* A connection that is not the last one just closes.
LEMMA LeaveStep == ASSUME IInv, NEW c \in Procs, Leave(c) PROVE IInv'
<1>1. LogSame
  BY Stutters DEF Leave, bounds
<1> QED BY <1>1, ClosedStep DEF Leave

\* A process that dies outside walRestartHdr leaves a state that the others expect.
LEMMA CrashStep ==
  ASSUME CrashInRestart = FALSE, IInv, NEW c \in Procs, Crash(c)
  PROVE  IInv'
<1>1. LogSame
  BY Stutters DEF Crash
<1> QED BY <1>1, ClosedStep DEF Crash

\* A connection at rest may keep its read lock.
Holding(q, lk, mf) == [q EXCEPT !.readLock = lk, !.minFrame = mf]

\* A connection that rests with a read lock in hand is well typed.
LEMMA RestReading ==
  ASSUME NEW pc \in Places, NEW h \in Hdr, NEW cached, NEW lk \in Int, NEW mf \in Nat,
         NEW s, s = Holding(Rest(pc, h, cached), lk, mf)
  PROVE  /\ Conn(s)
         /\ s.pc = pc /\ s.hdr = h /\ ~s.writeLock /\ ~s.ckptLock /\ ~s.excl
         /\ s.readLock = lk /\ s.mi = 0 /\ s.tx = 0 /\ s.iReCksum = 0
<1> PICK q : q = Rest(pc, h, cached)
  OBVIOUS
<1>1. Conn(q)
  BY RestType
<1>2. Conn(s)
  BY <1>1 DEF Holding, Conn, ConnWith
<1>3. /\ q.pc = pc /\ q.hdr = h /\ ~q.writeLock /\ ~q.ckptLock /\ ~q.excl
      /\ q.mi = 0 /\ q.tx = 0 /\ q.iReCksum = 0
  BY DEF Rest
<1> QED BY <1>1, <1>2, <1>3 DEF Holding, Conn, ConnWith

\* What the record of a resting connection holds.
LEMMA RestFields ==
  ASSUME NEW pc, NEW h, NEW cached, NEW s, s = Rest(pc, h, cached)
  PROVE  /\ s.pc = pc /\ s.hdr = h /\ ~s.writeLock /\ ~s.ckptLock /\ ~s.excl
         /\ s.readLock = -1 /\ s.mi = 0 /\ s.tx = 0 /\ s.iReCksum = 0
BY DEF Rest

RestsOf(c, s, pc, h, cached) ==
    \/ s = Rest(pc, h, cached)
    \/ \E mf \in Nat : s = Holding(Rest(pc, h, cached), conn[c].readLock, mf)

\* A connection comes to rest and keeps its read lock at most.
LEMMA RestStep ==
  ASSUME IInv, NEW c \in Procs, NEW pc \in {"idle", "read", "begin"}, NEW h \in Hdr, NEW cached,
         h.salt <= salts, NEW s, conn' = [conn EXCEPT ![c] = s],
         RestsOf(c, s, pc, h, cached),
         conn[c].pc \notin {"off", "rst"}, LogSame
  PROVE  IInv'
<1>1. pc \in Places /\ conn[c].readLock \in Int /\ h.salt \in Nat
  BY ConnType DEF Places, Conn, ConnWith, Hdr
<1>2. /\ Conn(s)
      /\ s.pc = pc /\ s.hdr = h /\ ~s.writeLock /\ ~s.ckptLock /\ ~s.excl
      /\ s.readLock \in {-1, conn[c].readLock} /\ s.mi = 0 /\ s.tx = 0 /\ s.iReCksum = 0
  <2>1. CASE s = Rest(pc, h, cached)
    BY <1>1, <2>1, RestType, RestFields
  <2>2. ASSUME NEW mf \in Nat, s = Holding(Rest(pc, h, cached), conn[c].readLock, mf)
        PROVE  /\ Conn(s)
               /\ s.pc = pc /\ s.hdr = h /\ ~s.writeLock /\ ~s.ckptLock /\ ~s.excl
               /\ s.readLock = conn[c].readLock /\ s.mi = 0 /\ s.tx = 0 /\ s.iReCksum = 0
    <3>1. PICK lk \in Int : lk = conn[c].readLock
      BY <1>1
    <3>2. s = Holding(Rest(pc, h, cached), lk, mf)
      BY <2>2, <3>1
    <3>3. /\ Conn(s)
          /\ s.pc = pc /\ s.hdr = h /\ ~s.writeLock /\ ~s.ckptLock /\ ~s.excl
          /\ s.readLock = lk /\ s.mi = 0 /\ s.tx = 0 /\ s.iReCksum = 0
      BY <1>1, <3>2, RestReading
    <3> QED BY <3>1, <3>3
  <2> QED BY <2>1, <2>2 DEF RestsOf
<1>4. Moved(c) /\ conn'[c] = s
  BY <1>2, MoveTo
<1>5. ConnOK(c)'
  <2>1. PlaceOK(salts', s)
    BY <1>1, <1>2, ConnType DEF LogSame, PlaceOK
  <2> QED BY <1>2, <1>4, <2>1 DEF ConnOK, WriterOK, RestartOK, CkptOK
<1>6. TakesOK(c) /\ NamesOK(c)
  BY <1>2, <1>4 DEF TakesOK, NamesOK, Off
<1> QED BY <1>4, <1>5, <1>6, QuietStep

\* The end of a read transaction.
LEMMA EndReadStep == ASSUME IInv, NEW c \in Procs, EndRead(c) PROVE IInv'
<1>1. LogSame
  BY Stutters DEF EndRead, bounds
<1>2. conn[c].hdr \in Hdr /\ conn[c].hdr.salt <= salts /\ conn[c].pc = "read"
  BY ConnType DEF EndRead, Conn, ConnWith, ConnOK, PlaceOK
<1> QED BY <1>1, <1>2, RestStep DEF EndRead, RestsOf

\* The first connection opens, the last one unlinks the wal-index, or all die.
StartsOver(s) ==
    /\ Conn(s) /\ s.pc \in {"off", "idle", "unlinkwal"} /\ s.hdr.salt <= salts
    /\ ~s.writeLock /\ ~s.ckptLock /\ s.mi = 0 /\ s.tx = 0 /\ s.iReCksum = 0
    /\ s.pc = "unlinkwal" => s.excl
    /\ s.pc = "off" => s = Closed

\* With the wal-index zeroed and at most one connection left, everything starts over.
LEMMA ZeroStep ==
  ASSUME IInv, ZeroIndex, wal' \in WalFile,
         walDisk' \in [salt : SUBSET Nat, f : Seq(SUBSET Frame)], DiskOK',
         wal'.salt <= salts, \A s \in walDisk'.salt : s <= salts,
         salts' = salts, nextTx' = nextTx,
         conn' = [d \in Procs |-> conn'[d]],
         \A d \in Procs : StartsOver(conn'[d]),
         \A d, e \in Procs : d # e => conn'[d] = Closed \/ conn'[e] = Closed
  PROVE  IInv'
<1>1. /\ Typed /\ salts \in Nat /\ nextTx \in Nat \ {0} /\ NReader \in Nat
  BY NReaderAssumption DEF IInv, Typed
<1>2. /\ Live' = NoHdr /\ aHdr' \in [{0, 1} -> Hdr] /\ nBackfill' = 0
      /\ aReadMark' \in [0..(NReader - 1) -> Nat]
      /\ Live'.mxFrame = 0 /\ Live'.salt = 0
  BY ClosedType DEF ZeroIndex, Live, NoHdr
<1>3. /\ Closed.pc = "off" /\ ~Closed.writeLock /\ ~Closed.ckptLock /\ ~Closed.excl
      /\ Closed.readLock = -1 /\ Closed.hdr.salt = 0 /\ Closed.mi = 0 /\ Closed.tx = 0
      /\ Closed.iReCksum = 0 /\ Conn(Closed)
  BY ClosedType DEF Closed, Rest, NoHdr
<1>4. \A d \in Procs : StartsOver(conn'[d])
  OBVIOUS
<1>5. Typed'
  BY <1>1, <1>2, <1>4 DEF Typed, StartsOver
<1>6. Committed(wal, Live)' /\ BackfillOK'
  BY <1>2 DEF Committed, BackfillOK
<1>7. LocksOK' /\ CopyAlone' /\ SaltsDiffer'
  BY <1>3, <1>4 DEF LocksOK, CopyAlone, SaltsDiffer, Off, StartsOver
<1>8. SaltsDrawn'
  BY <1>1, <1>2 DEF SaltsDrawn
<1>9. \A d \in Procs : ConnOK(d)'
  <2> SUFFICES ASSUME NEW d \in Procs PROVE ConnOK(d)'
    OBVIOUS
  <2> QED BY <1>1, <1>2, <1>3, <1>4
          DEF StartsOver, ConnOK, PlaceOK, WriterOK, RestartOK, CkptOK
<1> QED BY <1>5, <1>6, <1>7, <1>8, <1>9 DEF IInv

\* A closed connection may be part of such a new start.
LEMMA ClosedStarts == ASSUME IInv PROVE StartsOver(Closed)
<1>1. salts \in Nat
  BY DEF IInv, Typed
<1> QED BY <1>1, ClosedType DEF StartsOver, Closed, Rest, NoHdr

\* A new connection, the first of which empties the wal-index.
LEMMA OpenStep == ASSUME IInv, NEW c \in Procs, Open(c) PROVE IInv'
<1> PICK s : s = Rest("idle", NoHdr, NoCache)
  OBVIOUS
<1>1. Off(c) /\ DbFileFree /\ conn' = [conn EXCEPT ![c] = s] /\ UNCHANGED <<files, bounds, ghosts>>
  BY DEF Open
<1>2. /\ Conn(s) /\ s.pc = "idle" /\ s.hdr = NoHdr /\ ~s.writeLock /\ ~s.ckptLock /\ ~s.excl
      /\ s.readLock = -1 /\ s.mi = 0 /\ s.tx = 0 /\ s.iReCksum = 0 /\ NoHdr.salt = 0
  BY RestType, RestFields, ClosedType DEF Places, NoHdr
<1>3. Moved(c) /\ conn'[c] = s /\ Others(c)
  BY <1>1, <1>2, MoveTo
<1>4. CASE \A d \in Procs : Off(d)
  <2>1. ZeroIndex
    BY <1>4 DEF Open
  <2>2. \A d \in Procs : conn[d] = Closed
    BY <1>4, ConnType DEF ConnOK, PlaceOK, Off
  <2>3. /\ wal' = wal /\ walDisk' = walDisk /\ salts' = salts /\ nextTx' = nextTx
    BY <1>1 DEF files, bounds
  <2>4. /\ wal' \in WalFile /\ walDisk' \in [salt : SUBSET Nat, f : Seq(SUBSET Frame)] /\ DiskOK'
        /\ wal'.salt <= salts /\ \A x \in walDisk'.salt : x <= salts
    BY <2>3 DEF IInv, Typed, DiskOK, SaltsDrawn
  <2>5. \A d \in Procs \ {c} : conn'[d] = Closed
    BY <1>3, <2>2 DEF Others
  <2>6. StartsOver(conn'[c]) /\ StartsOver(Closed)
    <3>1. salts \in Nat
      BY ConnType
    <3> QED BY <1>2, <1>3, <3>1, ClosedStarts DEF StartsOver
  <2> QED BY <1>3, <2>1, <2>3, <2>4, <2>5, <2>6, ZeroStep DEF Moved
<1>5. CASE ~\A d \in Procs : Off(d)
  <2>1. LogSame /\ salts' = salts
    <3>1. UNCHANGED <<files, index, nextTx, salts>>
      BY <1>1, <1>5 DEF Open, bounds
    <3> QED BY <3>1, Stutters
  <2>2. ConnOK(c)'
    BY <1>2, <1>3, <2>1 DEF LogSame, ConnOK, PlaceOK, WriterOK, RestartOK, CkptOK
  <2>3. TakesOK(c) /\ NamesOK(c)
    BY <1>1, <1>2, <1>3 DEF TakesOK, NamesOK, Off
  <2>4. conn[c].pc # "rst"
    BY <1>1 DEF Off
  <2> QED BY <1>3, <2>1, <2>2, <2>3, <2>4, QuietStep
<1> QED BY <1>4, <1>5

\* The last connection deletes the wal-index.
LEMMA UnlinkIndexStep == ASSUME IInv, NEW c \in Procs, UnlinkIndex(c) PROVE IInv'
<1> PICK r : r = conn[c]
  OBVIOUS
<1> DEFINE s == [r EXCEPT !.pc = "unlinkwal"]
<1>1. /\ r.pc = "unlink" /\ ZeroIndex /\ UNCHANGED <<files, bounds, ghosts>>
      /\ conn' = [conn EXCEPT ![c] = s] /\ Conn(r) /\ ConnOK(c)
  BY ConnType DEF UnlinkIndex
<1>2. /\ ~r.writeLock /\ ~r.ckptLock /\ r.excl /\ r.tx = 0 /\ r.iReCksum = 0 /\ r.mi = 0
      /\ r.hdr.salt <= salts
  BY <1>1 DEF ConnOK, PlaceOK
<1>3. StartsOver(s)
  BY <1>1, <1>2 DEF StartsOver, Conn, ConnWith, Places
<1> HIDE DEF s
<1>4. Moved(c) /\ conn'[c] = s /\ Others(c)
  BY <1>1, <1>3, MoveTo DEF StartsOver
<1>5. \A d \in Procs \ {c} : conn'[d] = Closed
  <2> SUFFICES ASSUME NEW d \in Procs \ {c} PROVE conn'[d] = Closed
    OBVIOUS
  <2>1. Off(d)
    BY <1>2 DEF IInv, LocksOK
  <2>2. conn[d] = Closed
    BY <2>1, ConnType DEF ConnOK, PlaceOK, Off
  <2> QED BY <1>4, <2>2 DEF Others
<1>6. /\ wal' = wal /\ walDisk' = walDisk /\ salts' = salts /\ nextTx' = nextTx
  BY <1>1 DEF files, bounds
<1>7. /\ wal' \in WalFile /\ walDisk' \in [salt : SUBSET Nat, f : Seq(SUBSET Frame)] /\ DiskOK'
      /\ wal'.salt <= salts /\ \A x \in walDisk'.salt : x <= salts
  BY <1>6 DEF IInv, Typed, DiskOK, SaltsDrawn
<1> QED BY <1>1, <1>3, <1>4, <1>5, <1>6, <1>7, ClosedStarts, ZeroStep DEF Moved

\* A WAL file that does not exist.
LEMMA NoWalType == NoWal \in WalFile /\ NoWal.salt = 0 /\ NoWal.f = <<>> /\ Len(NoWal.f) = 0
<1>1. <<>> \in Seq(Frame) /\ Len(<<>>) = 0
  OBVIOUS
<1>2. PICK e \in Seq(Frame) : e = <<>>
  BY <1>1
<1>3. NoWal = [salt |-> 0, f |-> e]
  BY <1>2 DEF NoWal
<1>4. NoWal \in WalFile
  BY <1>3 DEF WalFile
<1> QED BY <1>1, <1>4 DEF NoWal

\* A power failure leaves a WAL file made of what the disk may hold.
LEMMA LeftOnDisk ==
  ASSUME IInv, NEW w \in WalsLeft
  PROVE  /\ w \in WalFile /\ w.salt <= salts
         /\ SyncedWal(w) \in [salt : SUBSET Nat, f : Seq(SUBSET Frame)]
         /\ Len(SyncedWal(w).f) = Len(w.f)
         /\ \A x \in SyncedWal(w).salt : x <= salts
<1>1. /\ walDisk.salt \in SUBSET Nat /\ walDisk.f \in Seq(SUBSET Frame) /\ Len(walDisk.f) \in Nat
      /\ \A x \in walDisk.salt : x <= salts /\ salts \in Nat
  BY DEF IInv, Typed, SaltsDrawn
<1>2. w \in WalFile /\ w.salt <= salts
  <2>1. CASE w = NoWal
    <3>1. salts \in Nat
      BY DEF IInv, Typed
    <3>2. 0 <= salts
      BY <3>1
    <3> QED BY <2>1, <3>2, NoWalType
  <2>2. CASE w # NoWal
    <3> DEFINE n == Len(walDisk.f)
    <3>1. /\ w.salt \in walDisk.salt
          /\ w = [salt |-> w.salt, f |-> w.f]
          /\ w.f \in [1..n -> UNION {walDisk.f[i] : i \in 1..n}]
      BY <2>2 DEF WalsLeft
    <3>2. \A i \in 1..n : walDisk.f[i] \in SUBSET Frame
      BY <1>1
    <3>3. UNION {walDisk.f[i] : i \in 1..n} \in SUBSET Frame
      BY <3>2
    <3>4. w.f \in [1..n -> Frame]
      BY <3>1, <3>3
    <3>5. w.f \in Seq(Frame)
      BY <1>1, <3>4
    <3> QED BY <1>1, <3>1, <3>5 DEF WalFile
  <2> QED BY <2>1, <2>2
<1>3. w.salt \in Nat /\ w.f \in Seq(Frame) /\ Len(w.f) \in Nat
  BY <1>2 DEF WalFile
<1> QED BY <1>2, <1>3, SyncedType

\* After a power failure: any mixture of frames on the disk, and no wal-index.
LEMMA PowerStep == ASSUME IInv, PowerFailure PROVE IInv'
<1>1. PICK w \in WalsLeft : wal' = w /\ walDisk' = SyncedWal(w)
  BY DEF PowerFailure
<1>2. ZeroIndex /\ conn' = [c \in Procs |-> Closed] /\ salts' = salts /\ nextTx' = nextTx
  BY DEF PowerFailure
<1>3. \A d \in Procs : conn'[d] = Closed
  BY <1>2
<1>4. /\ wal' \in WalFile /\ walDisk' \in [salt : SUBSET Nat, f : Seq(SUBSET Frame)] /\ DiskOK'
      /\ wal'.salt <= salts /\ \A x \in walDisk'.salt : x <= salts
  BY <1>1, LeftOnDisk DEF DiskOK
<1>5. conn' = [d \in Procs |-> conn'[d]]
  BY <1>2
<1> QED BY <1>2, <1>3, <1>4, <1>5, ClosedStarts, ZeroStep

\* Read lock 0 is taken only while nobody copies frames.
LEMMA LockZeroStep == ASSUME IInv, NEW c \in Procs, LockZero(c) PROVE IInv'
<1> PICK r : r = conn[c]
  OBVIOUS
<1>0. LogSame /\ salts' = salts
  BY Stutters DEF LockZero, bounds
<1>c. \A d \in Procs : conn[d].pc # "copy"
  BY DEF LockZero, MayShare, Backfilling
<1>1. /\ Conn(r) /\ ConnOK(c) /\ r.pc = "begin" /\ ~r.writeLock /\ ~r.ckptLock
  BY ConnType DEF LockZero, NeedsNoFrame, ConnOK, PlaceOK
<1>2. /\ r.tx = 0 /\ r.iReCksum = 0 /\ r.mi = 0 /\ r.hdr.salt <= salts
  BY <1>1 DEF ConnOK, PlaceOK
<1>3. CASE Live = r.hdr
  <2>y. PICK y : y = LET filled == [p \in Pages |-> ReadFrame(p, 0)]
                     IN  IF r.cache = NoCache THEN filled ELSE r.cache
    OBVIOUS
  <2>z. PICK z \in Nat : z \in Int /\ z = 0
    OBVIOUS
  <2> DEFINE s == [r EXCEPT !.readLock = z, !.minFrame = z, !.mi = z, !.mv = z,
                            !.pc = "read", !.iFrame = z, !.cache = y]
  <2>1. conn' = [conn EXCEPT ![c] = s]
    BY <1>1, <1>3, <2>y, <2>z, ConnType DEF LockZero, Started
  <2>2. Conn(s)
    <3>1. Conn(r) /\ z \in Nat /\ z \in Int
      BY <1>1, <2>z
    <3> QED BY <3>1 DEF Conn, ConnWith, Places
  <2>3. /\ s.pc = "read" /\ s.hdr = r.hdr /\ s.readLock = 0 /\ s.mi = 0
        /\ ~s.writeLock /\ ~s.ckptLock /\ s.excl = r.excl /\ s.tx = 0 /\ s.iReCksum = 0
    BY <1>1, <1>2, <2>z DEF Conn, ConnWith
  <2> HIDE DEF s
  <2>4. Moved(c) /\ conn'[c] = s
    BY <2>1, <2>2, MoveTo
  <2>5. ConnOK(c)'
    BY <1>0, <1>2, <2>3, <2>4 DEF ConnOK, PlaceOK, WriterOK, RestartOK, CkptOK
  <2>6. TakesOK(c) /\ NamesOK(c)
    BY <1>c, <1>1, <2>3, <2>4 DEF TakesOK, NamesOK, Off
  <2> QED BY <1>0, <1>1, <2>4, <2>5, <2>6, QuietStep
<1>4. CASE Live # r.hdr
  <2> DEFINE s == [r EXCEPT !.pc = "idle"]
  <2>1. conn' = [conn EXCEPT ![c] = s]
    BY <1>1, <1>4, ConnType DEF LockZero
  <2>2. Conn(s)
    BY <1>1 DEF Conn, ConnWith, Places
  <2>3. /\ s.pc = "idle" /\ s.hdr = r.hdr /\ s.readLock = r.readLock /\ s.mi = 0
        /\ ~s.writeLock /\ ~s.ckptLock /\ s.excl = r.excl /\ s.tx = 0 /\ s.iReCksum = 0
    BY <1>1, <1>2 DEF Conn, ConnWith
  <2> HIDE DEF s
  <2>4. Moved(c) /\ conn'[c] = s
    BY <2>1, <2>2, MoveTo
  <2>5. ConnOK(c)'
    BY <1>0, <1>2, <2>3, <2>4 DEF ConnOK, PlaceOK, WriterOK, RestartOK, CkptOK
  <2>6. TakesOK(c) /\ NamesOK(c)
    BY <1>c, <1>1, <2>3, <2>4 DEF TakesOK, NamesOK, Off
  <2> QED BY <1>0, <1>1, <2>4, <2>5, <2>6, QuietStep
<1> QED BY <1>3, <1>4

\* Any other read lock, with the check that the header and the mark have stayed.
LEMMA LockMarkStep == ASSUME IInv, NEW c \in Procs, LockMark(c) PROVE IInv'
<1> PICK r : r = conn[c]
  OBVIOUS
<1>0. LogSame /\ salts' = salts /\ walDisk' = walDisk
  BY Stutters DEF LockMark, bounds
<1>c. /\ Conn(r) /\ ConnOK(c) /\ r.pc = "mark" /\ nBackfill \in Nat
  BY ConnType DEF LockMark
<1>d. r.mi \in Nat /\ r.hdr.mxFrame \in Nat /\ ~r.ckptLock /\ r.mi # 0
  BY <1>c DEF ConnOK, PlaceOK, Conn, ConnWith, Hdr
<1>1. /\ Conn(r) /\ ConnOK(c) /\ r.pc = "mark" /\ ~r.ckptLock /\ nBackfill + 1 \in Nat
      /\ r.mi \in Nat /\ r.mi # 0 /\ r.mi \in Int /\ r.hdr.mxFrame \in Nat
  BY <1>c, <1>d
<1>2. /\ ~r.writeLock => r.tx = 0 /\ r.iReCksum = 0
      /\ r.hdr.salt <= salts
  BY <1>1 DEF ConnOK, PlaceOK
<1>3. CASE MayShare(r.mi) /\ aReadMark[r.mi] = r.mv /\ Live = r.hdr
  <2>y. PICK y : y = LET filled == [p \in Pages |->
                          ReadFrame(p, IF r.mi = 0 THEN 0 ELSE Newest(p, nBackfill + 1, r.hdr.mxFrame))]
                     IN  IF r.cache = NoCache THEN filled ELSE r.cache
    OBVIOUS
  <2>p. PICK pc : pc = IF r.writeLock THEN "frames" ELSE "read"
    OBVIOUS
  <2>n. PICK n : n = IF r.writeLock THEN r.hdr.mxFrame ELSE 0
    OBVIOUS
  <2> DEFINE s == [r EXCEPT !.readLock = r.mi, !.minFrame = nBackfill + 1, !.mi = 0, !.mv = 0,
                            !.pc = pc, !.iFrame = n, !.cache = y]
  <2>1. conn' = [conn EXCEPT ![c] = s]
    BY <1>1, <1>3, <2>y, <2>p, <2>n, ConnType DEF LockMark, Started
  <2>2. n \in Nat /\ pc \in Places
    BY <1>1, <2>p, <2>n DEF Places
  <2>3. Conn(s)
    BY <1>1, <2>2 DEF Conn, ConnWith
  <2>4. /\ s.pc = pc /\ s.hdr = r.hdr /\ s.readLock = r.mi /\ s.mi = 0 /\ s.iFrame = n
        /\ s.writeLock = r.writeLock /\ ~s.ckptLock /\ s.excl = r.excl
        /\ s.tx = r.tx /\ s.iReCksum = r.iReCksum /\ s.iFirst = r.iFirst
        /\ s.commit = r.commit /\ s.todo = r.todo /\ s.spilled = r.spilled
    BY <1>1, <1>2 DEF Conn, ConnWith
  <2> HIDE DEF s
  <2>5. Moved(c) /\ conn'[c] = s
    BY <2>1, <2>3, MoveTo
  <2>6. PlaceOK(salts', s)
    BY <1>0, <1>1, <1>2, <2>p, <2>4 DEF PlaceOK, ConnOK
  <2>7. WriterOK(wal', walDisk', Live', s)
    BY <1>0, <1>1, <1>2, <2>p, <2>n, <2>4
       DEF LogSame, ConnOK, WriterOK, Chained, Extent, Intact
  <2>8. ConnOK(c)'
    BY <2>5, <2>6, <2>7, <2>p, <2>4 DEF ConnOK, RestartOK, CkptOK
  <2>9. TakesOK(c) /\ NamesOK(c)
    BY <1>1, <2>p, <2>4, <2>5 DEF TakesOK, NamesOK, Off
  <2> QED BY <1>0, <1>1, <2>5, <2>8, <2>9, QuietStep
<1>4. CASE ~(MayShare(r.mi) /\ aReadMark[r.mi] = r.mv /\ Live = r.hdr)
  <2>p. PICK pc : pc = RetryAt(c)
    OBVIOUS
  <2> DEFINE s == [r EXCEPT !.pc = pc, !.mi = 0, !.mv = 0]
  <2>1. conn' = [conn EXCEPT ![c] = s]
    BY <1>1, <1>4, <2>p, ConnType DEF LockMark
  <2>2. pc \in Places /\ pc = IF r.writeLock THEN "begin" ELSE "idle"
    BY <2>p DEF Places, RetryAt
  <2>3. Conn(s)
    BY <1>1, <2>2 DEF Conn, ConnWith
  <2>4. /\ s.pc = pc /\ s.hdr = r.hdr /\ s.readLock = r.readLock /\ s.mi = 0
        /\ s.writeLock = r.writeLock /\ ~s.ckptLock /\ s.excl = r.excl
        /\ s.tx = r.tx /\ s.iReCksum = r.iReCksum /\ s.iFirst = r.iFirst
        /\ s.commit = r.commit /\ s.todo = r.todo /\ s.spilled = r.spilled
    BY <1>1, <1>2 DEF Conn, ConnWith
  <2> HIDE DEF s
  <2>5. Moved(c) /\ conn'[c] = s
    BY <2>1, <2>3, MoveTo
  <2>6. PlaceOK(salts', s)
    BY <1>0, <1>1, <1>2, <2>2, <2>4 DEF PlaceOK, ConnOK
  <2>7. WriterOK(wal', walDisk', Live', s)
    BY <1>0, <1>1, <1>2, <2>2, <2>4
       DEF LogSame, ConnOK, WriterOK, Chained, Extent, Intact
  <2>8. ConnOK(c)'
    BY <2>5, <2>6, <2>7, <2>2, <2>4 DEF ConnOK, RestartOK, CkptOK
  <2>9. TakesOK(c) /\ NamesOK(c)
    BY <1>1, <2>2, <2>4, <2>5 DEF TakesOK, NamesOK, Off
  <2> QED BY <1>0, <1>1, <2>5, <2>8, <2>9, QuietStep
<1> QED BY <1>3, <1>4

\* A writer holds the live header, or goes back.
LEMMA BeginWriteStep == ASSUME IInv, NEW c \in Procs, BeginWrite(c) PROVE IInv'
<1> PICK r : r = conn[c]
  OBVIOUS
<1>0. LogSame /\ salts' = salts /\ walDisk' = walDisk
  BY Stutters DEF BeginWrite, bounds
<1> DEFINE s == [r EXCEPT !.pc = "write", !.writeLock = TRUE]
<1>1. /\ Conn(r) /\ ConnOK(c) /\ r.pc = "read" /\ ~r.ckptLock /\ ~r.writeLock
      /\ r.hdr = Live /\ WriteLockFree /\ conn' = [conn EXCEPT ![c] = s]
  BY ConnType DEF BeginWrite, ConnOK, PlaceOK
<1>2. /\ r.tx = 0 /\ r.iReCksum = 0 /\ r.mi = 0 /\ r.hdr.salt <= salts
      /\ r.hdr.mxFrame \in Nat
  BY <1>1 DEF ConnOK, PlaceOK, Conn, ConnWith, Hdr
<1>3. Conn(s)
  BY <1>1 DEF Conn, ConnWith, Places
<1>4. /\ s.pc = "write" /\ s.hdr = Live /\ s.readLock = r.readLock /\ s.mi = 0
      /\ s.writeLock /\ ~s.ckptLock /\ s.excl = r.excl /\ s.tx = 0 /\ s.iReCksum = 0
  BY <1>1, <1>2 DEF Conn, ConnWith
<1> HIDE DEF s
<1>5. Moved(c) /\ conn'[c] = s
  BY <1>1, <1>3, MoveTo
<1>6. Live.mxFrame > 0 => Chained(wal, s)
  BY <1>4 DEF IInv, Committed, Chained, Extent, Intact
<1>7. ConnOK(c)'
  <2>1. WriterOK(wal', walDisk', Live', s)
    BY <1>0, <1>1, <1>2, <1>4, <1>6 DEF LogSame, WriterOK, Extent
  <2> QED BY <1>0, <1>1, <1>2, <1>4, <1>5, <2>1 DEF ConnOK, PlaceOK, RestartOK, CkptOK
<1>8. TakesOK(c) /\ NamesOK(c)
  BY <1>1, <1>4, <1>5 DEF TakesOK, NamesOK, Off
<1> QED BY <1>0, <1>1, <1>5, <1>7, <1>8, QuietStep

------------------------------------------------------------------------------
(* Steps that change the log                                               *)

\* Only the holder of the WRITE lock or a connection that is alone does so.
LEMMA OwnerStep ==
  ASSUME IInv, NEW c \in Procs, Moved(c), TakesOK(c), SaltsDiffer', ConnOK(c)',
         BackfillOK', Committed(wal, Live)', DiskOK', SaltsDrawn',
         wal' \in WalFile, walDisk' \in [salt : SUBSET Nat, f : Seq(SUBSET Frame)],
         aHdr' \in [{0, 1} -> Hdr], aReadMark' \in [0..(NReader - 1) -> Nat],
         nBackfill' \in Nat, nextTx' \in Nat \ {0}, salts' \in Nat, salts <= salts',
         UNCHANGED <<wal, walDisk, Live>> \/ conn[c].writeLock \/ OthersOff(c),
         Live' = Live \/ \A d \in Procs \ {c} : conn[d].ckptLock =>
             /\ conn[d].pc = "copy" => conn[d].mxSafe <= Live'.mxFrame
             /\ conn[d].pc # "copy" /\ Live'.salt = conn[d].hdr.salt =>
                    conn[d].hdr.mxFrame <= Live'.mxFrame
  PROVE  IInv'
<1>1. Typed /\ LocksOK /\ CopyAlone /\ Others(c)
  BY DEF IInv, Moved
<1>2. Typed'
  <2>1. \A d \in Procs : Conn(conn'[d])
    BY <1>1 DEF Typed, Moved, Others
  <2> QED BY <2>1 DEF Typed, Moved
<1>3. LocksOK'
  BY <1>1, LocksKept DEF TakesOK
<1>4. CopyAlone'
  BY <1>1, CopyKept DEF TakesOK
<1>5. \A d \in Procs : ConnOK(d)'
  <2> SUFFICES ASSUME NEW d \in Procs \ {c} PROVE ConnOK(d)'
    OBVIOUS
  <2>1. conn'[d] = conn[d]
    BY <1>1 DEF Others
  <2>2. conn[d].writeLock \/ conn[d].pc = "unlinkwal" => UNCHANGED <<wal, walDisk, Live>>
    <3> SUFFICES ASSUME conn[d].writeLock \/ conn[d].pc = "unlinkwal"
                 PROVE  ~conn[c].writeLock /\ ~OthersOff(c)
      OBVIOUS
    <3>1. ConnOK(d) /\ ConnOK(c) /\ ~Closed.writeLock
      BY ConnType DEF Closed, Rest
    <3>2. ~Off(d)
      BY <3>1 DEF ConnOK, PlaceOK, Off
    <3>3. ~OthersOff(c)
      BY <3>2 DEF OthersOff
    <3>4. CASE conn[d].writeLock
      BY <1>1, <3>3, <3>4 DEF LocksOK
    <3>5. CASE conn[d].pc = "unlinkwal"
      <4>1. conn[d].excl
        BY <3>1, <3>5 DEF ConnOK, PlaceOK
      <4>2. conn[c].pc = "off"
        BY <1>1, <4>1 DEF LocksOK, Off
      <4> QED BY <3>1, <3>3, <4>2 DEF ConnOK, PlaceOK
    <3> QED BY <3>4, <3>5
  <2>3. conn[d].pc = "frame1" => conn[d].writeLock
    BY ConnType DEF ConnOK, PlaceOK
  <2> QED BY <2>1, <2>2, <2>3, OtherKept
<1> QED BY <1>2, <1>3, <1>4, <1>5 DEF IInv

\* As long as nBackfill and the header stay, only a restart that ends matters.
LEMMA BackfillKept ==
  ASSUME IInv, NEW c \in Procs, Others(c), conn[c].pc # "rst",
         Live' = Live, nBackfill' = nBackfill
  PROVE  BackfillOK'
<1>1. BackfillOK
  BY DEF IInv
<1>2. ASSUME NEW d \in Procs, conn[d].pc = "rst" PROVE conn'[d].pc = "rst"
  BY <1>2 DEF Others
<1> QED BY <1>1, <1>2 DEF BackfillOK

\* A checkpoint that ends.
LEMMA EndedOK ==
  ASSUME IInv, NEW c \in Procs, conn' = CkptEnded(c), ~Off(c),
         salts' \in Nat, salts <= salts'
  PROVE  Moved(c) /\ ConnOK(c)' /\ TakesOK(c) /\ NamesOK(c)
<1> PICK r : r = conn[c]
  OBVIOUS
<1>h. PICK h : h = Remembered(r)
  OBVIOUS
<1>1. h \in Hdr /\ h.salt <= salts' /\ r.excl \in BOOLEAN
  <2>1. r.hdr \in Hdr /\ r.hdr.salt <= salts /\ r.hdr.salt \in Nat /\ salts \in Nat
        /\ r.excl \in BOOLEAN
    BY ConnType DEF Conn, ConnWith, ConnOK, PlaceOK, Hdr
  <2>2. NoHdr \in Hdr /\ NoHdr.salt = 0
    BY ClosedType DEF NoHdr
  <2> QED BY <1>h, <2>1, <2>2 DEF Remembered
<1>2. CASE ~r.excl
  <2> PICK s : s = Rest("idle", h, r.cache)
    OBVIOUS
  <2>1. conn' = [conn EXCEPT ![c] = s]
    BY <1>h, <1>2 DEF CkptEnded
  <2>2. Conn(s)
    BY <1>1, RestType DEF Places
  <2>3. Moved(c) /\ conn'[c] = s
    BY <2>1, <2>2, MoveTo
  <2>4. /\ s.pc = "idle" /\ s.hdr = h /\ ~s.writeLock /\ ~s.ckptLock /\ ~s.excl
        /\ s.readLock = -1 /\ s.mi = 0 /\ s.tx = 0 /\ s.iReCksum = 0
    BY RestFields
  <2>5. ConnOK(c)'
    BY <1>1, <2>3, <2>4 DEF ConnOK, PlaceOK, WriterOK, RestartOK, CkptOK
  <2>6. TakesOK(c) /\ NamesOK(c)
    BY <2>3, <2>4 DEF TakesOK, NamesOK, Off
  <2> QED BY <2>3, <2>5, <2>6
<1>3. CASE r.excl
  <2> PICK q : q = Rest("unlink", h, NoCache)
    OBVIOUS
  <2> DEFINE s == [q EXCEPT !.excl = TRUE]
  <2>1. conn' = [conn EXCEPT ![c] = s]
    BY <1>h, <1>3 DEF CkptEnded
  <2>2. Conn(q)
    BY <1>1, RestType DEF Places
  <2>3. Conn(s)
    BY <2>2 DEF Conn, ConnWith
  <2>4. /\ q.pc = "unlink" /\ q.hdr = h /\ ~q.writeLock /\ ~q.ckptLock
        /\ q.readLock = -1 /\ q.mi = 0 /\ q.tx = 0 /\ q.iReCksum = 0
    BY RestFields
  <2>5. /\ s.pc = "unlink" /\ s.hdr = h /\ ~s.writeLock /\ ~s.ckptLock /\ s.excl
        /\ s.readLock = -1 /\ s.mi = 0 /\ s.tx = 0 /\ s.iReCksum = 0
    BY <2>2, <2>4 DEF Conn, ConnWith
  <2> HIDE DEF s
  <2>6. Moved(c) /\ conn'[c] = s
    BY <2>1, <2>3, MoveTo
  <2>7. ConnOK(c)'
    BY <1>1, <2>5, <2>6 DEF ConnOK, PlaceOK, WriterOK, RestartOK, CkptOK
  <2>8. TakesOK(c) /\ NamesOK(c)
    BY <1>3, <2>5, <2>6 DEF TakesOK, NamesOK, Off
  <2> QED BY <2>6, <2>7, <2>8
<1> QED BY <1>1, <1>2, <1>3

\* A checkpoint that has copied what it could.
LEMMA CopiedOK ==
  ASSUME IInv, NEW c \in Procs, conn' = CkptCopied(c),
         conn[c].pc \in {"ckpt", "ckstart", "copy"}, salts' \in Nat, salts <= salts'
  PROVE  Moved(c) /\ ConnOK(c)' /\ TakesOK(c) /\ NamesOK(c)
<1> PICK r : r = conn[c]
  OBVIOUS
<1>1. CASE r.mode = "TRUNCATE"
  <2> DEFINE s == [r EXCEPT !.pc = "ckend"]
  <2>1. conn' = [conn EXCEPT ![c] = s] /\ Conn(r) /\ ConnOK(c) /\ salts \in Nat
        /\ r.pc \in {"ckpt", "ckstart", "copy"}
    BY <1>1, ConnType DEF CkptCopied
  <2>2. Conn(s)
    BY <2>1 DEF Conn, ConnWith, Places
  <2>3. /\ r.writeLock /\ r.ckptLock /\ r.mi = 0 /\ r.tx = 0 /\ r.iReCksum = 0
        /\ r.hdr.salt <= salts'
    <3>1. r.hdr.salt <= salts /\ r.hdr.salt \in Nat
      BY <2>1 DEF Conn, ConnWith, ConnOK, PlaceOK, Hdr
    <3> QED BY <1>1, <2>1, <3>1 DEF ConnOK, PlaceOK
  <2>4. /\ s.pc = "ckend" /\ s.hdr = r.hdr /\ s.writeLock /\ s.ckptLock
        /\ s.readLock = r.readLock /\ s.excl = r.excl
        /\ s.mi = 0 /\ s.tx = 0 /\ s.iReCksum = 0
    BY <2>1, <2>3 DEF Conn, ConnWith
  <2> HIDE DEF s
  <2>5. Moved(c) /\ conn'[c] = s
    BY <2>1, <2>2, MoveTo
  <2>6. ConnOK(c)'
    BY <2>3, <2>4, <2>5 DEF ConnOK, PlaceOK, WriterOK, RestartOK, CkptOK
  <2>7. TakesOK(c) /\ NamesOK(c)
    BY <2>1, <2>3, <2>4, <2>5 DEF TakesOK, NamesOK, Off
  <2> QED BY <2>5, <2>6, <2>7
<1>2. CASE r.mode # "TRUNCATE"
  <2>1. conn' = CkptEnded(c) /\ ~Off(c)
    BY <1>2 DEF CkptCopied, Off
  <2> QED BY <2>1, EndedOK
<1> QED BY <1>1, <1>2

\* The last connection deletes the WAL file, which the wal-index knows to be empty.
LEMMA UnlinkWalStep == ASSUME IInv, NEW c \in Procs, UnlinkWal(c) PROVE IInv'
<1>1. /\ conn[c].pc = "unlinkwal" /\ wal' = NoWal /\ conn' = [conn EXCEPT ![c] = Closed]
      /\ walDisk' = walDisk /\ aHdr' = aHdr /\ nBackfill' = nBackfill
      /\ aReadMark' = aReadMark /\ salts' = salts /\ nextTx' = nextTx
  BY DEF UnlinkWal, index, bounds
<1>2. Live.mxFrame = 0 /\ conn[c].excl /\ Live' = Live
  BY <1>1, ConnType DEF ConnOK, RestartOK, PlaceOK, Live
<1>3. OthersOff(c)
  BY <1>2 DEF OthersOff, IInv, LocksOK
<1>4. Moved(c) /\ conn'[c] = Closed /\ Others(c)
  BY <1>1, MoveTo, ClosedType
<1>5. /\ Closed.pc = "off" /\ ~Closed.writeLock /\ ~Closed.ckptLock /\ ~Closed.excl
      /\ Closed.readLock = -1 /\ Closed.hdr.salt = 0 /\ Closed.mi = 0 /\ Closed.tx = 0
      /\ Closed.iReCksum = 0
  BY DEF Closed, Rest, NoHdr
<1>6. salts \in Nat /\ 0 <= salts
  BY ConnType
<1>7. ConnOK(c)'
  BY <1>1, <1>4, <1>5, <1>6 DEF ConnOK, PlaceOK, WriterOK, RestartOK, CkptOK
<1>8. TakesOK(c) /\ NamesOK(c)
  BY <1>4, <1>5 DEF TakesOK, NamesOK, Off
<1>9. SaltsDiffer' /\ BackfillOK'
  BY <1>1, <1>2, <1>4, <1>8, SaltsKept, BackfillKept DEF IInv, NamesOK
<1>10. Committed(wal, Live)' /\ DiskOK' /\ SaltsDrawn'
  <2>1. SaltsDrawn
    BY DEF IInv
  <2> QED BY <1>1, <1>2, <1>6, <2>1, NoWalType DEF Committed, DiskOK, SaltsDrawn
<1>11. /\ wal' \in WalFile /\ walDisk' \in [salt : SUBSET Nat, f : Seq(SUBSET Frame)]
       /\ aHdr' \in [{0, 1} -> Hdr] /\ aReadMark' \in [0..(NReader - 1) -> Nat]
       /\ nBackfill' \in Nat /\ nextTx' \in Nat \ {0} /\ salts' \in Nat /\ salts <= salts'
  BY <1>1, <1>6, NoWalType DEF IInv, Typed
<1> QED BY <1>2, <1>3, <1>4, <1>7, <1>8, <1>9, <1>10, <1>11, OwnerStep

\* A TRUNCATE checkpoint empties the file after the header says that it is empty.
LEMMA CkptTruncateStep == ASSUME IInv, NEW c \in Procs, CkptTruncate(c) PROVE IInv'
<1>1. /\ conn[c].pc = "trunc" /\ wal' = NoWal /\ conn' = CkptEnded(c)
      /\ walDisk' = walDisk /\ aHdr' = aHdr /\ nBackfill' = nBackfill
      /\ aReadMark' = aReadMark /\ salts' = salts /\ nextTx' = nextTx
  BY DEF CkptTruncate, index, bounds
<1>2. Live.mxFrame = 0 /\ conn[c].writeLock /\ Live' = Live
  BY <1>1, ConnType DEF ConnOK, RestartOK, PlaceOK, Live
<1>3. salts \in Nat /\ 0 <= salts /\ salts <= salts' /\ salts' \in Nat
  BY <1>1, ConnType
<1>4. Moved(c) /\ ConnOK(c)' /\ TakesOK(c) /\ NamesOK(c) /\ Others(c)
  BY <1>1, <1>3, EndedOK DEF Off, Moved
<1>5. SaltsDiffer' /\ BackfillOK'
  BY <1>1, <1>2, <1>4, SaltsKept, BackfillKept DEF IInv, NamesOK
<1>6. Committed(wal, Live)' /\ DiskOK' /\ SaltsDrawn'
  <2>1. SaltsDrawn
    BY DEF IInv
  <2> QED BY <1>1, <1>2, <1>3, <2>1, NoWalType DEF Committed, DiskOK, SaltsDrawn
<1>7. /\ wal' \in WalFile /\ walDisk' \in [salt : SUBSET Nat, f : Seq(SUBSET Frame)]
      /\ aHdr' \in [{0, 1} -> Hdr] /\ aReadMark' \in [0..(NReader - 1) -> Nat]
      /\ nBackfill' \in Nat /\ nextTx' \in Nat \ {0}
  BY <1>1, NoWalType DEF IInv, Typed
<1> QED BY <1>2, <1>3, <1>4, <1>5, <1>6, <1>7, OwnerStep

------------------------------------------------------------------------------
(* Checkpoints                                                             *)

\* A checkpoint begins with the CKPT lock and the live header.
LEMMA CkptBeginStep ==
  ASSUME IInv, NEW c \in Procs, NEW m \in Modes, NEW closing \in BOOLEAN, CkptBegin(c, m, closing)
  PROVE  IInv'
<1> PICK r : r = conn[c]
  OBVIOUS
<1>b. PICK both \in BOOLEAN : both = (m # "PASSIVE" /\ WriteLockFree)
  OBVIOUS
<1>m. PICK md : md = IF both THEN m ELSE "PASSIVE"
  OBVIOUS
<1>n. PICK ch \in BOOLEAN : ch = (r.hdr # Live)
  OBVIOUS
<1> DEFINE s == [r EXCEPT !.pc = "ckpt", !.ckptLock = TRUE, !.writeLock = both, !.mode = md,
                          !.changed = ch, !.hdr = Live, !.excl = closing]
<1>0. LogSame /\ salts' = salts
  BY Stutters DEF CkptBegin, bounds
<1>1. Conn(r) /\ ConnOK(c) /\ Live \in Hdr /\ r.pc = "idle" /\ Live.salt <= salts
  BY ConnType DEF CkptBegin, IInv, SaltsDrawn
<1>2. conn' = [conn EXCEPT ![c] = s] /\ CkptLockFree /\ (closing => OthersOff(c))
  BY <1>b, <1>m, <1>n, ConnType DEF CkptBegin
<1>3. Conn(s)
  <2>1. PICK h \in Hdr : h = Live
    BY <1>1
  <2> DEFINE q == [r EXCEPT !.pc = "ckpt", !.ckptLock = TRUE, !.hdr = h, !.mode = md]
             x == [q EXCEPT !.writeLock = both]
             y == [x EXCEPT !.changed = ch]
             z == [y EXCEPT !.excl = closing]
  <2>2. s = z
    BY <1>1, <2>1 DEF Conn, ConnWith
  <2>3. Conn(r)
    BY <1>1
  <2>4. Conn(q)
    BY <2>3 DEF Conn, ConnWith, Places
  <2> HIDE DEF s, q
  <2>5. Conn(x)
    BY <2>4 DEF Conn, ConnWith
  <2> HIDE DEF x
  <2>6. Conn(y)
    BY <2>5 DEF Conn, ConnWith
  <2> HIDE DEF y
  <2>7. Conn(z)
    BY <2>6 DEF Conn, ConnWith
  <2> QED BY <2>2, <2>7
<1>4. /\ s.pc = "ckpt" /\ s.hdr = Live /\ s.writeLock = both /\ s.ckptLock /\ s.mode = md
      /\ s.excl = closing /\ s.readLock = r.readLock
      /\ s.tx = 0 /\ s.iReCksum = 0 /\ s.mi = 0
  BY <1>1 DEF Conn, ConnWith, ConnOK, PlaceOK
<1>5. (md = "TRUNCATE" => both) /\ (both => WriteLockFree) /\ Live.mxFrame \in Nat
  BY <1>b, <1>m, ConnType DEF Hdr
<1> HIDE DEF s
<1>6. Moved(c) /\ conn'[c] = s
  BY <1>2, <1>3, MoveTo
<1>7. ConnOK(c)'
  BY <1>0, <1>1, <1>4, <1>5, <1>6 DEF LogSame, ConnOK, PlaceOK, WriterOK, RestartOK, CkptOK
<1>8. TakesOK(c) /\ NamesOK(c)
  BY <1>1, <1>2, <1>4, <1>5, <1>6 DEF TakesOK, NamesOK, Off
<1> QED BY <1>0, <1>1, <1>6, <1>7, <1>8, QuietStep

\* A checkpoint that finds nothing left to copy.
LEMMA CkptNothingStep == ASSUME IInv, NEW c \in Procs, CkptNothing(c) PROVE IInv'
<1>1. LogSame /\ salts' = salts /\ salts \in Nat
  BY Stutters, ConnType DEF CkptNothing, bounds
<1>2. conn' = CkptCopied(c) /\ conn[c].pc = "ckpt" /\ salts' \in Nat /\ salts <= salts'
  BY <1>1 DEF CkptNothing
<1> QED BY <1>1, <1>2, CopiedOK, QuietStep

\* The end of a checkpoint that may not truncate.
LEMMA CkptEndStep == ASSUME IInv, NEW c \in Procs, CkptEnd(c) PROVE IInv'
<1>1. LogSame /\ salts' = salts /\ salts \in Nat
  BY Stutters, ConnType DEF CkptEnd, bounds
<1>2. conn' = CkptEnded(c) /\ conn[c].pc = "ckend" /\ salts' \in Nat /\ salts <= salts'
  BY <1>1 DEF CkptEnd
<1> QED BY <1>1, <1>2, EndedOK, QuietStep DEF Off

\* An interrupted copy: nBackfill stays behind what has been copied.
LEMMA CkptInterruptStep == ASSUME IInv, NEW c \in Procs, CkptInterrupt(c) PROVE IInv'
<1>1. LogSame /\ salts' = salts /\ salts \in Nat
  BY Stutters, ConnType DEF CkptInterrupt
<1>2. conn[c].pc = "copy" /\ salts' \in Nat /\ salts <= salts'
  BY <1>1 DEF CkptInterrupt
<1>3. CASE conn[c].excl
  BY <1>1, <1>2, <1>3, ClosedStep DEF CkptInterrupt
<1>4. CASE ~conn[c].excl
  <2>1. conn' = CkptEnded(c)
    BY <1>4 DEF CkptInterrupt
  <2> QED BY <1>1, <1>2, <2>1, EndedOK, QuietStep DEF Off
<1> QED BY <1>3, <1>4

\* One mark after the other; the checkpoint stops at the lowest that is in use.
LEMMA CkptMarkStep == ASSUME IInv, NEW c \in Procs, CkptMark(c) PROVE IInv'
<1> PICK r : r = conn[c]
  OBVIOUS
<1>i. PICK i : i = r.mi + 1
  OBVIOUS
<1>a. PICK safe : safe = IF i = 1 THEN r.hdr.mxFrame ELSE r.mxSafe
  OBVIOUS
<1>u. PICK used \in BOOLEAN : used = (safe > aReadMark[i] /\ ~MayExclude(i))
  OBVIOUS
<1>x. PICK mx : mx = IF used THEN aReadMark[i] ELSE safe
  OBVIOUS
<1>m. PICK m : m = IF i = NReader - 1 THEN 0 ELSE i
  OBVIOUS
<1>p. PICK pc : pc = IF i = NReader - 1 THEN "ckstart" ELSE "ckmark"
  OBVIOUS
<1> DEFINE s == [r EXCEPT !.mxSafe = mx, !.mi = m, !.pc = pc]
<1>1. Conn(r) /\ ConnOK(c) /\ r.pc \in {"ckpt", "ckmark"}
  BY ConnType DEF CkptMark
<1>2. /\ r.ckptLock /\ (r.mode = "TRUNCATE" => r.writeLock) /\ r.tx = 0 /\ r.iReCksum = 0
      /\ r.hdr.salt <= salts
      /\ r.pc = "ckpt" => r.mi = 0
      /\ r.pc = "ckmark" => r.mi < NReader - 1 /\ r.mxSafe <= r.hdr.mxFrame
  BY <1>1 DEF ConnOK, PlaceOK, CkptOK
<1>3. r.mi \in Nat /\ r.mxSafe \in Nat /\ r.hdr.mxFrame \in Nat /\ NReader \in Nat /\ NReader >= 2
  BY <1>1, NReaderAssumption DEF Conn, ConnWith, Hdr
<1>4. i \in 1..(NReader - 1) /\ i \in Nat /\ aReadMark[i] \in Nat
  <2>1. i \in 1..(NReader - 1)
    BY <1>i, <1>1, <1>2, <1>3
  <2> QED BY <1>3, <2>1, ConnType
<1>5. safe \in Nat /\ safe <= r.hdr.mxFrame
  BY <1>i, <1>a, <1>1, <1>2, <1>3
<1>6. mx \in Nat /\ mx <= r.hdr.mxFrame
  <2>1. CASE used
    <3>1. mx = aReadMark[i] /\ safe > aReadMark[i]
      BY <1>u, <1>x, <2>1
    <3>2. aReadMark[i] \in Nat /\ r.hdr.mxFrame \in Nat
      BY <1>3, <1>4
    <3> QED BY <1>5, <3>1, <3>2
  <2>2. CASE ~used
    BY <1>5, <1>x, <2>2
  <2> QED BY <2>1, <2>2
<1>7. /\ m \in Nat /\ pc \in Places /\ pc \in {"ckstart", "ckmark"}
      /\ m # 0 => pc = "ckmark"
      /\ pc = "ckmark" => m < NReader - 1
  BY <1>3, <1>4, <1>m, <1>p DEF Places
<1>8. conn' = [conn EXCEPT ![c] = s]
  <2>1. conn' = [conn EXCEPT ![c].mxSafe = mx, ![c].mi = m, ![c].pc = pc]
    BY <1>i, <1>a, <1>u, <1>x, <1>m, <1>p, Zenon DEF CkptMark
  <2> QED BY <2>1, ConnType
<1>9. LogSame /\ salts' = salts
  <2>1. UNCHANGED <<wal, walDisk, aHdr, nBackfill, nextTx, salts>>
    BY DEF CkptMark, bounds, files
  <2>2. aReadMark' \in [0..(NReader - 1) -> Nat]
    <3>1. aReadMark' = aReadMark \/ aReadMark' = [aReadMark EXCEPT ![i] = safe]
          \/ aReadMark' = [aReadMark EXCEPT ![i] = NOT_USED]
      BY <1>i, <1>a DEF CkptMark
    <3>2. NOT_USED \in Nat
      BY MaxFrameAssumption DEF NOT_USED
    <3> QED BY <1>5, <3>1, <3>2, ConnType
  <2> QED BY <2>1, <2>2, ConnType DEF LogSame, Live, IInv, Typed
<1>10. Conn(s)
  BY <1>1, <1>6, <1>7 DEF Conn, ConnWith
<1>11. /\ s.pc = pc /\ s.hdr = r.hdr /\ s.mxSafe = mx /\ s.mi = m
       /\ s.writeLock = r.writeLock /\ s.ckptLock /\ s.mode = r.mode /\ s.excl = r.excl
       /\ s.readLock = r.readLock /\ s.tx = 0 /\ s.iReCksum = 0
  BY <1>1, <1>2 DEF Conn, ConnWith
<1> HIDE DEF s
<1>12. Moved(c) /\ conn'[c] = s
  BY <1>8, <1>10, MoveTo
<1>13. PlaceOK(salts', s) /\ WriterOK(wal', walDisk', Live', s) /\ RestartOK(Live', s)
  BY <1>2, <1>7, <1>9, <1>11 DEF PlaceOK, WriterOK, RestartOK
<1>14. CkptOK(wal', Live', s)
  <2>1. Live.salt = r.hdr.salt => r.hdr.mxFrame <= Live.mxFrame
    BY <1>1 DEF ConnOK, CkptOK
  <2> QED BY <1>6, <1>7, <1>9, <1>11, <2>1 DEF LogSame, CkptOK
<1>15. ConnOK(c)'
  BY <1>12, <1>13, <1>14 DEF ConnOK
<1>16. TakesOK(c) /\ NamesOK(c)
  BY <1>1, <1>2, <1>7, <1>11, <1>12 DEF TakesOK, NamesOK, Off
<1> QED BY <1>1, <1>9, <1>12, <1>15, <1>16, QuietStep

\* The log is the one whose header was read: it reaches as far as it did then.
LEMMA CkptStartStep == ASSUME IInv, NEW c \in Procs, CkptStart(c) PROVE IInv'
<1> PICK r : r = conn[c]
  OBVIOUS
<1>1. Conn(r) /\ ConnOK(c) /\ r.pc = "ckstart"
  BY ConnType DEF CkptStart
<1>2. UNCHANGED <<wal, aHdr, nBackfill, aReadMark, nextTx, salts>>
  BY DEF CkptStart, index, bounds
<1>3. LogSame \/ ~(walDisk' = walDisk \/ walDisk' = SyncedWal(wal))
  BY <1>2, ConnType DEF LogSame, Live
<1>4. CASE nBackfill < r.mxSafe /\ MayExclude(0) /\ SameLog(c)
  <2>t. PICK t : t = ToCopy(c)
    OBVIOUS
  <2> DEFINE s == [r EXCEPT !.pc = "copy", !.todo = t]
  <2>1. conn' = [conn EXCEPT ![c] = s] /\ walDisk' = SyncedWal(wal)
    BY <1>4, <2>t, ConnType DEF CkptStart
  <2>2. t \in SUBSET Pages
    BY <2>t DEF ToCopy
  <2>3. Conn(s)
    BY <1>1, <2>2 DEF Conn, ConnWith, Places
  <2>4. /\ r.ckptLock /\ (r.mode = "TRUNCATE" => r.writeLock) /\ r.tx = 0 /\ r.iReCksum = 0
        /\ r.mi = 0 /\ r.hdr.salt <= salts
    BY <1>1 DEF ConnOK, PlaceOK
  <2>5. /\ s.pc = "copy" /\ s.hdr = r.hdr /\ s.mxSafe = r.mxSafe /\ s.mi = 0
        /\ s.writeLock = r.writeLock /\ s.ckptLock /\ s.mode = r.mode /\ s.excl = r.excl
        /\ s.readLock = r.readLock /\ s.tx = 0 /\ s.iReCksum = 0
    BY <1>1, <2>4 DEF Conn, ConnWith
  <2> HIDE DEF s
  <2>6. Moved(c) /\ conn'[c] = s
    BY <2>1, <2>3, MoveTo
  <2>7. r.mxSafe <= Live.mxFrame
    <3>1. r.mxSafe <= r.hdr.mxFrame /\ r.hdr.mxFrame <= Live.mxFrame
      BY <1>1, <1>4 DEF SameLog, ConnOK, CkptOK
    <3>2. r.mxSafe \in Nat /\ r.hdr.mxFrame \in Nat /\ Live.mxFrame \in Nat
      BY <1>1, ConnType DEF Conn, ConnWith, Hdr
    <3> QED BY <3>1, <3>2
  <2>8. \A d \in Procs : conn[d].readLock # 0
    BY <1>4 DEF MayExclude, SharedOn
  <2>9. r.readLock # 0
    BY <2>8
  <2>10. ConnOK(c)'
    BY <1>2, <2>4, <2>5, <2>6, <2>7 DEF Live, ConnOK, PlaceOK, WriterOK, RestartOK, CkptOK
  <2>11. TakesOK(c)
    BY <1>1, <2>4, <2>5, <2>6, <2>8, <2>9 DEF TakesOK, Off
  <2>12. NamesOK(c)
    BY <2>4, <2>5, <2>6 DEF NamesOK
  <2> QED BY <1>1, <1>3, <2>1, <2>6, <2>10, <2>11, <2>12, QuietStep
<1>5. CASE ~(nBackfill < r.mxSafe /\ MayExclude(0) /\ SameLog(c))
  <2>1. conn' = CkptCopied(c) /\ walDisk' = walDisk
    BY <1>5 DEF CkptStart
  <2>2. salts' \in Nat /\ salts <= salts'
    BY <1>2, ConnType
  <2> QED BY <1>1, <1>3, <2>1, <2>2, CopiedOK, QuietStep
<1> QED BY <1>4, <1>5

\* Copying a page changes the database file only.
LEMMA CkptCopyStep == ASSUME IInv, NEW c \in Procs, CkptCopy(c) PROVE IInv'
<1> PICK r : r = conn[c]
  OBVIOUS
<1>t. PICK t : t = r.todo \ {Min(r.todo)}
  OBVIOUS
<1> DEFINE s == [r EXCEPT !.todo = t]
<1>1. Conn(r) /\ ConnOK(c) /\ r.pc = "copy"
  BY ConnType DEF CkptCopy
<1>2. LogSame /\ salts' = salts
  <2>1. UNCHANGED <<wal, walDisk, aHdr, nBackfill, aReadMark, nextTx, salts>>
    BY DEF CkptCopy, index, bounds
  <2> QED BY <2>1, ConnType DEF LogSame, Live, IInv, Typed
<1>3. conn' = [conn EXCEPT ![c] = s]
  BY <1>t, ConnType DEF CkptCopy
<1>4. t \in SUBSET Pages
  BY <1>t, <1>1 DEF Conn, ConnWith
<1>5. Conn(s)
  BY <1>1, <1>4 DEF Conn, ConnWith
<1>6. /\ r.ckptLock /\ (r.mode = "TRUNCATE" => r.writeLock) /\ r.tx = 0 /\ r.iReCksum = 0
      /\ r.mi = 0 /\ r.hdr.salt <= salts /\ r.mxSafe <= Live.mxFrame /\ r.readLock # 0
  BY <1>1 DEF ConnOK, PlaceOK, CkptOK, IInv, CopyAlone
<1>7. /\ s.pc = "copy" /\ s.hdr = r.hdr /\ s.mxSafe = r.mxSafe /\ s.mi = 0
      /\ s.writeLock = r.writeLock /\ s.ckptLock /\ s.mode = r.mode /\ s.excl = r.excl
      /\ s.readLock = r.readLock /\ s.tx = 0 /\ s.iReCksum = 0
  BY <1>1, <1>6 DEF Conn, ConnWith
<1> HIDE DEF s
<1>8. Moved(c) /\ conn'[c] = s
  BY <1>3, <1>5, MoveTo
<1>9. ConnOK(c)'
  BY <1>2, <1>6, <1>7, <1>8 DEF LogSame, ConnOK, PlaceOK, WriterOK, RestartOK, CkptOK
<1>10. TakesOK(c) /\ NamesOK(c)
  BY <1>1, <1>6, <1>7, <1>8 DEF TakesOK, NamesOK, Off
<1> QED BY <1>1, <1>2, <1>8, <1>9, <1>10, QuietStep

\* A checkpointer sets nBackfill no further than the log reaches now.
LEMMA CkptDoneStep == ASSUME IInv, NEW c \in Procs, CkptDone(c) PROVE IInv'
<1>1. /\ conn[c].pc = "copy" /\ conn' = CkptCopied(c) /\ nBackfill' = conn[c].mxSafe
      /\ UNCHANGED <<wal, walDisk, aHdr, aReadMark, nextTx, salts>>
  BY DEF CkptDone, bounds
<1>2. Conn(conn[c]) /\ ConnOK(c) /\ salts \in Nat
  BY ConnType
<1>3. conn[c].mxSafe \in Nat /\ conn[c].mxSafe <= Live.mxFrame
  BY <1>1, <1>2 DEF Conn, ConnWith, ConnOK, CkptOK
<1>4. Live' = Live /\ salts' \in Nat /\ salts <= salts'
  BY <1>1, <1>2 DEF Live
<1>5. Moved(c) /\ ConnOK(c)' /\ TakesOK(c) /\ NamesOK(c) /\ Others(c)
  BY <1>1, <1>4, CopiedOK DEF Moved
<1>6. SaltsDiffer' /\ BackfillOK'
  BY <1>1, <1>3, <1>4, <1>5, SaltsKept DEF IInv, NamesOK, BackfillOK
<1>7. Committed(wal, Live)' /\ DiskOK' /\ SaltsDrawn'
  BY <1>1, <1>4 DEF IInv, DiskOK, SaltsDrawn
<1>8. /\ wal' \in WalFile /\ walDisk' \in [salt : SUBSET Nat, f : Seq(SUBSET Frame)]
      /\ aHdr' \in [{0, 1} -> Hdr] /\ aReadMark' \in [0..(NReader - 1) -> Nat]
      /\ nBackfill' \in Nat /\ nextTx' \in Nat \ {0}
  BY <1>1, <1>3 DEF IInv, Typed
<1> QED BY <1>1, <1>4, <1>5, <1>6, <1>7, <1>8, OwnerStep

\* New salts are those of nobody.
LEMMA NewSalts ==
  ASSUME IInv
  PROVE  /\ salts + 1 \in Nat /\ salts <= salts + 1 /\ Live.salt # salts + 1
         /\ \A d \in Procs : conn[d].hdr.salt # salts + 1
<1>1. salts \in Nat /\ Live.salt \in Nat /\ Live.salt <= salts
  <2>1. salts \in Nat /\ Live \in Hdr
    BY DEF IInv, Typed, Live
  <2>2. Live.salt <= salts
    BY DEF IInv, SaltsDrawn
  <2> QED BY <2>1, <2>2 DEF Hdr
<1>2. ASSUME NEW d \in Procs PROVE conn[d].hdr.salt # salts + 1
  <2>1. conn[d].hdr.salt \in Nat /\ conn[d].hdr.salt <= salts
    BY ConnType DEF Conn, ConnWith, Hdr, ConnOK, PlaceOK
  <2> QED BY <1>1, <2>1
<1> QED BY <1>1, <1>2

\* The header that a restart writes: no frames, salts never drawn before.
LEMMA RestartedType ==
  ASSUME IInv, NEW c \in Procs, NEW h, h = RestartedHdr(c)
  PROVE  h \in Hdr /\ h.mxFrame = 0 /\ h.salt = salts + 1
<1>1. conn[c].hdr \in Hdr /\ salts + 1 \in Nat
  BY ConnType DEF Conn, ConnWith
<1> QED BY <1>1 DEF RestartedHdr, Hdr

\* A TRUNCATE checkpoint restarts the log under the WRITE lock.
LEMMA CkptRestartStep == ASSUME IInv, NEW c \in Procs, CkptRestart(c) PROVE IInv'
<1> PICK r : r = conn[c]
  OBVIOUS
<1>h. PICK h : h = RestartedHdr(c)
  OBVIOUS
<1> DEFINE s == [r EXCEPT !.pc = "rst0", !.hdr = h]
<1>1. Conn(r) /\ ConnOK(c) /\ r.pc = "ckend"
  BY ConnType DEF CkptRestart
<1>2. h \in Hdr /\ h.mxFrame = 0 /\ h.salt = salts + 1
  BY <1>h, RestartedType
<1>3. conn' = [conn EXCEPT ![c] = s] /\ salts' = salts + 1 /\ aHdr' = [aHdr EXCEPT ![1] = h]
  BY <1>h, ConnType DEF CkptRestart, NewSalt
<1>4. LogSame
  <2>1. UNCHANGED <<wal, walDisk, nBackfill, aReadMark, nextTx>>
    BY DEF CkptRestart, files
  <2>2. aHdr' \in [{0, 1} -> Hdr] /\ Live' = Live
    BY <1>2, <1>3, ConnType DEF Live
  <2> QED BY <1>3, <2>1, <2>2, ConnType, NewSalts DEF LogSame
<1>5. Conn(s)
  BY <1>1, <1>2 DEF Conn, ConnWith, Places
<1>6. r.writeLock /\ r.ckptLock /\ r.tx = 0 /\ r.iReCksum = 0 /\ r.mi = 0
  BY <1>1 DEF ConnOK, PlaceOK
<1>7. /\ s.pc = "rst0" /\ s.hdr = h /\ s.mi = 0
      /\ s.writeLock /\ s.ckptLock /\ s.excl = r.excl
      /\ s.readLock = r.readLock /\ s.tx = 0 /\ s.iReCksum = 0
  BY <1>1, <1>6 DEF Conn, ConnWith
<1> HIDE DEF s
<1>8. Moved(c) /\ conn'[c] = s
  BY <1>3, <1>5, MoveTo
<1>9. ConnOK(c)'
  <2>1. h.salt <= salts' /\ h.salt # Live.salt /\ Live' = Live
    BY <1>2, <1>3, <1>4, NewSalts DEF LogSame
  <2> QED BY <1>2, <1>7, <1>8, <2>1 DEF ConnOK, PlaceOK, WriterOK, RestartOK, CkptOK
<1>10. TakesOK(c)
  BY <1>1, <1>6, <1>7, <1>8 DEF TakesOK, Off
<1>11. NamesOK(c)
  <2>1. \A d \in Procs : conn[d].hdr.salt # h.salt
    BY <1>2, NewSalts
  <2>2. \A d \in Procs \ {c} : ~conn[d].writeLock
    BY <1>6 DEF IInv, LocksOK
  <2> QED BY <1>7, <1>8, <2>1, <2>2 DEF NamesOK
<1> QED BY <1>1, <1>4, <1>8, <1>9, <1>10, <1>11, QuietStep

------------------------------------------------------------------------------
(* Recovery                                                                *)

\* With both locks free nobody else names a log or looks at one.
LEMMA RecoverFramesStep ==
  ASSUME IInv, NEW c \in Procs, NEW why, RecoverFrames(c, why)
  PROVE  IInv'
<1> PICK r : r = conn[c]
  OBVIOUS
<1>h. PICK h : h = [isInit |-> TRUE, iChange |-> 0, mxFrame |-> LastCommit(wal),
                    salt |-> IF wal.f = <<>> THEN 0 ELSE wal.salt,
                    cksum |-> IF LastCommit(wal) = 0 THEN <<>> ELSE wal.f[LastCommit(wal)].cksum]
  OBVIOUS
<1>y. PICK y : y = IF why = "begin" THEN NoCache ELSE r.cache
  OBVIOUS
<1>e. PICK e \in BOOLEAN : e = (why = "close")
  OBVIOUS
<1>q. PICK q : q = Rest("rec0", h, y)
  OBVIOUS
<1> DEFINE x == [q EXCEPT !.writeLock = TRUE, !.ckptLock = TRUE, !.changed = TRUE, !.mode = why]
           s == [x EXCEPT !.excl = e]
<1>1. /\ r.pc = "idle" /\ WriteLockFree /\ CkptLockFree /\ (e => OthersOff(c))
      /\ aHdr' = [aHdr EXCEPT ![1] = h]
      /\ UNCHANGED <<wal, walDisk, nBackfill, aReadMark, nextTx, salts>>
  BY <1>h, <1>e DEF RecoverFrames, files, bounds
<1>2. /\ Conn(r) /\ ConnOK(c) /\ salts \in Nat /\ wal \in WalFile /\ Live \in Hdr
      /\ Committed(wal, Live) /\ wal.salt <= salts
  BY DEF IInv, Typed, SaltsDrawn, Live
<1>3. /\ LastCommit(wal) \in 0..Len(wal.f) /\ Len(wal.f) \in Nat
      /\ wal.salt \in Nat /\ wal.f \in Seq(Frame)
  BY <1>2, LastCommitOK DEF WalFile
<1>4. h \in Hdr
  <2>1. PICK k \in Seq(Bodies) : k = IF LastCommit(wal) = 0 THEN <<>>
                                     ELSE wal.f[LastCommit(wal)].cksum
    <3>1. CASE LastCommit(wal) = 0
      <4>1. <<>> \in Seq(Bodies)
        OBVIOUS
      <4> QED BY <3>1, <4>1, Zenon
    <3>2. CASE LastCommit(wal) # 0
      <4>1. LastCommit(wal) \in 1..Len(wal.f)
        BY <1>3, <3>2
      <4>2. wal.f[LastCommit(wal)] \in Frame
        BY <1>2, <4>1, FrameOf
      <4> QED BY <3>2, <4>2 DEF Frame
    <3> QED BY <3>1, <3>2
  <2>2. PICK mx \in Nat : mx = LastCommit(wal)
    BY <1>3
  <2>3. PICK sa \in Nat : sa = IF wal.f = <<>> THEN 0 ELSE wal.salt
    BY <1>3
  <2>4. h = [isInit |-> TRUE, iChange |-> 0, mxFrame |-> mx, salt |-> sa, cksum |-> k]
    BY <1>h, <2>1, <2>2, <2>3
  <2> QED BY <2>4 DEF Hdr
<1>5. /\ h.mxFrame = LastCommit(wal) /\ h.salt \in {0, wal.salt} /\ h.salt <= salts
      /\ (h.mxFrame > 0 => h.salt = wal.salt /\ h.cksum = wal.f[h.mxFrame].cksum)
  <2>1. wal.f = <<>> => LastCommit(wal) = 0
    BY <1>3
  <2> QED BY <1>h, <1>2, <1>3, <2>1
<1>6. Committed(wal, h) /\ Live.mxFrame <= h.mxFrame
  BY <1>2, <1>4, <1>5, RecoveredHdr, RecoversLog
<1>7. conn' = [conn EXCEPT ![c] = s]
  <2>1. s = [q EXCEPT !.writeLock = TRUE, !.ckptLock = TRUE, !.changed = TRUE,
                      !.mode = why, !.excl = (why = "close")]
    BY <1>e
  <2> HIDE DEF s
  <2> QED BY <1>h, <1>y, <1>q, <2>1 DEF RecoverFrames
<1>8. Conn(q) /\ q.pc = "rec0" /\ q.hdr = h /\ q.readLock = -1 /\ q.mi = 0 /\ q.tx = 0
      /\ q.iReCksum = 0
  <2>1. "rec0" \in Places
    BY DEF Places
  <2> QED BY <1>4, <1>q, <2>1, RestType, RestFields
<1>9. Conn(x)
  BY <1>8 DEF Conn, ConnWith
<1>10. /\ x.pc = "rec0" /\ x.hdr = h /\ x.readLock = -1 /\ x.mi = 0 /\ x.tx = 0
       /\ x.iReCksum = 0 /\ x.writeLock /\ x.ckptLock
  BY <1>8 DEF Conn, ConnWith
<1> HIDE DEF x
<1>11. Conn(s)
  BY <1>9 DEF Conn, ConnWith
<1>12. /\ s.pc = "rec0" /\ s.hdr = h /\ s.readLock = -1 /\ s.mi = 0 /\ s.tx = 0
       /\ s.iReCksum = 0 /\ s.writeLock /\ s.ckptLock /\ s.excl = e
  BY <1>9, <1>10 DEF Conn, ConnWith
<1> HIDE DEF s
<1>13. Moved(c) /\ conn'[c] = s /\ Others(c)
  BY <1>7, <1>11, MoveTo
<1>14. Live' = Live /\ aHdr' \in [{0, 1} -> Hdr]
  BY <1>1, <1>4, ConnType DEF Live
<1>15. ConnOK(c)'
  BY <1>1, <1>2, <1>5, <1>6, <1>12, <1>13, <1>14
     DEF ConnOK, PlaceOK, WriterOK, RestartOK, CkptOK
<1>16. TakesOK(c)
  BY <1>1, <1>12, <1>13 DEF TakesOK, Off
<1>17. SaltsDiffer'
  BY <1>1, <1>13 DEF SaltsDiffer, Others, WriteLockFree, CkptLockFree
<1>18. BackfillOK' /\ Committed(wal, Live)' /\ DiskOK' /\ SaltsDrawn'
  <2>1. BackfillOK'
    BY <1>1, <1>13, <1>14, BackfillKept
  <2> QED BY <1>1, <1>14, <2>1 DEF IInv, DiskOK, SaltsDrawn
<1>19. /\ wal' \in WalFile /\ walDisk' \in [salt : SUBSET Nat, f : Seq(SUBSET Frame)]
       /\ aReadMark' \in [0..(NReader - 1) -> Nat]
       /\ nBackfill' \in Nat /\ nextTx' \in Nat \ {0} /\ salts' \in Nat /\ salts <= salts'
  BY <1>1, <1>2 DEF IInv, Typed
<1> QED BY <1>1, <1>13, <1>14, <1>15, <1>16, <1>17, <1>18, <1>19, OwnerStep

\* A connection that holds both locks publishes its header.
LEMMA RecoverHdrStep == ASSUME IInv, NEW c \in Procs, RecoverHdr(c) PROVE IInv'
<1> PICK r : r = conn[c]
  OBVIOUS
<1> DEFINE s == [r EXCEPT !.pc = "rec"]
<1>1. /\ Conn(r) /\ ConnOK(c) /\ r.pc = "rec0" /\ Live \in Hdr
  BY ConnType DEF RecoverHdr
<1>2. /\ UNCHANGED <<wal, walDisk, nBackfill, aReadMark, nextTx, salts>>
      /\ aHdr' = [aHdr EXCEPT ![0] = r.hdr] /\ conn' = [conn EXCEPT ![c] = s]
  BY ConnType DEF RecoverHdr, files, bounds
<1>3. /\ r.writeLock /\ r.ckptLock /\ r.tx = 0 /\ r.iReCksum = 0 /\ r.mi = 0
      /\ r.hdr.salt <= salts /\ Committed(wal, r.hdr) /\ Live.mxFrame <= r.hdr.mxFrame
  BY <1>1 DEF ConnOK, PlaceOK, CkptOK
<1>4. r.hdr \in Hdr /\ r.hdr.mxFrame \in Nat /\ Live.mxFrame \in Nat /\ nBackfill \in Nat
  BY <1>1, ConnType DEF Conn, ConnWith, Hdr
<1>5. Live' = r.hdr /\ aHdr' \in [{0, 1} -> Hdr]
  BY <1>2, <1>4, ConnType DEF Live
<1>6. Conn(s)
  BY <1>1 DEF Conn, ConnWith, Places
<1>7. /\ s.pc = "rec" /\ s.hdr = r.hdr /\ s.mi = 0 /\ s.writeLock /\ s.ckptLock
      /\ s.excl = r.excl /\ s.readLock = r.readLock /\ s.tx = 0 /\ s.iReCksum = 0
  BY <1>1, <1>3 DEF Conn, ConnWith
<1> HIDE DEF s
<1>8. Moved(c) /\ conn'[c] = s /\ Others(c)
  BY <1>2, <1>6, MoveTo
<1>9. \A d \in Procs \ {c} : ~conn[d].writeLock /\ ~conn[d].ckptLock
  BY <1>3 DEF IInv, LocksOK
<1>10. ConnOK(c)'
  BY <1>2, <1>3, <1>5, <1>7, <1>8 DEF ConnOK, PlaceOK, WriterOK, RestartOK, CkptOK
<1>11. TakesOK(c)
  BY <1>1, <1>3, <1>7, <1>8 DEF TakesOK, Off
<1>12. SaltsDiffer'
  BY <1>8, <1>9 DEF SaltsDiffer, Others
<1>13. BackfillOK'
  <2>1. ASSUME NEW d \in Procs PROVE conn[d].pc # "rst"
    <3>1. conn[d].pc = "rst" => conn[d].writeLock
      BY ConnType DEF ConnOK, PlaceOK
    <3> QED BY <1>1, <1>9, <3>1
  <2>2. nBackfill <= Live.mxFrame
    BY <2>1 DEF IInv, BackfillOK
  <2> QED BY <1>2, <1>3, <1>4, <1>5, <2>2 DEF BackfillOK
<1>14. Committed(wal, Live)' /\ DiskOK' /\ SaltsDrawn'
  BY <1>2, <1>3, <1>5 DEF IInv, DiskOK, SaltsDrawn
<1>15. /\ wal' \in WalFile /\ walDisk' \in [salt : SUBSET Nat, f : Seq(SUBSET Frame)]
       /\ aReadMark' \in [0..(NReader - 1) -> Nat]
       /\ nBackfill' \in Nat /\ nextTx' \in Nat \ {0} /\ salts' \in Nat /\ salts <= salts'
  BY <1>2 DEF IInv, Typed
<1> QED BY <1>3, <1>5, <1>8, <1>9, <1>10, <1>11, <1>12, <1>13, <1>14, <1>15, OwnerStep

\* It starts with an empty account of what has been copied.
LEMMA RecoverInfoStep == ASSUME IInv, NEW c \in Procs, RecoverInfo(c) PROVE IInv'
<1> PICK r : r = conn[c]
  OBVIOUS
<1>s. PICK s : s = IF r.mode = "begin" THEN Rest("begin", r.hdr, r.cache)
                   ELSE [Rest("ckpt", r.hdr, r.cache) EXCEPT
                            !.ckptLock = TRUE, !.changed = TRUE, !.excl = r.excl]
  OBVIOUS
<1>1. /\ Conn(r) /\ ConnOK(c) /\ r.pc = "rec" /\ nBackfill' = 0
      /\ conn' = [conn EXCEPT ![c] = s]
  BY <1>s, ConnType DEF RecoverInfo
<1>2. UNCHANGED <<wal, walDisk, aHdr, nextTx, salts>>
  BY DEF RecoverInfo, files, bounds
<1>3. /\ r.writeLock /\ r.ckptLock /\ r.hdr.salt <= salts /\ r.hdr = Live
  BY <1>1 DEF ConnOK, PlaceOK, CkptOK
<1>4. r.hdr \in Hdr /\ r.hdr.mxFrame \in Nat /\ r.excl \in BOOLEAN
  BY <1>1 DEF Conn, ConnWith, Hdr
<1>5. aReadMark' \in [0..(NReader - 1) -> Nat]
  <2>1. \A i \in 0..(NReader - 1) : aReadMark[i] \in Nat
    BY ConnType
  <2>2. NOT_USED \in Nat
    BY MaxFrameAssumption DEF NOT_USED
  <2>3. \A i \in 0..(NReader - 1) :
          (IF i = 0 THEN 0
           ELSE IF ~MayExclude(i) THEN aReadMark[i]
           ELSE IF i = 1 /\ conn[c].hdr.mxFrame > 0 THEN conn[c].hdr.mxFrame
           ELSE NOT_USED) \in Nat
    BY <1>4, <2>1, <2>2
  <2> QED BY <2>3 DEF RecoverInfo
<1>6. /\ Conn(s) /\ s.hdr = r.hdr /\ ~s.writeLock /\ s.readLock = -1 /\ s.mi = 0
      /\ s.tx = 0 /\ s.iReCksum = 0
      /\ \/ s.pc = "begin" /\ ~s.ckptLock /\ ~s.excl
         \/ s.pc = "ckpt" /\ s.ckptLock /\ s.mode = "PASSIVE" /\ s.excl = r.excl
  <2>1. "begin" \in Places /\ "ckpt" \in Places
    BY DEF Places
  <2>2. CASE r.mode = "begin"
    <3>1. s = Rest("begin", r.hdr, r.cache)
      BY <1>s, <2>2
    <3> QED BY <1>4, <2>1, <3>1, RestType, RestFields
  <2>3. CASE r.mode # "begin"
    <3>q. PICK q : q = Rest("ckpt", r.hdr, r.cache)
      OBVIOUS
    <3>e. PICK e \in BOOLEAN : e = r.excl
      BY <1>4
    <3> DEFINE x == [q EXCEPT !.ckptLock = TRUE, !.changed = TRUE]
    <3>1. s = [x EXCEPT !.excl = e]
      BY <1>s, <2>3, <3>q, <3>e
    <3>2. Conn(q) /\ q.pc = "ckpt" /\ q.hdr = r.hdr /\ ~q.writeLock
          /\ q.readLock = -1 /\ q.mi = 0 /\ q.tx = 0 /\ q.iReCksum = 0
      BY <1>4, <2>1, <3>q, RestType, RestFields
    <3>3. q.mode = "PASSIVE"
      BY <3>q DEF Rest
    <3>4. Conn(x)
      BY <3>2 DEF Conn, ConnWith
    <3>5. /\ x.pc = "ckpt" /\ x.hdr = r.hdr /\ ~x.writeLock /\ x.ckptLock
          /\ x.readLock = -1 /\ x.mi = 0 /\ x.tx = 0 /\ x.iReCksum = 0 /\ x.mode = "PASSIVE"
      BY <3>2, <3>3 DEF Conn, ConnWith
    <3> HIDE DEF x
    <3>6. Conn(s)
      BY <3>1, <3>4 DEF Conn, ConnWith
    <3>7. /\ s.pc = "ckpt" /\ s.hdr = r.hdr /\ ~s.writeLock /\ s.ckptLock /\ s.excl = e
          /\ s.readLock = -1 /\ s.mi = 0 /\ s.tx = 0 /\ s.iReCksum = 0 /\ s.mode = "PASSIVE"
      BY <3>1, <3>4, <3>5 DEF Conn, ConnWith
    <3> QED BY <3>e, <3>6, <3>7
  <2> QED BY <2>2, <2>3
<1>7. Moved(c) /\ conn'[c] = s /\ Others(c)
  BY <1>1, <1>6, MoveTo
<1>8. Live' = Live /\ Live.mxFrame \in Nat
  BY <1>2, <1>3, <1>4 DEF Live
<1>9. ConnOK(c)'
  BY <1>2, <1>3, <1>4, <1>6, <1>7, <1>8 DEF ConnOK, PlaceOK, WriterOK, RestartOK, CkptOK
<1>10. TakesOK(c) /\ NamesOK(c)
  BY <1>1, <1>3, <1>6, <1>7 DEF TakesOK, NamesOK, Off
<1>11. SaltsDiffer' /\ BackfillOK'
  <2>1. SaltsDiffer'
    BY <1>7, <1>8, <1>10, SaltsKept DEF IInv, NamesOK
  <2> QED BY <1>1, <1>8, <2>1 DEF BackfillOK
<1>12. Committed(wal, Live)' /\ DiskOK' /\ SaltsDrawn'
  BY <1>2, <1>8 DEF IInv, DiskOK, SaltsDrawn
<1>13. /\ wal' \in WalFile /\ walDisk' \in [salt : SUBSET Nat, f : Seq(SUBSET Frame)]
       /\ aHdr' \in [{0, 1} -> Hdr] /\ nBackfill' \in Nat
       /\ nextTx' \in Nat \ {0} /\ salts' \in Nat /\ salts <= salts'
  BY <1>1, <1>2 DEF IInv, Typed
<1> QED BY <1>3, <1>5, <1>7, <1>8, <1>9, <1>10, <1>11, <1>12, <1>13, OwnerStep

\* A rollback returns to the live header.
LEMMA UndoStep == ASSUME IInv, NEW c \in Procs, Undo(c) PROVE IInv'
<1>1. conn[c].pc \in {"write", "frames", "frame1"} /\ LogSame
  <2>1. UNCHANGED <<wal, walDisk, aHdr, nBackfill, aReadMark, nextTx, salts>>
    BY DEF Undo, files
  <2>2. LogSame
    BY <2>1, ConnType DEF LogSame, Live, IInv, Typed
  <2> QED BY <2>2 DEF Undo
<1>s. PICK s : s = Holding(Rest("read", Live, conn[c].cache), conn[c].readLock, conn[c].minFrame)
  OBVIOUS
<1>2. conn' = [conn EXCEPT ![c] = s]
  BY <1>s DEF Undo, Holding
<1>3. RestsOf(c, s, "read", Live, conn[c].cache)
  <2>1. conn[c].minFrame \in Nat
    BY ConnType DEF Conn, ConnWith
  <2> QED BY <1>s, <2>1 DEF RestsOf
<1>4. Live \in Hdr /\ Live.salt <= salts
  BY ConnType DEF IInv, SaltsDrawn
<1> QED BY <1>1, <1>2, <1>3, <1>4, RestStep

------------------------------------------------------------------------------
(* A writer begins to write, and restarts the log                          *)

\* The number of the transaction is never zero.
LEMMA TxType ==
  ASSUME IInv, NEW c \in Procs
  PROVE  Tx(c) \in Nat \ {0}
<1>1. nextTx \in Nat \ {0} /\ conn[c].tx \in Nat
  BY ConnType DEF Conn, ConnWith
<1> QED BY <1>1 DEF Tx

\* sqlite3WalFrames begins: which frames it may overwrite, and where it appends.
LEMMA StartFramesStep ==
  ASSUME IInv, NEW c \in Procs, NEW S \in Spills \cup Commits, NEW isCommit \in BOOLEAN,
         StartFrames(c, S, isCommit)
  PROVE  IInv'
<1> PICK r : r = conn[c]
  OBVIOUS
<1>t. PICK tx \in Nat \ {0} : tx = Tx(c)
  BY TxType
<1>f. PICK first : first = IF r.hdr = Live THEN 0 ELSE Live.mxFrame + 1
  OBVIOUS
<1>p. PICK sp : sp = IF isCommit THEN r.spilled ELSE S
  OBVIOUS
<1>1. /\ Conn(r) /\ ConnOK(c) /\ r.pc = "write"
      /\ ~isCommit => r.spilled = {}
      /\ S \in SUBSET Pages /\ S # {}
  BY ConnType, WritesAssumption DEF StartFrames
<1>2. /\ r.writeLock /\ ~r.ckptLock /\ r.iReCksum = 0 /\ r.mi = 0 /\ r.hdr.salt <= salts
      /\ Live.mxFrame <= r.hdr.mxFrame
      /\ Extent(r) > 0 => Chained(wal, r)
      /\ r.spilled = {} => r.hdr = Live
  BY <1>1 DEF ConnOK, PlaceOK, WriterOK
<1>3. /\ Live.mxFrame \in Nat /\ r.hdr.mxFrame \in Nat /\ first \in Nat
      /\ first = 0 \/ Live.mxFrame < first
      /\ ~isCommit => first = 0 /\ sp # {}
      /\ sp \in SUBSET Pages
  <2>1. Live.mxFrame \in Nat /\ r.hdr.mxFrame \in Nat /\ r.spilled \in SUBSET Pages
    BY <1>1, ConnType DEF Conn, ConnWith, Hdr
  <2> QED BY <1>f, <1>p, <1>1, <1>2, <2>1
<1> DEFINE x == [r EXCEPT !.todo = S, !.tx = tx, !.spilled = sp, !.iFirst = first]
           y == [x EXCEPT !.commit = isCommit]
<1>4. Conn(x) /\ Conn(y)
  <2>1. Conn(x)
    BY <1>1, <1>3 DEF Conn, ConnWith
  <2> HIDE DEF x
  <2>2. Conn(y)
    BY <2>1 DEF Conn, ConnWith
  <2> QED BY <2>1, <2>2
<1>5. /\ y.hdr = r.hdr /\ y.mi = 0 /\ y.writeLock /\ ~y.ckptLock /\ y.excl = r.excl
      /\ y.readLock = r.readLock /\ y.iReCksum = 0 /\ y.todo = S /\ y.tx = tx
      /\ y.spilled = sp /\ y.iFirst = first /\ y.commit = isCommit
  <2>1. /\ x.hdr = r.hdr /\ x.mi = 0 /\ x.writeLock /\ ~x.ckptLock /\ x.excl = r.excl
        /\ x.readLock = r.readLock /\ x.iReCksum = 0 /\ x.todo = S /\ x.tx = tx
        /\ x.spilled = sp /\ x.iFirst = first
    BY <1>1, <1>2 DEF Conn, ConnWith
  <2> HIDE DEF x
  <2> QED BY <1>4, <2>1 DEF Conn, ConnWith
<1>6. y = [r EXCEPT !.todo = S, !.commit = isCommit, !.tx = tx, !.spilled = sp, !.iFirst = first]
  BY <1>1 DEF Conn, ConnWith
<1> HIDE DEF x, y
<1>7. /\ UNCHANGED <<wal, walDisk, nBackfill, aReadMark>>
      /\ nextTx' \in Nat \ {0}
  <2>1. nextTx' = nextTx \/ nextTx' = nextTx + 1
    BY DEF StartFrames
  <2> QED BY <2>1, ConnType DEF StartFrames, files
<1>8. CASE MayRestart(c)
  <2>h. PICK h : h = RestartedHdr(c)
    OBVIOUS
  <2> DEFINE s == [y EXCEPT !.pc = "rst0", !.hdr = h]
  <2>1. /\ conn' = [conn EXCEPT ![c] = s] /\ salts' = salts + 1
        /\ aHdr' = [aHdr EXCEPT ![1] = h]
    BY <1>f, <1>p, <1>t, <1>6, <1>8, <2>h, ConnType DEF StartFrames, NewSalt
  <2>2. h \in Hdr /\ h.mxFrame = 0 /\ h.salt = salts + 1
    BY <2>h, RestartedType
  <2>3. Conn(s)
    BY <1>4, <2>2 DEF Conn, ConnWith, Places
  <2>4. /\ s.pc = "rst0" /\ s.hdr = h /\ s.mi = 0 /\ s.writeLock /\ ~s.ckptLock
        /\ s.excl = r.excl /\ s.readLock = r.readLock /\ s.iReCksum = 0 /\ s.todo = S
        /\ s.tx = tx /\ s.spilled = sp /\ s.iFirst = first /\ s.commit = isCommit
    BY <1>4, <1>5 DEF Conn, ConnWith
  <2> HIDE DEF s
  <2>5. Moved(c) /\ conn'[c] = s
    BY <2>1, <2>3, MoveTo
  <2>6. LogSame /\ Live' = Live
    <3>1. aHdr' \in [{0, 1} -> Hdr] /\ Live' = Live
      BY <2>1, <2>2, ConnType DEF Live
    <3> QED BY <1>7, <2>1, <3>1, ConnType, NewSalts DEF LogSame
  <2>7. ConnOK(c)'
    <3>1. h.salt <= salts' /\ h.salt # Live.salt
      BY <2>1, <2>2, NewSalts
    <3>2. r.readLock = 0 /\ tx > 0
      BY <1>8 DEF MayRestart
    <3>3. WriterOK(wal', walDisk', Live', s)
      BY <1>1, <1>3, <2>4, <2>6, <3>2 DEF WriterOK
    <3> QED BY <2>2, <2>4, <2>5, <2>6, <3>1, <3>3 DEF ConnOK, PlaceOK, RestartOK, CkptOK
  <2>8. TakesOK(c)
    BY <1>1, <1>2, <2>4, <2>5 DEF TakesOK, Off
  <2>9. NamesOK(c)
    <3>1. \A d \in Procs : conn[d].hdr.salt # h.salt
      BY <2>2, NewSalts
    <3> QED BY <2>4, <2>5, <3>1 DEF NamesOK
  <2> QED BY <1>1, <2>5, <2>6, <2>7, <2>8, <2>9, QuietStep
<1>9. CASE ~MayRestart(c)
  <2>1. UNCHANGED <<salts, aHdr>>
    BY <1>9 DEF StartFrames
  <2>2. LogSame /\ Live' = Live /\ salts' = salts
    BY <1>7, <2>1, ConnType DEF LogSame, Live
  <2>3. CASE r.readLock = 0
    <3>n. PICK none \in Int : none = -1
      OBVIOUS
    <3> DEFINE s == [y EXCEPT !.pc = "begin", !.readLock = none]
    <3>1. conn' = [conn EXCEPT ![c] = s]
      BY <1>f, <1>p, <1>t, <1>6, <1>9, <2>3, <3>n, ConnType DEF StartFrames
    <3>2. Conn(s)
      BY <1>4 DEF Conn, ConnWith, Places
    <3>3. /\ s.pc = "begin" /\ s.hdr = r.hdr /\ s.mi = 0 /\ s.writeLock /\ ~s.ckptLock
          /\ s.excl = r.excl /\ s.readLock = none /\ s.iReCksum = 0 /\ s.todo = S
          /\ s.tx = tx /\ s.spilled = sp /\ s.iFirst = first /\ s.commit = isCommit
      BY <1>4, <1>5 DEF Conn, ConnWith
    <3> HIDE DEF s
    <3>4. Moved(c) /\ conn'[c] = s
      BY <3>1, <3>2, MoveTo
    <3>5. Extent(s) > 0 => Chained(wal, s)
      BY <1>1, <1>2, <3>3 DEF Extent, Intact, Chained
    <3>6. WriterOK(wal', walDisk', Live', s)
      BY <1>1, <1>2, <1>3, <1>7, <2>2, <3>3, <3>5 DEF WriterOK
    <3>7. ConnOK(c)'
      BY <1>2, <2>2, <3>3, <3>4, <3>6 DEF ConnOK, PlaceOK, RestartOK, CkptOK
    <3>8. TakesOK(c) /\ NamesOK(c)
      BY <1>1, <1>2, <3>n, <3>3, <3>4 DEF TakesOK, NamesOK, Off
    <3> QED BY <1>1, <2>2, <3>4, <3>7, <3>8, QuietStep
  <2>4. CASE r.readLock # 0
    <3> DEFINE s == [y EXCEPT !.pc = "frames", !.iFrame = r.hdr.mxFrame]
    <3>1. conn' = [conn EXCEPT ![c] = s]
      BY <1>f, <1>p, <1>t, <1>6, <1>9, <2>4, ConnType DEF StartFrames
    <3>2. Conn(s)
      BY <1>3, <1>4 DEF Conn, ConnWith, Places
    <3>3. /\ s.pc = "frames" /\ s.hdr = r.hdr /\ s.mi = 0 /\ s.writeLock /\ ~s.ckptLock
          /\ s.excl = r.excl /\ s.readLock = r.readLock /\ s.iReCksum = 0 /\ s.todo = S
          /\ s.tx = tx /\ s.spilled = sp /\ s.iFirst = first /\ s.commit = isCommit
          /\ s.iFrame = r.hdr.mxFrame
      BY <1>4, <1>5 DEF Conn, ConnWith
    <3> HIDE DEF s
    <3>4. Moved(c) /\ conn'[c] = s
      BY <3>1, <3>2, MoveTo
    <3>5. Extent(s) > 0 => Chained(wal, s)
      BY <1>1, <1>2, <3>3 DEF Extent, Intact, Chained
    <3>6. WriterOK(wal', walDisk', Live', s)
      BY <1>1, <1>2, <1>3, <1>7, <2>2, <3>3, <3>5 DEF WriterOK
    <3>7. ConnOK(c)'
      BY <1>2, <2>2, <3>3, <3>4, <3>6 DEF ConnOK, PlaceOK, RestartOK, CkptOK
    <3>8. TakesOK(c) /\ NamesOK(c)
      BY <1>1, <1>2, <3>3, <3>4 DEF TakesOK, NamesOK, Off
    <3> QED BY <1>1, <2>2, <3>4, <3>7, <3>8, QuietStep
  <2> QED BY <2>3, <2>4
<1> QED BY <1>8, <1>9

\* The new header is published: no checkpointer copies, since the writer reads
\* no frame, and none looks at a log of that name.
LEMMA RestartHdrStep == ASSUME IInv, NEW c \in Procs, RestartHdr(c) PROVE IInv'
<1> PICK r : r = conn[c]
  OBVIOUS
<1> DEFINE s == [r EXCEPT !.pc = "rst"]
<1>1. /\ Conn(r) /\ ConnOK(c) /\ r.pc = "rst0" /\ Live \in Hdr
  BY ConnType DEF RestartHdr
<1>2. /\ UNCHANGED <<wal, walDisk, nBackfill, aReadMark, nextTx, salts>>
      /\ aHdr' = [aHdr EXCEPT ![0] = r.hdr] /\ conn' = [conn EXCEPT ![c] = s]
  BY ConnType DEF RestartHdr, files, bounds
<1>3. /\ r.writeLock /\ r.mi = 0 /\ r.hdr.salt <= salts /\ r.hdr.mxFrame = 0
      /\ r.hdr.salt # Live.salt
      /\ r.ckptLock => r.tx = 0 /\ r.iReCksum = 0
  BY <1>1 DEF ConnOK, PlaceOK, RestartOK
<1>4. r.hdr \in Hdr
  BY <1>1 DEF Conn, ConnWith
<1>5. Live' = r.hdr /\ aHdr' \in [{0, 1} -> Hdr]
  BY <1>2, <1>4, ConnType DEF Live
<1>6. Conn(s)
  BY <1>1 DEF Conn, ConnWith, Places
<1>7. /\ s.pc = "rst" /\ s.hdr = r.hdr /\ s.mi = 0 /\ s.writeLock /\ s.ckptLock = r.ckptLock
      /\ s.excl = r.excl /\ s.readLock = r.readLock /\ s.tx = r.tx /\ s.iReCksum = r.iReCksum
      /\ s.iFirst = r.iFirst /\ s.commit = r.commit /\ s.todo = r.todo /\ s.spilled = r.spilled
  BY <1>1, <1>3 DEF Conn, ConnWith
<1> HIDE DEF s
<1>8. Moved(c) /\ conn'[c] = s /\ Others(c)
  BY <1>2, <1>6, MoveTo
<1>9. \A d \in Procs \ {c} : ~conn[d].writeLock
  BY <1>3 DEF IInv, LocksOK
<1>10. ASSUME NEW d \in Procs \ {c}, conn[d].ckptLock
       PROVE  conn[d].pc # "copy" /\ Live'.salt # conn[d].hdr.salt
  <2>1. ~r.ckptLock
    BY <1>10 DEF IInv, LocksOK
  <2>2. r.readLock = 0
    BY <1>1, <1>3, <2>1 DEF ConnOK, WriterOK
  <2>3. conn[d].pc # "copy"
    BY <2>2 DEF IInv, CopyAlone
  <2>4. r.hdr.salt # conn[d].hdr.salt
    BY <1>3, <1>10 DEF IInv, SaltsDiffer
  <2> QED BY <1>5, <2>3, <2>4
<1>11. ConnOK(c)'
  <2>1. WriterOK(wal', walDisk', Live', s)
    <3>1. r.iFirst \in Nat
      BY <1>1 DEF Conn, ConnWith
    <3> QED BY <1>1, <1>3, <1>5, <1>7, <3>1 DEF ConnOK, WriterOK
  <2> QED BY <1>2, <1>3, <1>5, <1>7, <1>8, <2>1 DEF ConnOK, PlaceOK, RestartOK, CkptOK
<1>12. TakesOK(c)
  BY <1>1, <1>3, <1>7, <1>8 DEF TakesOK, Off
<1>13. SaltsDiffer'
  <2> SUFFICES ASSUME NEW a \in Procs, NEW b \in Procs, a # b,
                      conn'[a].writeLock, conn'[b].ckptLock
               PROVE  conn'[a].hdr.salt = Live'.salt
    BY DEF SaltsDiffer
  <2>1. a = c
    BY <1>8, <1>9 DEF Others
  <2> QED BY <1>5, <1>7, <1>8, <2>1
<1>14. BackfillOK' /\ Committed(wal, Live)'
  BY <1>3, <1>5, <1>7, <1>8 DEF BackfillOK, Committed
<1>15. DiskOK' /\ SaltsDrawn'
  BY <1>2, <1>3, <1>5 DEF IInv, DiskOK, SaltsDrawn
<1>16. /\ wal' \in WalFile /\ walDisk' \in [salt : SUBSET Nat, f : Seq(SUBSET Frame)]
       /\ aReadMark' \in [0..(NReader - 1) -> Nat]
       /\ nBackfill' \in Nat /\ nextTx' \in Nat \ {0} /\ salts' \in Nat /\ salts <= salts'
  BY <1>2 DEF IInv, Typed
<1> QED BY <1>3, <1>5, <1>8, <1>10, <1>11, <1>12, <1>13, <1>14, <1>15, <1>16, OwnerStep

\* The second half of the restart takes nBackfill back.
LEMMA RestartInfoStep == ASSUME IInv, NEW c \in Procs, RestartInfo(c) PROVE IInv'
<1> PICK r : r = conn[c]
  OBVIOUS
<1>1. /\ Conn(r) /\ ConnOK(c) /\ r.pc = "rst" /\ nBackfill' = 0
      /\ UNCHANGED <<wal, walDisk, aHdr, nextTx, salts>>
  BY ConnType DEF RestartInfo, files, bounds
<1>2. /\ r.writeLock /\ r.mi = 0 /\ r.hdr.salt <= salts /\ r.hdr = Live /\ Live.mxFrame = 0
      /\ r.ckptLock <=> r.tx = 0
      /\ r.iReCksum = 0
  <2>1. r.tx \in Nat
    BY <1>1 DEF Conn, ConnWith
  <2> QED BY <1>1, <2>1 DEF ConnOK, PlaceOK, RestartOK, WriterOK
<1>3. aReadMark' \in [0..(NReader - 1) -> Nat]
  <2>1. NOT_USED \in Nat
    BY MaxFrameAssumption DEF NOT_USED
  <2>2. 0 \in 0..(NReader - 1)
    BY NReaderAssumption
  <2>3. aReadMark[0] \in Nat
    BY <2>2, ConnType
  <2>4. \A i \in 0..(NReader - 1) :
          (IF i = 0 THEN aReadMark[0] ELSE IF i = 1 THEN 0 ELSE NOT_USED) \in Nat
    BY <2>1, <2>3
  <2> QED BY <2>4 DEF RestartInfo
<1>p. PICK pc : pc = IF r.tx = 0 THEN "trunc" ELSE "begin"
  OBVIOUS
<1>l. PICK lk \in Int : lk = IF r.tx = 0 THEN r.readLock ELSE -1
  <2>1. r.readLock \in Int
    BY <1>1 DEF Conn, ConnWith
  <2> QED BY <2>1
<1> DEFINE s == [r EXCEPT !.pc = pc, !.readLock = lk]
<1>4. conn' = [conn EXCEPT ![c] = s]
  <2>1. CASE r.tx = 0
    <3>1. s = [r EXCEPT !.pc = "trunc"]
      BY <1>1, <1>p, <1>l, <2>1 DEF Conn, ConnWith
    <3>2. conn' = [conn EXCEPT ![c].pc = "trunc"]
      BY <2>1 DEF RestartInfo
    <3> HIDE DEF s
    <3> QED BY <3>1, <3>2, ConnType
  <2>2. CASE r.tx # 0
    <3>1. pc = "begin" /\ lk = -1
      BY <1>p, <1>l, <2>2
    <3>2. conn' = [conn EXCEPT ![c].pc = "begin", ![c].readLock = -1]
      BY <2>2 DEF RestartInfo
    <3> QED BY <3>1, <3>2, ConnType
  <2> QED BY <2>1, <2>2
<1>5. pc \in Places
  BY <1>p DEF Places
<1>6. Conn(s)
  BY <1>1, <1>5 DEF Conn, ConnWith
<1>7. /\ s.pc = pc /\ s.hdr = Live /\ s.mi = 0 /\ s.writeLock /\ s.ckptLock = r.ckptLock
      /\ s.excl = r.excl /\ s.readLock = lk /\ s.tx = r.tx /\ s.iReCksum = 0
      /\ s.iFirst = r.iFirst /\ s.commit = r.commit /\ s.todo = r.todo /\ s.spilled = r.spilled
  BY <1>1, <1>2 DEF Conn, ConnWith
<1> HIDE DEF s
<1>8. Moved(c) /\ conn'[c] = s /\ Others(c)
  BY <1>4, <1>6, MoveTo
<1>9. Live' = Live
  BY <1>1 DEF Live
<1>10. WriterOK(wal', walDisk', Live', s)
  BY <1>1, <1>2, <1>p, <1>7, <1>9 DEF ConnOK, WriterOK, Extent
<1>11. ConnOK(c)'
  BY <1>1, <1>2, <1>p, <1>7, <1>8, <1>9, <1>10 DEF ConnOK, PlaceOK, RestartOK, CkptOK
<1>12. TakesOK(c) /\ NamesOK(c)
  BY <1>1, <1>2, <1>p, <1>l, <1>7, <1>8 DEF TakesOK, NamesOK, Off
<1>13. SaltsDiffer' /\ BackfillOK'
  <2>1. SaltsDiffer'
    BY <1>8, <1>9, <1>12, SaltsKept DEF IInv, NamesOK
  <2> QED BY <1>1, <1>2, <1>9, <2>1 DEF BackfillOK
<1>14. Committed(wal, Live)' /\ DiskOK' /\ SaltsDrawn'
  BY <1>1, <1>9 DEF IInv, DiskOK, SaltsDrawn
<1>15. /\ wal' \in WalFile /\ walDisk' \in [salt : SUBSET Nat, f : Seq(SUBSET Frame)]
       /\ aHdr' \in [{0, 1} -> Hdr] /\ nBackfill' \in Nat
       /\ nextTx' \in Nat \ {0} /\ salts' \in Nat /\ salts <= salts'
  BY <1>1 DEF IInv, Typed
<1> QED BY <1>2, <1>3, <1>8, <1>9, <1>11, <1>12, <1>13, <1>14, <1>15, OwnerStep

------------------------------------------------------------------------------
(* Frames                                                                  *)

\* What a writer knows of the file and of its own place in it.
LEMMA WriterFacts ==
  ASSUME IInv, NEW c \in Procs, NEW r, r = conn[c], r.pc \in {"frame1", "frames"}
  PROVE  /\ Conn(r) /\ ConnOK(c) /\ r.writeLock /\ ~r.ckptLock /\ r.mi = 0
         /\ r.hdr.salt <= salts
         /\ Live.mxFrame <= r.hdr.mxFrame /\ r.hdr.mxFrame <= r.iFrame
         /\ r.iFrame > 0 \/ r.pc = "frame1" => Chained(wal, r)
         /\ r.pc = "frame1" => r.iFrame = 0 /\ Len(walDisk.f) = Len(wal.f)
         /\ r.iReCksum # 0 =>
                r.pc = "frames" /\ Live.mxFrame < r.iReCksum /\ r.iReCksum <= r.iFrame
         /\ r.iFirst = 0 \/ Live.mxFrame < r.iFirst
         /\ ~r.commit => r.spilled # {} /\ r.iFirst = 0 /\ r.iReCksum = 0
         /\ r.hdr \in Hdr /\ r.hdr.mxFrame \in Nat /\ r.iFrame \in Nat /\ r.iReCksum \in Nat
         /\ r.iFirst \in Nat /\ Live.mxFrame \in Nat
<1>1. Conn(r) /\ ConnOK(c) /\ Live \in Hdr
  BY ConnType
<1>2. r.writeLock /\ ~r.ckptLock /\ r.mi = 0 /\ r.hdr.salt <= salts
  BY <1>1 DEF ConnOK, PlaceOK
<1>3. /\ r.hdr \in Hdr /\ r.hdr.mxFrame \in Nat /\ r.iFrame \in Nat /\ r.iReCksum \in Nat
      /\ r.iFirst \in Nat /\ Live.mxFrame \in Nat
  BY <1>1 DEF Conn, ConnWith, Hdr
<1>4. Extent(r) = r.iFrame
  BY DEF Extent
<1>5. WriterOK(wal, walDisk, Live, r)
  BY <1>1 DEF ConnOK
<1> QED BY <1>1, <1>2, <1>3, <1>4, <1>5 DEF WriterOK

\* The first frame of a log comes behind a new header of the file.
LEMMA WriteWalHdrStep == ASSUME IInv, NEW c \in Procs, WriteWalHdr(c) PROVE IInv'
<1> PICK r : r = conn[c]
  OBVIOUS
<1>n. PICK n : n = IF salts' = salts THEN r.hdr.salt ELSE salts'
  OBVIOUS
<1>e. PICK e \in Seq(Bodies) : e = <<>>
  <2>1. <<>> \in Seq(Bodies)
    OBVIOUS
  <2> QED BY <2>1, Zenon
<1>h. PICK h : h = [r.hdr EXCEPT !.salt = n, !.cksum = e]
  OBVIOUS
<1> DEFINE s == [r EXCEPT !.pc = "frame1", !.hdr = h]
<1>1. /\ r.pc = "frames" /\ ~(r.iFrame > 0)
      /\ wal' = [wal EXCEPT !.salt = n] /\ walDisk' = SyncedWal(wal')
      /\ (r.hdr.salt > 0 /\ salts' = salts) \/ salts' = salts + 1
      /\ UNCHANGED <<aHdr, nBackfill, aReadMark, nextTx>>
  BY <1>n DEF WriteWalHdr, HasWalHdr, NewSalt, index
<1>2. /\ Conn(r) /\ ConnOK(c) /\ r.writeLock /\ ~r.ckptLock /\ r.mi = 0
      /\ r.hdr.salt <= salts
      /\ Live.mxFrame <= r.hdr.mxFrame /\ r.hdr.mxFrame <= r.iFrame
      /\ r.iReCksum # 0 => r.iReCksum <= r.iFrame
      /\ r.iFirst = 0 \/ Live.mxFrame < r.iFirst
      /\ ~r.commit => r.spilled # {} /\ r.iFirst = 0 /\ r.iReCksum = 0
      /\ r.hdr \in Hdr /\ r.hdr.mxFrame \in Nat /\ r.iFrame \in Nat /\ r.iReCksum \in Nat
      /\ r.iFirst \in Nat /\ Live.mxFrame \in Nat
  BY <1>1, WriterFacts
<1>3. r.iFrame = 0 /\ r.iReCksum = 0 /\ r.hdr.mxFrame = 0 /\ Live.mxFrame = 0
  BY <1>1, <1>2
<1>4. r.commit => r.todo # {}
  BY <1>1, <1>2 DEF ConnOK, WriterOK
<1>5. /\ n \in Nat /\ n > 0 /\ n <= salts' /\ salts' \in Nat /\ salts <= salts'
      /\ n = r.hdr.salt \/ n = salts + 1
  <2>1. salts \in Nat /\ r.hdr.salt \in Nat
    BY <1>2, ConnType DEF Hdr
  <2>2. CASE salts' = salts
    BY <1>1, <1>2, <1>n, <2>1, <2>2
  <2>3. CASE salts' # salts
    BY <1>1, <1>n, <2>1, <2>3
  <2> QED BY <2>2, <2>3
<1>6. h \in Hdr /\ h.salt = n /\ h.mxFrame = 0 /\ h.cksum = <<>>
  BY <1>2, <1>3, <1>5, <1>e, <1>h DEF Hdr
<1>7. conn' = [conn EXCEPT ![c] = s]
  <2>1. conn' = [conn EXCEPT ![c].pc = "frame1", ![c].hdr.salt = n, ![c].hdr.cksum = e]
    BY <1>n, <1>e DEF WriteWalHdr
  <2>2. conn' = [conn EXCEPT ![c] = [r EXCEPT !.pc = "frame1",
                                              !.hdr = [r.hdr EXCEPT !.salt = n, !.cksum = e]]]
    <3>1. conn = [d \in Procs |-> conn[d]]
      BY ConnType
    <3> QED BY <2>1, <3>1
  <2> QED BY <1>h, <2>2
<1>8. Conn(s)
  BY <1>2, <1>6 DEF Conn, ConnWith, Places
<1>9. /\ s.pc = "frame1" /\ s.hdr = h /\ s.mi = 0 /\ s.writeLock /\ ~s.ckptLock
      /\ s.excl = r.excl /\ s.readLock = r.readLock /\ s.tx = r.tx /\ s.iReCksum = 0
      /\ s.iFirst = r.iFirst /\ s.commit = r.commit /\ s.todo = r.todo /\ s.spilled = r.spilled
      /\ s.iFrame = 0
  BY <1>2, <1>3 DEF Conn, ConnWith
<1> HIDE DEF s
<1>10. Moved(c) /\ conn'[c] = s /\ Others(c)
  BY <1>7, <1>8, MoveTo
<1>11. wal \in WalFile /\ wal' \in WalFile /\ wal'.salt = n /\ wal'.f = wal.f
  <2>1. wal \in WalFile
    BY DEF IInv, Typed
  <2> QED BY <1>1, <1>5, <2>1 DEF WalFile
<1>12. /\ walDisk' \in [salt : SUBSET Nat, f : Seq(SUBSET Frame)]
       /\ Len(walDisk'.f) = Len(wal'.f) /\ walDisk'.salt = {n}
  BY <1>1, <1>11, SyncedType
<1>13. Live' = Live /\ aHdr' \in [{0, 1} -> Hdr]
  BY <1>1, ConnType DEF Live
<1>14. Chained(wal', s)
  <2>1. SumTo(wal', 0) = <<>>
    BY DEF SumTo
  <2>2. Len(wal'.f) \in Nat
    BY <1>11 DEF WalFile
  <2> QED BY <1>5, <1>6, <1>9, <1>11, <2>1, <2>2 DEF Chained, Extent, Intact
<1>15. ConnOK(c)'
  <2>1. WriterOK(wal', walDisk', Live', s)
    BY <1>2, <1>3, <1>4, <1>6, <1>9, <1>12, <1>13, <1>14 DEF WriterOK
  <2> QED BY <1>5, <1>6, <1>9, <1>10, <2>1 DEF ConnOK, PlaceOK, RestartOK, CkptOK
<1>16. TakesOK(c) /\ NamesOK(c)
  <2>1. TakesOK(c)
    BY <1>1, <1>2, <1>9, <1>10 DEF TakesOK, Off
  <2>2. n = salts + 1 => \A d \in Procs : conn[d].hdr.salt # n
    BY NewSalts
  <2> QED BY <1>2, <1>5, <1>6, <1>9, <1>10, <2>1, <2>2 DEF NamesOK
<1>17. SaltsDiffer' /\ BackfillOK'
  BY <1>1, <1>10, <1>13, <1>16, SaltsKept, BackfillKept DEF IInv, NamesOK
<1>18. Committed(wal, Live)' /\ DiskOK' /\ SaltsDrawn'
  <2>1. Live.salt <= salts /\ Live.salt \in Nat /\ salts \in Nat
    BY ConnType DEF IInv, SaltsDrawn, Hdr
  <2>2. Live.salt <= salts'
    BY <1>5, <2>1
  <2> QED BY <1>3, <1>5, <1>11, <1>12, <1>13, <2>2 DEF Committed, DiskOK, SaltsDrawn
<1>19. /\ aReadMark' \in [0..(NReader - 1) -> Nat]
       /\ nBackfill' \in Nat /\ nextTx' \in Nat \ {0}
  BY <1>1 DEF IInv, Typed
<1> QED BY <1>2, <1>5, <1>10, <1>11, <1>12, <1>13, <1>15, <1>16, <1>17, <1>18, <1>19, OwnerStep

\* A spill becomes part of what the writer reads.
LEMMA FinishSpillStep == ASSUME IInv, NEW c \in Procs, FinishSpill(c) PROVE IInv'
<1> PICK r : r = conn[c]
  OBVIOUS
<1>h. PICK h : h = [r.hdr EXCEPT !.mxFrame = r.iFrame]
  OBVIOUS
<1> DEFINE s == [r EXCEPT !.pc = "write", !.hdr = h]
<1>1. r.pc = "frames" /\ ~r.commit
  BY DEF FinishSpill
<1>2. /\ Conn(r) /\ ConnOK(c) /\ r.writeLock /\ ~r.ckptLock /\ r.mi = 0
      /\ r.hdr.salt <= salts
      /\ Live.mxFrame <= r.hdr.mxFrame /\ r.hdr.mxFrame <= r.iFrame
      /\ r.iFrame > 0 => Chained(wal, r)
      /\ r.spilled # {} /\ r.iReCksum = 0
      /\ r.hdr \in Hdr /\ r.hdr.mxFrame \in Nat /\ r.iFrame \in Nat /\ Live.mxFrame \in Nat
  BY <1>1, WriterFacts
<1>3. h \in Hdr /\ h.salt = r.hdr.salt /\ h.mxFrame = r.iFrame /\ h.cksum = r.hdr.cksum
  BY <1>2, <1>h DEF Hdr
<1>4. conn' = [conn EXCEPT ![c] = s]
  BY <1>2, <1>h, ConnType DEF FinishSpill
<1>5. LogSame /\ Live' = Live /\ walDisk' = walDisk /\ salts' = salts
  <2>1. UNCHANGED <<wal, walDisk, aHdr, nBackfill, aReadMark, nextTx, salts>>
    BY DEF FinishSpill, files, bounds
  <2> QED BY <2>1, ConnType DEF LogSame, Live
<1>6. Conn(s)
  BY <1>2, <1>3 DEF Conn, ConnWith, Places
<1>7. /\ s.pc = "write" /\ s.hdr = h /\ s.mi = 0 /\ s.writeLock /\ ~s.ckptLock
      /\ s.excl = r.excl /\ s.readLock = r.readLock /\ s.tx = r.tx /\ s.iReCksum = 0
      /\ s.spilled = r.spilled
  BY <1>2 DEF Conn, ConnWith
<1> HIDE DEF s
<1>8. Moved(c) /\ conn'[c] = s
  BY <1>4, <1>6, MoveTo
<1>9. Extent(s) > 0 => Chained(wal, s)
  BY <1>1, <1>2, <1>3, <1>7 DEF Extent, Intact, Chained
<1>10. ConnOK(c)'
  <2>1. WriterOK(wal', walDisk', Live', s)
    BY <1>2, <1>3, <1>5, <1>7, <1>9 DEF LogSame, WriterOK
  <2> QED BY <1>2, <1>3, <1>5, <1>7, <1>8, <2>1 DEF ConnOK, PlaceOK, RestartOK, CkptOK
<1>11. TakesOK(c) /\ NamesOK(c)
  BY <1>1, <1>2, <1>3, <1>7, <1>8 DEF TakesOK, NamesOK, Off
<1> QED BY <1>1, <1>5, <1>8, <1>10, <1>11, QuietStep

\* The greater of two numbers.
LEMMA MaxOfTwo ==
  ASSUME NEW i \in Nat, NEW n \in Nat
  PROVE  Max({i, n}) = IF i > n THEN i ELSE n
<1>1. {i, n} \in SUBSET (0..(i + n)) /\ {i, n} # {} /\ i + n \in Nat
  OBVIOUS
<1>2. Max({i, n}) \in {i, n} /\ \A y \in {i, n} : y <= Max({i, n})
  BY <1>1, GreatestOf
<1> QED BY <1>2

\* A frame behind the last one, or over one that is there.
LEMMA PutOK ==
  ASSUME NEW f \in Seq(Frame), NEW i \in Nat \ {0}, i <= Len(f) + 1, NEW fr \in Frame
  PROVE  /\ Put(f, i, fr) \in Seq(Frame)
         /\ Len(Put(f, i, fr)) = IF i > Len(f) THEN i ELSE Len(f)
         /\ Put(f, i, fr)[i] = fr
         /\ \A j \in 1..Len(f) : j # i => Put(f, i, fr)[j] = f[j]
<1>1. PICK n \in Nat : n = IF i > Len(f) THEN i ELSE Len(f)
  OBVIOUS
<1>2. Max({i, Len(f)}) = n
  BY <1>1, MaxOfTwo
<1>3. Put(f, i, fr) = [j \in 1..n |-> IF j = i THEN fr ELSE f[j]]
  BY <1>2 DEF Put
<1>4. \A j \in 1..n : (IF j = i THEN fr ELSE f[j]) \in Frame
  <2> SUFFICES ASSUME NEW j \in 1..n, j # i PROVE f[j] \in Frame
    OBVIOUS
  <2>1. j \in 1..Len(f)
    BY <1>1
  <2> QED BY <2>1
<1>5. Put(f, i, fr) \in Seq(Frame) /\ Len(Put(f, i, fr)) = n
  BY <1>3, <1>4
<1>6. i \in 1..n /\ \A j \in 1..Len(f) : j \in 1..n
  BY <1>1
<1> QED BY <1>1, <1>3, <1>5, <1>6

\* What the disk may hold grows with it.
LEMMA AlsoFrameOK ==
  ASSUME NEW disk \in [salt : SUBSET Nat, f : Seq(SUBSET Frame)],
         NEW i \in Nat \ {0}, NEW fr \in Frame
  PROVE  /\ AlsoFrame(disk, i, fr) \in [salt : SUBSET Nat, f : Seq(SUBSET Frame)]
         /\ Len(AlsoFrame(disk, i, fr).f) = IF i > Len(disk.f) THEN i ELSE Len(disk.f)
         /\ AlsoFrame(disk, i, fr).salt = disk.salt
<1>1. disk.f \in Seq(SUBSET Frame) /\ Len(disk.f) \in Nat
  OBVIOUS
<1>2. PICK n \in Nat : n = IF i > Len(disk.f) THEN i ELSE Len(disk.f)
  BY <1>1
<1>3. Max({i, Len(disk.f)}) = n
  BY <1>1, <1>2, MaxOfTwo
<1>4. Torn \in Frame
  <2>1. <<>> \in Seq(Bodies)
    OBVIOUS
  <2>2. PICK e \in Seq(Bodies) : e = <<>>
    BY <2>1, Zenon
  <2>3. Torn = [pg |-> 1, val |-> 0, trunc |-> FALSE, salt |-> 0, cksum |-> e]
    BY <2>2 DEF Torn
  <2> QED BY <2>3 DEF Frame
<1>g. PICK g : g = [j \in 1..n |->
                       (IF j <= Len(disk.f) THEN disk.f[j] ELSE {Torn})
                           \cup (IF j = i THEN {fr} ELSE {})]
  OBVIOUS
<1>5. AlsoFrame(disk, i, fr) = [disk EXCEPT !.f = g]
  BY <1>3, <1>g DEF AlsoFrame
<1>6. \A j \in 1..n : ((IF j <= Len(disk.f) THEN disk.f[j] ELSE {Torn})
                           \cup (IF j = i THEN {fr} ELSE {})) \in SUBSET Frame
  <2> SUFFICES ASSUME NEW j \in 1..n
               PROVE  (IF j <= Len(disk.f) THEN disk.f[j] ELSE {Torn}) \in SUBSET Frame
    OBVIOUS
  <2>1. j <= Len(disk.f) => disk.f[j] \in SUBSET Frame
    BY <1>1
  <2> QED BY <1>4, <2>1
<1>7. g \in Seq(SUBSET Frame) /\ Len(g) = n
  BY <1>6, <1>g
<1> QED BY <1>2, <1>5, <1>7

\* A checksum that covers one frame more.
LEMMA SumAppend ==
  ASSUME NEW w, NEW n \in Nat, NEW k \in Seq(Bodies), k = SumTo(w, n),
         Body(w.f[n + 1]) \in Bodies
  PROVE  Append(k, Body(w.f[n + 1])) = SumTo(w, n + 1)
<1>b. PICK b \in Bodies : b = Body(w.f[n + 1])
  OBVIOUS
<1>1. Len(k) = n /\ \A j \in 1..n : k[j] = Body(w.f[j])
  <2>1. Len(SumTo(w, n)) = n
    BY DEF SumTo
  <2> QED BY <2>1 DEF SumTo
<1>2. SumTo(w, n + 1) = [j \in 1..(n + 1) |-> Body(w.f[j])]
  BY DEF SumTo
<1>3. \A j \in 1..(n + 1) : Body(w.f[j]) \in Bodies
  <2> SUFFICES ASSUME NEW j \in 1..n PROVE Body(w.f[j]) \in Bodies
    BY <1>b
  <2>1. k[j] \in Bodies
    BY <1>1
  <2> QED BY <1>1, <2>1
<1>4. /\ SumTo(w, n + 1) \in Seq(Bodies) /\ Len(SumTo(w, n + 1)) = n + 1
      /\ \A j \in 1..(n + 1) : SumTo(w, n + 1)[j] = Body(w.f[j])
  <2> DEFINE g == [j \in 1..(n + 1) |-> Body(w.f[j])]
  <2>1. g \in [1..(n + 1) -> Bodies]
    BY <1>3
  <2>2. g \in Seq(Bodies) /\ Len(g) = n + 1
    <3> HIDE DEF g
    <3> QED BY <2>1
  <2> QED BY <1>2, <2>2
<1>5. /\ Append(k, b) \in Seq(Bodies) /\ Len(Append(k, b)) = n + 1
      /\ \A j \in 1..n : Append(k, b)[j] = k[j]
      /\ Append(k, b)[n + 1] = b
  BY <1>1
<1>6. \A j \in 1..(n + 1) : Append(k, b)[j] = SumTo(w, n + 1)[j]
  BY <1>b, <1>1, <1>4, <1>5
<1>7. Append(k, b) = SumTo(w, n + 1)
  BY <1>4, <1>5, <1>6, SeqEqual
<1> QED BY <1>b, <1>7

\* The greatest frame that walFindFrame may return lies within the snapshot.
LEMMA FoundIn ==
  ASSUME IInv, NEW c \in Procs, NEW p
  PROVE  FindFrame(c, p) \in Nat /\ FindFrame(c, p) <= conn[c].hdr.mxFrame
<1> PICK n \in Nat : n = conn[c].hdr.mxFrame
  BY ConnType DEF Conn, ConnWith, Hdr
<1> DEFINE S == {0} \cup {i \in conn[c].minFrame..n : i > 0 /\ aPgno[i] = p}
<1>1. conn[c].minFrame \in Nat
  BY ConnType DEF Conn, ConnWith
<1>2. S \in SUBSET (0..n) /\ S # {}
  BY <1>1
<1>3. FindFrame(c, p) = 0 \/ FindFrame(c, p) = Max(S)
  BY DEF FindFrame, FindUpTo
<1> HIDE DEF S
<1>4. Max(S) \in 0..n
  BY <1>2, GreatestOf
<1> QED BY <1>3, <1>4

\* A frame over another one of the same transaction: those before it, which
\* include all that is committed, keep their checksums.
Overwrites(c, old, p) ==
    LET val == IF conn[c].commit THEN Final(conn[c].tx) ELSE Draft(conn[c].tx)
    IN  /\ wal' = [wal EXCEPT !.f[old].val = val]
        /\ walDisk' = AlsoFrame(walDisk, old, wal'.f[old])
        /\ conn' = [conn EXCEPT ![c].todo = @ \ {p},
                ![c].iReCksum = IF @ = 0 \/ old < @ THEN old ELSE @]

\* A page that this transaction has written before replaces its frame there.
LEMMA OverwriteStep ==
  ASSUME IInv, NEW c \in Procs, NEW old \in Nat, NEW p,
         conn[c].pc \in {"frame1", "frames"}, p \in conn[c].todo,
         conn[c].iFirst > 0, conn[c].iFirst <= old, old <= conn[c].hdr.mxFrame,
         conn[c].commit => conn[c].todo # {p},
         Overwrites(c, old, p), UNCHANGED <<aHdr, nBackfill, aReadMark, nextTx, salts>>
  PROVE  IInv'
<1> PICK r : r = conn[c]
  OBVIOUS
<1>1. /\ Conn(r) /\ ConnOK(c) /\ r.writeLock /\ ~r.ckptLock /\ r.mi = 0
      /\ r.hdr.salt <= salts
      /\ Live.mxFrame <= r.hdr.mxFrame /\ r.hdr.mxFrame <= r.iFrame
      /\ r.iFrame > 0 \/ r.pc = "frame1" => Chained(wal, r)
      /\ r.pc = "frame1" => r.iFrame = 0
      /\ r.iReCksum # 0 => Live.mxFrame < r.iReCksum /\ r.iReCksum <= r.iFrame
      /\ r.iFirst = 0 \/ Live.mxFrame < r.iFirst
      /\ ~r.commit => r.iFirst = 0
      /\ r.hdr \in Hdr /\ r.hdr.mxFrame \in Nat /\ r.iFrame \in Nat /\ r.iReCksum \in Nat
      /\ r.iFirst \in Nat /\ Live.mxFrame \in Nat
  BY WriterFacts
<1>2. /\ old > 0 /\ old <= r.iFrame /\ Live.mxFrame < old /\ r.iFrame > 0
      /\ r.pc = "frames" /\ r.commit
  BY <1>1
<1>3. Extent(r) = r.iFrame /\ Chained(wal, r)
  BY <1>1, <1>2 DEF Extent
<1>v. PICK v \in Nat : v = IF r.commit THEN Final(r.tx) ELSE Draft(r.tx)
  <2>1. r.tx \in Nat
    BY <1>1 DEF Conn, ConnWith
  <2>2. 2 * r.tx \in Nat /\ 2 * r.tx + 1 \in Nat
    BY <2>1
  <2> QED BY <2>2 DEF Final, Draft
<1>4. /\ wal \in WalFile /\ wal.f \in Seq(Frame) /\ Len(wal.f) \in Nat /\ r.iFrame <= Len(wal.f)
      /\ walDisk \in [salt : SUBSET Nat, f : Seq(SUBSET Frame)] /\ wal.salt \in Nat
  BY <1>3 DEF IInv, Typed, WalFile, Chained
<1>5. old \in 1..Len(wal.f) /\ wal.f[old] \in Frame
  <2>1. PICK n \in Nat : n = Len(wal.f)
    BY <1>4
  <2>2. PICK i \in Nat : i = r.iFrame
    BY <1>1
  <2>3. old > 0 /\ old <= i /\ i <= n
    BY <1>2, <1>4, <2>1, <2>2
  <2>4. old \in 1..Len(wal.f)
    BY <2>1, <2>3
  <2> QED BY <1>4, <2>4, FrameOf
<1>g. PICK g : g = [wal.f[old] EXCEPT !.val = v]
  OBVIOUS
<1>6. g \in Frame
  BY <1>5, <1>g DEF Frame
<1>7. wal' = [wal EXCEPT !.f = [wal.f EXCEPT ![old] = g]]
  BY <1>4, <1>5, <1>v, <1>g DEF Overwrites, WalFile
<1>8. /\ wal' \in WalFile /\ wal'.salt = wal.salt /\ Len(wal'.f) = Len(wal.f)
      /\ wal'.f[old] = g /\ \A j \in 1..Len(wal.f) : j # old => wal'.f[j] = wal.f[j]
  <2>1. [wal.f EXCEPT ![old] = g] \in Seq(Frame) /\ Len([wal.f EXCEPT ![old] = g]) = Len(wal.f)
    BY <1>4, <1>5, <1>6
  <2>2. wal'.f = [wal.f EXCEPT ![old] = g] /\ wal'.salt = wal.salt
    BY <1>4, <1>7 DEF WalFile
  <2>3. wal' = [salt |-> wal.salt, f |-> [wal.f EXCEPT ![old] = g]]
    BY <1>4, <1>7 DEF WalFile
  <2>4. wal' \in WalFile
    BY <1>4, <2>1, <2>3 DEF WalFile
  <2> QED BY <1>4, <1>5, <2>1, <2>2, <2>4
<1>9. /\ walDisk' \in [salt : SUBSET Nat, f : Seq(SUBSET Frame)]
      /\ Len(walDisk'.f) = Len(wal'.f) /\ walDisk'.salt = walDisk.salt
  <2>1. walDisk' = AlsoFrame(walDisk, old, g)
    BY <1>8 DEF Overwrites
  <2>2. Len(walDisk.f) = Len(wal.f)
    BY <1>4, <1>5 DEF IInv, DiskOK
  <2> QED BY <1>2, <1>4, <1>5, <1>6, <1>8, <2>1, <2>2, AlsoFrameOK
<1>k. PICK k \in Nat : k = IF r.iReCksum = 0 \/ old < r.iReCksum THEN old ELSE r.iReCksum
  BY <1>1
<1>t. PICK t \in SUBSET Pages : t = r.todo \ {p}
  <2>1. r.todo \in SUBSET Pages
    BY <1>1 DEF Conn, ConnWith
  <2> QED BY <2>1
<1>10. k > 0 /\ k <= old /\ Live.mxFrame < k /\ k <= r.iFrame
       /\ (r.iReCksum # 0 => k <= r.iReCksum)
  BY <1>1, <1>2, <1>k
<1>11. t # {}
  BY <1>2, <1>t
<1> DEFINE s == [r EXCEPT !.todo = t, !.iReCksum = k]
<1>12. conn' = [conn EXCEPT ![c] = s]
  BY <1>1, <1>k, <1>t, ConnType DEF Overwrites
<1>13. Conn(s)
  BY <1>1 DEF Conn, ConnWith
<1>14. /\ s.pc = "frames" /\ s.hdr = r.hdr /\ s.mi = 0 /\ s.writeLock /\ ~s.ckptLock
       /\ s.excl = r.excl /\ s.readLock = r.readLock /\ s.tx = r.tx /\ s.iReCksum = k
       /\ s.iFirst = r.iFirst /\ s.commit = r.commit /\ s.todo = t /\ s.iFrame = r.iFrame
       /\ s.spilled = r.spilled
  BY <1>1, <1>2 DEF Conn, ConnWith
<1> HIDE DEF s
<1>15. Moved(c) /\ conn'[c] = s /\ Others(c)
  BY <1>12, <1>13, MoveTo
<1>16. Chained(wal', s)
  <2>1. Extent(s) = r.iFrame /\ Intact(s) = k - 1
    BY <1>10, <1>14 DEF Extent, Intact
  <2>2. \A i \in 1..(k - 1) : ValidFrame(wal, i)
    <3>1. k - 1 <= Intact(r) /\ Intact(r) \in Int
      BY <1>1, <1>2, <1>3, <1>10 DEF Intact
    <3> QED BY <1>3, <3>1 DEF Chained
  <2>3. \A j \in 1..(k - 1) : wal'.f[j] = wal.f[j]
    BY <1>4, <1>5, <1>8, <1>10
  <2>4. \A i \in 1..(k - 1) : ValidFrame(wal', i)
    <3>1. k - 1 \in Nat
      BY <1>10
    <3> QED BY <1>8, <2>2, <2>3, <3>1, ValidKept
  <2> QED BY <1>3, <1>4, <1>8, <1>10, <1>14, <2>1, <2>4 DEF Chained
<1>17. Live' = Live /\ aHdr' \in [{0, 1} -> Hdr] /\ Live \in Hdr
  BY ConnType DEF Live
<1>18. ConnOK(c)'
  <2>1. WriterOK(wal', walDisk', Live', s)
    BY <1>1, <1>2, <1>10, <1>11, <1>14, <1>16, <1>17 DEF WriterOK
  <2> QED BY <1>1, <1>14, <1>15, <2>1 DEF ConnOK, PlaceOK, RestartOK, CkptOK
<1>19. TakesOK(c) /\ NamesOK(c)
  BY <1>1, <1>14, <1>15 DEF TakesOK, NamesOK, Off
<1>20. SaltsDiffer' /\ BackfillOK'
  BY <1>2, <1>15, <1>17, <1>19, SaltsKept, BackfillKept DEF IInv, NamesOK
<1>21. Committed(wal, Live)' /\ DiskOK' /\ SaltsDrawn'
  <2>1. Committed(wal, Live)
    BY DEF IInv
  <2>2. Live.mxFrame <= Len(wal'.f) /\ \A j \in 1..Live.mxFrame : wal'.f[j] = wal.f[j]
    BY <1>1, <1>2, <1>4, <1>8
  <2>3. Committed(wal', Live)
    BY <1>8, <1>17, <2>1, <2>2, CommittedKept
  <2> QED BY <1>8, <1>9, <1>17, <2>3 DEF IInv, DiskOK, SaltsDrawn
<1>22. /\ aReadMark' \in [0..(NReader - 1) -> Nat]
       /\ nBackfill' \in Nat /\ nextTx' \in Nat \ {0} /\ salts' \in Nat /\ salts <= salts'
  BY DEF IInv, Typed
<1> QED BY <1>1, <1>8, <1>9, <1>15, <1>17, <1>18, <1>19, <1>20, <1>21, <1>22, OwnerStep

\* A frame of its own, behind those that the writer has written.
Appends(c, p) ==
    LET r    == conn[c]
        last == r.commit /\ r.todo = {p}
        val  == IF r.commit THEN Final(r.tx) ELSE Draft(r.tx)
        new  == EncodeFrame(r, [pg |-> p, val |-> val, trunc |-> last])
    IN  /\ wal' = [wal EXCEPT !.f = Put(@, r.iFrame + 1, new)]
        /\ walDisk' = AlsoFrame(walDisk, r.iFrame + 1, new)
        /\ conn' = [conn EXCEPT ![c].todo = @ \ {p}, ![c].iFrame = @ + 1,
                ![c].hdr.cksum = IF new.salt = 0 THEN @ ELSE new.cksum,
                ![c].pc = "frames"]

\* A new frame at the end of the transaction extends the running checksum.
LEMMA AppendStep ==
  ASSUME IInv, NEW c \in Procs, NEW p,
         conn[c].pc \in {"frame1", "frames"}, p \in conn[c].todo,
         conn[c].iFrame > 0 \/ conn[c].pc = "frame1",
         Appends(c, p), UNCHANGED <<aHdr, nBackfill, aReadMark, nextTx, salts>>
  PROVE  IInv'
<1> PICK r : r = conn[c]
  OBVIOUS
<1>1. /\ Conn(r) /\ ConnOK(c) /\ r.writeLock /\ ~r.ckptLock /\ r.mi = 0
      /\ r.hdr.salt <= salts
      /\ Live.mxFrame <= r.hdr.mxFrame /\ r.hdr.mxFrame <= r.iFrame
      /\ r.iFrame > 0 \/ r.pc = "frame1" => Chained(wal, r)
      /\ r.pc = "frame1" => r.iFrame = 0 /\ Len(walDisk.f) = Len(wal.f)
      /\ r.iReCksum # 0 => Live.mxFrame < r.iReCksum /\ r.iReCksum <= r.iFrame
      /\ r.iFirst = 0 \/ Live.mxFrame < r.iFirst
      /\ ~r.commit => r.spilled # {} /\ r.iFirst = 0 /\ r.iReCksum = 0
      /\ r.hdr \in Hdr /\ r.hdr.mxFrame \in Nat /\ r.iFrame \in Nat /\ r.iReCksum \in Nat
      /\ r.iFirst \in Nat /\ Live.mxFrame \in Nat
  BY WriterFacts
<1>n. PICK n \in Nat : n = r.iFrame
  BY <1>1
<1>2. Extent(r) = n /\ Chained(wal, r)
  BY <1>1, <1>n DEF Extent
<1>3. /\ wal \in WalFile /\ wal.f \in Seq(Frame) /\ Len(wal.f) \in Nat /\ n <= Len(wal.f)
      /\ walDisk \in [salt : SUBSET Nat, f : Seq(SUBSET Frame)]
      /\ wal.salt \in Nat /\ wal.salt > 0 /\ wal.salt = r.hdr.salt
  BY <1>2 DEF IInv, Typed, WalFile, Chained
<1>4. Len(walDisk.f) = Len(wal.f)
  <2>1. CASE r.pc = "frame1"
    BY <1>1, <2>1
  <2>2. CASE r.iFrame > 0
    <3>1. Len(wal.f) # 0
      BY <1>n, <1>3, <2>2
    <3> QED BY <1>3, <3>1 DEF IInv, DiskOK
  <2> QED BY <2>1, <2>2
<1>l. PICK last \in BOOLEAN : last = (r.commit /\ r.todo = {p})
  OBVIOUS
<1>v. PICK v \in Nat : v = IF r.commit THEN Final(r.tx) ELSE Draft(r.tx)
  <2>1. r.tx \in Nat
    BY <1>1 DEF Conn, ConnWith
  <2>2. 2 * r.tx \in Nat /\ 2 * r.tx + 1 \in Nat
    BY <2>1
  <2> QED BY <2>2 DEF Final, Draft
<1>t. PICK t \in SUBSET Pages : t = r.todo \ {p}
  <2>1. r.todo \in SUBSET Pages
    BY <1>1 DEF Conn, ConnWith
  <2> QED BY <2>1
<1>5. p \in Nat
  <2>1. r.todo \in SUBSET Pages
    BY <1>1 DEF Conn, ConnWith
  <2> QED BY <2>1, WritesAssumption DEF Pages
<1>b. PICK body : body = [pg |-> p, val |-> v, trunc |-> last]
  OBVIOUS
<1>w. PICK new : new = EncodeFrame(r, body)
  OBVIOUS
<1>6. body \in Bodies
  BY <1>5, <1>b DEF Bodies
<1>7. /\ new \in Frame /\ Body(new) = body /\ new.trunc = last
      /\ r.iReCksum = 0 => new.salt = wal.salt /\ new.cksum = Append(r.hdr.cksum, body)
      /\ r.iReCksum # 0 => new.salt = 0
  <2>1. r.hdr.cksum \in Seq(Bodies) /\ <<>> \in Seq(Bodies)
    BY <1>1 DEF Hdr
  <2>2. Append(r.hdr.cksum, body) \in Seq(Bodies)
    BY <1>6, <2>1
  <2>k. PICK k \in Seq(Bodies) : k = IF r.iReCksum = 0 THEN Append(r.hdr.cksum, body) ELSE <<>>
    BY <2>1, <2>2, Zenon
  <2>s. PICK sa \in Nat : sa = IF r.iReCksum = 0 THEN r.hdr.salt ELSE 0
    BY <1>3
  <2>3. new = [pg |-> p, val |-> v, trunc |-> last, salt |-> sa, cksum |-> k]
    BY <1>b, <1>w, <2>k, <2>s DEF EncodeFrame
  <2>4. new \in Frame
    BY <1>5, <2>3 DEF Frame
  <2> QED BY <1>3, <1>b, <2>3, <2>4, <2>k, <2>s DEF Body
<1>8. /\ wal' = [wal EXCEPT !.f = Put(wal.f, n + 1, new)]
      /\ walDisk' = AlsoFrame(walDisk, n + 1, new)
  BY <1>n, <1>l, <1>v, <1>b, <1>w DEF Appends
<1>9. /\ wal' \in WalFile /\ wal'.salt = wal.salt
      /\ Len(wal'.f) = IF n + 1 > Len(wal.f) THEN n + 1 ELSE Len(wal.f)
      /\ wal'.f[n + 1] = new
      /\ \A j \in 1..n : wal'.f[j] = wal.f[j]
  <2> PICK g : g = Put(wal.f, n + 1, new)
    OBVIOUS
  <2>1. /\ g \in Seq(Frame) /\ Len(g) = (IF n + 1 > Len(wal.f) THEN n + 1 ELSE Len(wal.f))
        /\ g[n + 1] = new /\ \A j \in 1..Len(wal.f) : j # n + 1 => g[j] = wal.f[j]
    <3>f. PICK f \in Seq(Frame) : f = wal.f
      BY <1>3
    <3>m. PICK m \in Nat \ {0} : m = n + 1
      OBVIOUS
    <3>1. m <= Len(f) + 1 /\ new \in Frame
      BY <1>3, <1>7, <3>f, <3>m
    <3>2. /\ Put(f, m, new) \in Seq(Frame)
          /\ Len(Put(f, m, new)) = IF m > Len(f) THEN m ELSE Len(f)
          /\ Put(f, m, new)[m] = new
          /\ \A j \in 1..Len(f) : j # m => Put(f, m, new)[j] = f[j]
      BY <3>1, PutOK
    <3> QED BY <3>f, <3>m, <3>2
  <2>2. \A j \in 1..n : j \in 1..Len(wal.f) /\ j # n + 1
    BY <1>3
  <2>3. wal' = [salt |-> wal.salt, f |-> g]
    BY <1>3, <1>8 DEF WalFile
  <2>4. wal' \in WalFile /\ wal'.salt = wal.salt /\ wal'.f = g
    BY <1>3, <2>1, <2>3 DEF WalFile
  <2> QED BY <2>1, <2>2, <2>4
<1>10. /\ walDisk' \in [salt : SUBSET Nat, f : Seq(SUBSET Frame)]
       /\ Len(walDisk'.f) = Len(wal'.f) /\ walDisk'.salt = walDisk.salt
  <2> PICK k \in Nat \ {0} : k = n + 1
    OBVIOUS
  <2> PICK disk : disk = AlsoFrame(walDisk, k, new)
    OBVIOUS
  <2>1. walDisk \in [salt : SUBSET Nat, f : Seq(SUBSET Frame)] /\ new \in Frame
    BY <1>3, <1>4, <1>7
  <2>2. /\ disk \in [salt : SUBSET Nat, f : Seq(SUBSET Frame)]
        /\ Len(disk.f) = (IF k > Len(walDisk.f) THEN k ELSE Len(walDisk.f))
        /\ disk.salt = walDisk.salt
    BY <2>1, AlsoFrameOK
  <2> QED BY <1>3, <1>4, <1>8, <1>9, <2>2
<1>k. PICK k : k = IF new.salt = 0 THEN r.hdr.cksum ELSE new.cksum
  OBVIOUS
<1>h. PICK h : h = [r.hdr EXCEPT !.cksum = k]
  OBVIOUS
<1>11. /\ h \in Hdr /\ h.salt = r.hdr.salt /\ h.mxFrame = r.hdr.mxFrame
       /\ r.iReCksum = 0 => h.cksum = Append(r.hdr.cksum, body)
  <2>1. r.hdr.cksum \in Seq(Bodies) /\ new.cksum \in Seq(Bodies)
    BY <1>1, <1>7 DEF Hdr, Frame
  <2>2. k \in Seq(Bodies)
    BY <1>k, <2>1
  <2>3. h \in Hdr /\ h.salt = r.hdr.salt /\ h.mxFrame = r.hdr.mxFrame /\ h.cksum = k
    BY <1>1, <1>h, <2>2 DEF Hdr
  <2>4. r.iReCksum = 0 => new.salt # 0
    BY <1>3, <1>7
  <2> QED BY <1>7, <1>k, <2>3, <2>4
<1>m. PICK m \in Nat : m = n + 1
  OBVIOUS
<1> DEFINE s == [r EXCEPT !.todo = t, !.iFrame = m, !.hdr = h, !.pc = "frames"]
<1>12. conn' = [conn EXCEPT ![c] = s]
  <2>1. conn' = [conn EXCEPT ![c].todo = @ \ {p}, ![c].iFrame = @ + 1,
                    ![c].hdr.cksum = IF new.salt = 0 THEN @ ELSE new.cksum,
                    ![c].pc = "frames"]
    BY <1>l, <1>v, <1>b, <1>w, Zenon DEF Appends
  <2>2. conn' = [conn EXCEPT ![c].todo = t, ![c].iFrame = m, ![c].hdr.cksum = k,
                             ![c].pc = "frames"]
    BY <1>1, <1>n, <1>k, <1>t, <1>m, <2>1, ConnType DEF Conn, ConnWith
  <2>3. conn' = [conn EXCEPT ![c] = [r EXCEPT !.todo = t, !.iFrame = m, !.pc = "frames",
                                              !.hdr = [r.hdr EXCEPT !.cksum = k]]]
    BY <2>2, ConnType DEF Conn, ConnWith
  <2> QED BY <1>1, <1>h, <2>3 DEF Conn, ConnWith
<1>13. Conn(s)
  BY <1>1, <1>11 DEF Conn, ConnWith, Places
<1>14. /\ s.pc = "frames" /\ s.hdr = h /\ s.mi = 0 /\ s.writeLock /\ ~s.ckptLock
       /\ s.excl = r.excl /\ s.readLock = r.readLock /\ s.tx = r.tx
       /\ s.iReCksum = r.iReCksum
       /\ s.iFirst = r.iFirst /\ s.commit = r.commit /\ s.todo = t /\ s.iFrame = m
       /\ s.spilled = r.spilled
  BY <1>1 DEF Conn, ConnWith
<1> HIDE DEF s
<1>15. Moved(c) /\ conn'[c] = s /\ Others(c)
  BY <1>12, <1>13, MoveTo
<1>16. \A i \in 1..Intact(r) : ValidFrame(wal', i)
  <2>1. Intact(r) \in Nat /\ \A j \in 1..Intact(r) : j \in 1..n
    BY <1>1, <1>2, <1>n DEF Intact
  <2>2. \A j \in 1..Intact(r) : wal'.f[j] = wal.f[j]
    BY <1>9, <2>1
  <2> QED BY <1>2, <1>9, <2>1, <2>2, ValidKept DEF Chained
<1>17. ASSUME r.iReCksum = 0
       PROVE  h.cksum = SumTo(wal', n + 1) /\ ValidFrame(wal', n + 1)
  <2>1. r.hdr.cksum = SumTo(wal, n) /\ r.hdr.cksum \in Seq(Bodies)
    BY <1>1, <1>2, <1>17 DEF Chained, Hdr
  <2>2. SumTo(wal', n) = SumTo(wal, n)
    <3>1. \A j \in 1..n : Body(wal'.f[j]) = Body(wal.f[j])
      BY <1>9
    <3>2. \A i \in 0..n : SumTo(wal', i) = SumTo(wal, i)
      BY <3>1, SumKept
    <3> QED BY <3>2
  <2>3. Body(wal'.f[n + 1]) = body
    BY <1>7, <1>9
  <2>4. Append(r.hdr.cksum, body) = SumTo(wal', n + 1)
    BY <1>6, <2>1, <2>2, <2>3, SumAppend
  <2>5. wal'.f[n + 1].salt = wal'.salt /\ wal'.f[n + 1].cksum = SumTo(wal', n + 1)
    BY <1>7, <1>9, <1>17, <2>4
  <2> QED BY <1>11, <1>17, <2>4, <2>5 DEF ValidFrame, SumTo
<1>18. Chained(wal', s)
  <2>1. Extent(s) = n + 1 /\ n + 1 <= Len(wal'.f)
    BY <1>3, <1>9, <1>14, <1>m DEF Extent
  <2>2. CASE r.iReCksum = 0
    <3>1. Intact(s) = n + 1 /\ Intact(r) = n
      BY <1>2, <1>14, <2>1, <2>2 DEF Intact
    <3>2. \A i \in 1..(n + 1) : ValidFrame(wal', i)
      BY <1>16, <1>17, <2>2, <3>1
    <3> QED BY <1>3, <1>9, <1>11, <1>14, <1>17, <2>1, <2>2, <3>1, <3>2 DEF Chained
  <2>3. CASE r.iReCksum # 0
    <3>1. Intact(s) = Intact(r)
      BY <1>14, <2>3 DEF Intact
    <3> QED BY <1>3, <1>9, <1>11, <1>14, <1>16, <2>1, <2>3, <3>1 DEF Chained
  <2> QED BY <2>2, <2>3
<1>19. Live' = Live /\ aHdr' \in [{0, 1} -> Hdr] /\ Live \in Hdr
  BY ConnType DEF Live
<1>20. ConnOK(c)'
  <2>1. r.commit /\ t = {} => wal'.f[m].trunc
    <3>1. t = {} => r.todo = {p}
      BY <1>t
    <3> QED BY <1>7, <1>9, <1>l, <1>m, <3>1
  <2>2. WriterOK(wal', walDisk', Live', s)
    BY <1>1, <1>n, <1>m, <1>11, <1>14, <1>18, <1>19, <2>1 DEF WriterOK
  <2> QED BY <1>1, <1>11, <1>14, <1>15, <2>2 DEF ConnOK, PlaceOK, RestartOK, CkptOK
<1>21. TakesOK(c) /\ NamesOK(c)
  BY <1>1, <1>11, <1>14, <1>15 DEF TakesOK, NamesOK, Off
<1>22. SaltsDiffer' /\ BackfillOK'
  BY <1>15, <1>19, <1>21, SaltsKept, BackfillKept DEF IInv, NamesOK
<1>23. Committed(wal, Live)' /\ DiskOK' /\ SaltsDrawn'
  <2>1. Committed(wal, Live)
    BY DEF IInv
  <2>2. Live.mxFrame <= n /\ Live.mxFrame \in Nat
    BY <1>1, <1>n
  <2>3. Live.mxFrame <= Len(wal'.f) /\ \A j \in 1..Live.mxFrame : wal'.f[j] = wal.f[j]
    BY <1>3, <1>9, <2>2
  <2>4. Committed(wal', Live)
    BY <1>9, <1>19, <2>1, <2>3, CommittedKept
  <2> QED BY <1>9, <1>10, <1>19, <2>4 DEF IInv, DiskOK, SaltsDrawn
<1>24. /\ aReadMark' \in [0..(NReader - 1) -> Nat]
       /\ nBackfill' \in Nat /\ nextTx' \in Nat \ {0} /\ salts' \in Nat /\ salts <= salts'
  BY DEF IInv, Typed
<1> QED BY <1>1, <1>9, <1>10, <1>15, <1>19, <1>20, <1>21, <1>22, <1>23, <1>24, OwnerStep

\* Either of the two ways to write a frame.
LEMMA WriteFrameStep == ASSUME IInv, NEW c \in Procs, WriteFrame(c) PROVE IInv'
<1> PICK r : r = conn[c]
  OBVIOUS
<1>p. PICK p : p = Min(r.todo)
  OBVIOUS
<1>o. PICK old : old = FindFrame(c, p)
  OBVIOUS
<1>l. PICK last \in BOOLEAN : last = (r.commit /\ r.todo = {p})
  OBVIOUS
<1>1. /\ r.pc \in {"frame1", "frames"} /\ (r.iFrame > 0 \/ r.pc = "frame1")
      /\ UNCHANGED <<aHdr, nBackfill, aReadMark, nextTx, salts>>
  BY DEF WriteFrame, HasWalHdr, index, bounds
<1>2. p \in r.todo
  <2>1. r.todo \in SUBSET Pages
    BY ConnType DEF Conn, ConnWith
  <2>2. r.todo \in SUBSET Nat
    BY <2>1, WritesAssumption DEF Pages
  <2>3. r.todo # {}
    BY DEF WriteFrame
  <2> QED BY <1>p, <2>2, <2>3, LeastOf
<1>3. old \in Nat /\ old <= r.hdr.mxFrame
  BY <1>o, FoundIn
<1>4. CASE r.iFirst > 0 /\ ~last /\ old >= r.iFirst
  <2>1. Overwrites(c, old, p)
    BY <1>p, <1>o, <1>l, <1>4 DEF WriteFrame, Overwrites
  <2>2. r.iFirst \in Nat
    BY ConnType DEF Conn, ConnWith
  <2>3. r.iFirst <= old /\ (r.commit => r.todo # {p})
    BY <1>3, <1>4, <1>l, <2>2
  <2> QED BY <1>1, <1>2, <1>3, <1>4, <2>1, <2>3, OverwriteStep
<1>5. CASE ~(r.iFirst > 0 /\ ~last /\ old >= r.iFirst)
  <2>1. Appends(c, p)
    BY <1>p, <1>o, <1>l, <1>5 DEF WriteFrame, Appends
  <2> QED BY <1>1, <1>2, <2>1, AppendStep
<1> QED BY <1>4, <1>5

\* A checksum that is computed again from where it is known to be right.
LEMMA SumJoined ==
  ASSUME NEW w \in WalFile, NEW k \in Nat \ {0}, NEW i \in Nat, k - 1 <= i, i <= Len(w.f)
  PROVE  /\ SumTo(w, i) \in Seq(Bodies)
         /\ SumTo(w, k - 1) \o [j \in 1..(i - k + 1) |-> Body(w.f[k + j - 1])] = SumTo(w, i)
<1>1. Len(w.f) \in Nat
  BY DEF WalFile
<1>2. \A j \in 1..i : Body(w.f[j]) \in Bodies
  <2> SUFFICES ASSUME NEW j \in 1..i PROVE Body(w.f[j]) \in Bodies
    OBVIOUS
  <2>1. j \in 1..Len(w.f)
    BY <1>1
  <2> QED BY <2>1, FrameOf
<1>g. PICK g : g = [j \in 1..i |-> Body(w.f[j])]
  OBVIOUS
<1>a. PICK a : a = [j \in 1..(k - 1) |-> Body(w.f[j])]
  OBVIOUS
<1>b. PICK b : b = [j \in 1..(i - k + 1) |-> Body(w.f[k + j - 1])]
  OBVIOUS
<1>3. g \in Seq(Bodies) /\ Len(g) = i
  <2>1. g \in [1..i -> Bodies]
    BY <1>2, <1>g
  <2> QED BY <2>1
<1>4. a \in Seq(Bodies) /\ Len(a) = k - 1
  <2>1. a \in [1..(k - 1) -> Bodies] /\ k - 1 \in Nat
    BY <1>2, <1>a
  <2> QED BY <2>1
<1>5. b \in Seq(Bodies) /\ Len(b) = i - k + 1
  <2>1. \A j \in 1..(i - k + 1) : k + j - 1 \in 1..i
    OBVIOUS
  <2>2. b \in [1..(i - k + 1) -> Bodies] /\ i - k + 1 \in Nat
    BY <1>2, <1>b, <2>1
  <2> QED BY <2>2
<1>6. a \o b \in Seq(Bodies) /\ Len(a \o b) = i
  BY <1>4, <1>5
<1>7. \A j \in 1..i : (a \o b)[j] = g[j]
  <2> SUFFICES ASSUME NEW j \in 1..i PROVE (a \o b)[j] = Body(w.f[j])
    BY <1>g
  <2>1. CASE j <= k - 1
    <3>1. (a \o b)[j] = a[j] /\ j \in 1..(k - 1)
      BY <1>4, <1>5, <2>1
    <3> QED BY <1>a, <3>1
  <2>2. CASE ~(j <= k - 1)
    <3>1. (a \o b)[j] = b[j - (k - 1)] /\ j - (k - 1) \in 1..(i - k + 1)
      BY <1>4, <1>5, <2>2
    <3>2. b[j - (k - 1)] = Body(w.f[k + (j - (k - 1)) - 1])
      BY <1>b, <3>1
    <3>3. k + (j - (k - 1)) - 1 = j
      OBVIOUS
    <3> QED BY <3>1, <3>2, <3>3
  <2> QED BY <2>1, <2>2
<1>8. a \o b = g
  BY <1>3, <1>6, <1>7, SeqEqual
<1> QED BY <1>3, <1>8, <1>a, <1>b, <1>g DEF SumTo

\* walRewriteChecksums: all frames of the transaction are valid again.
Resummed(w, k, n, sa) ==
    [i \in 1..Len(w.f) |-> IF i \in k..n THEN [w.f[i] EXCEPT !.salt = sa, !.cksum = SumTo(w, i)]
                           ELSE w.f[i]]
ResummedWal(w, k, n) == [w EXCEPT !.f = Resummed(w, k, n, w.salt)]

\* The salts and the cumulative checksums fit again up to the last frame.
LEMMA ResummedOK ==
  ASSUME NEW w \in WalFile, NEW k \in Nat \ {0}, NEW n \in Nat, k <= n, n <= Len(w.f),
         \A i \in 1..(k - 1) : ValidFrame(w, i)
  PROVE  /\ ResummedWal(w, k, n) \in WalFile /\ ResummedWal(w, k, n).salt = w.salt /\ Len(ResummedWal(w, k, n).f) = Len(w.f)
         /\ \A i \in 1..n : ValidFrame(ResummedWal(w, k, n), i)
         /\ \A i \in 1..(k - 1) : ResummedWal(w, k, n).f[i] = w.f[i]
         /\ ResummedWal(w, k, n).f[n].trunc = w.f[n].trunc
         /\ SumTo(ResummedWal(w, k, n), n) = SumTo(w, n)
<1>v. PICK v : v = ResummedWal(w, k, n)
  OBVIOUS
<1>1. Len(w.f) \in Nat /\ w.f \in Seq(Frame) /\ w.salt \in Nat
  BY DEF WalFile
<1>g. PICK g : g = Resummed(w, k, n, w.salt)
  OBVIOUS
<1>2. \A i \in 1..Len(w.f) :
        /\ g[i] \in Frame /\ Body(g[i]) = Body(w.f[i]) /\ g[i].trunc = w.f[i].trunc
        /\ i \in k..n => g[i].salt = w.salt /\ g[i].cksum = SumTo(w, i)
        /\ ~(i \in k..n) => g[i] = w.f[i]
  <2> SUFFICES ASSUME NEW i \in 1..Len(w.f)
               PROVE  /\ g[i] \in Frame /\ Body(g[i]) = Body(w.f[i]) /\ g[i].trunc = w.f[i].trunc
                      /\ i \in k..n => g[i].salt = w.salt /\ g[i].cksum = SumTo(w, i)
                      /\ ~(i \in k..n) => g[i] = w.f[i]
    OBVIOUS
  <2>1. w.f[i] \in Frame
    BY FrameOf
  <2>2. CASE i \in k..n
    <3>1. SumTo(w, i) \in Seq(Bodies)
      BY <1>1, <2>2, SumJoined
    <3>k. PICK e \in Seq(Bodies) : e = SumTo(w, i)
      BY <3>1
    <3>x. PICK x \in Frame : x = w.f[i]
      BY <2>1
    <3>s. PICK sa \in Nat : sa = w.salt
      BY <1>1
    <3>2. g[i] = [x EXCEPT !.salt = sa, !.cksum = e]
      BY <1>g, <2>2, <3>k, <3>x, <3>s DEF Resummed
    <3>3. g[i] \in Frame /\ g[i].salt = sa /\ g[i].cksum = e /\ g[i].trunc = x.trunc
          /\ g[i].pg = x.pg /\ g[i].val = x.val
      BY <3>2 DEF Frame
    <3> QED BY <2>2, <3>3, <3>k, <3>x, <3>s DEF Body
  <2>3. CASE ~(i \in k..n)
    <3>1. g[i] = w.f[i]
      BY <1>g, <2>3 DEF Resummed
    <3> QED BY <2>1, <2>3, <3>1
  <2> QED BY <2>2, <2>3
<1>3. g \in Seq(Frame) /\ Len(g) = Len(w.f)
  <2>1. g \in [1..Len(w.f) -> Frame]
    <3>1. g = [i \in 1..Len(w.f) |-> g[i]]
      BY <1>g DEF Resummed
    <3>2. \A i \in 1..Len(w.f) : g[i] \in Frame
      BY <1>2
    <3> QED BY <3>1, <3>2
  <2> QED BY <1>1, <2>1
<1>4. v \in WalFile /\ v.salt = w.salt /\ v.f = g
  <2>1. v = [salt |-> w.salt, f |-> g]
    BY <1>g, <1>v DEF WalFile, ResummedWal
  <2> QED BY <1>1, <1>3, <2>1 DEF WalFile
<1>5. \A i \in 0..n : SumTo(v, i) = SumTo(w, i)
  <2>1. \A j \in 1..n : Body(v.f[j]) = Body(w.f[j])
    BY <1>1, <1>2, <1>4
  <2> QED BY <2>1, SumKept
<1>6. \A i \in 1..n : ValidFrame(v, i)
  <2> SUFFICES ASSUME NEW i \in 1..n PROVE ValidFrame(v, i)
    OBVIOUS
  <2>1. i \in 1..Len(w.f) /\ SumTo(v, i) = SumTo(w, i)
    BY <1>1, <1>5
  <2>2. CASE i \in k..n
    BY <1>2, <1>4, <2>1, <2>2 DEF ValidFrame, SumTo
  <2>3. CASE ~(i \in k..n)
    <3>1. i \in 1..(k - 1)
      BY <2>3
    <3>2. ValidFrame(w, i)
      BY <3>1
    <3>3. v.f[i] = w.f[i]
      BY <1>2, <1>4, <2>1, <2>3
    <3> QED BY <1>4, <2>1, <3>2, <3>3 DEF ValidFrame, SumTo
  <2> QED BY <2>2, <2>3
<1>7. \A i \in 1..(k - 1) : v.f[i] = w.f[i]
  <2>1. \A i \in 1..(k - 1) : i \in 1..Len(w.f) /\ ~(i \in k..n)
    BY <1>1
  <2> QED BY <1>2, <1>4, <2>1
<1>8. v.f[n].trunc = w.f[n].trunc
  <2>1. n \in 1..Len(w.f)
    BY <1>1
  <2> QED BY <1>2, <1>4, <2>1
<1> QED BY <1>v, <1>3, <1>4, <1>5, <1>6, <1>7, <1>8

\* walRewriteChecksums: every frame of the transaction is valid again.
LEMMA RewriteChecksumsStep == ASSUME IInv, NEW c \in Procs, RewriteChecksums(c) PROVE IInv'
<1> PICK r : r = conn[c]
  OBVIOUS
<1>1. r.pc = "frames" /\ r.commit /\ r.iReCksum > 0
      /\ UNCHANGED <<aHdr, nBackfill, aReadMark, nextTx, salts>>
  BY DEF RewriteChecksums, index, bounds
<1>2. /\ Conn(r) /\ ConnOK(c) /\ r.writeLock /\ ~r.ckptLock /\ r.mi = 0
      /\ r.hdr.salt <= salts
      /\ Live.mxFrame <= r.hdr.mxFrame /\ r.hdr.mxFrame <= r.iFrame
      /\ r.iFrame > 0 \/ r.pc = "frame1" => Chained(wal, r)
      /\ r.iReCksum # 0 => Live.mxFrame < r.iReCksum /\ r.iReCksum <= r.iFrame
      /\ r.iFirst = 0 \/ Live.mxFrame < r.iFirst
      /\ r.hdr \in Hdr /\ r.hdr.mxFrame \in Nat /\ r.iFrame \in Nat /\ r.iReCksum \in Nat
      /\ r.iFirst \in Nat /\ Live.mxFrame \in Nat
  BY <1>1, WriterFacts
<1>k. PICK k \in Nat \ {0} : k = r.iReCksum
  BY <1>1, <1>2
<1>n. PICK n \in Nat : n = r.iFrame
  BY <1>2
<1>3. k <= n /\ Live.mxFrame < k
  BY <1>1, <1>2, <1>k, <1>n
<1>4. Extent(r) = n /\ Intact(r) = k - 1 /\ Chained(wal, r)
  BY <1>1, <1>2, <1>3, <1>k, <1>n DEF Extent, Intact
<1>5. /\ wal \in WalFile /\ wal.f \in Seq(Frame) /\ Len(wal.f) \in Nat /\ n <= Len(wal.f)
      /\ walDisk \in [salt : SUBSET Nat, f : Seq(SUBSET Frame)]
      /\ wal.salt \in Nat /\ wal.salt > 0 /\ wal.salt = r.hdr.salt
      /\ \A i \in 1..(k - 1) : ValidFrame(wal, i)
  BY <1>4 DEF IInv, Typed, WalFile, Chained
<1>6. Len(walDisk.f) = Len(wal.f)
  <2>1. Len(wal.f) # 0
    BY <1>3, <1>5
  <2> QED BY <1>5, <2>1 DEF IInv, DiskOK
<1>b. PICK base : base = IF k = 1 THEN <<>> ELSE wal.f[k - 1].cksum
  OBVIOUS
<1>7. base = SumTo(wal, k - 1)
  <2>1. CASE k = 1
    BY <1>b, <2>1 DEF SumTo
  <2>2. CASE k # 1
    <3>1. k - 1 \in 1..(k - 1)
      BY <2>2
    <3>2. ValidFrame(wal, k - 1)
      BY <1>5, <3>1
    <3> QED BY <1>b, <2>2, <3>2 DEF ValidFrame, SumTo
  <2> QED BY <2>1, <2>2
<1> DEFINE Sum(i) == base \o [j \in 1..(i - k + 1) |-> Body(wal.f[k + j - 1])]
<1>8. \A i \in k..n : Sum(i) = SumTo(wal, i)
  <2> SUFFICES ASSUME NEW i \in k..n PROVE Sum(i) = SumTo(wal, i)
    OBVIOUS
  <2>1. i \in Nat /\ k - 1 <= i /\ i <= Len(wal.f)
    BY <1>5
  <2> QED BY <1>5, <1>7, <2>1, SumJoined
<1>9. /\ wal' = [wal EXCEPT !.f = [i \in 1..Len(@) |->
                    IF i \in k..n THEN [@[i] EXCEPT !.salt = r.hdr.salt, !.cksum = Sum(i)]
                    ELSE @[i]]]
      /\ conn' = [conn EXCEPT ![c].iReCksum = 0, ![c].hdr.cksum = Sum(n)]
      /\ walDisk' = [walDisk EXCEPT !.f = [i \in 1..Len(@) |-> @[i] \cup {wal'.f[i]}]]
  BY <1>k, <1>n, <1>b DEF RewriteChecksums
<1> HIDE DEF Sum
<1>10. wal' = [wal EXCEPT !.f = Resummed(wal, k, n, wal.salt)]
  <2>1. [i \in 1..Len(wal.f) |->
            IF i \in k..n THEN [wal.f[i] EXCEPT !.salt = r.hdr.salt, !.cksum = Sum(i)]
            ELSE wal.f[i]] = Resummed(wal, k, n, wal.salt)
    BY <1>5, <1>8 DEF Resummed
  <2> QED BY <1>5, <1>9, <2>1 DEF WalFile
<1>11. /\ wal' \in WalFile /\ wal'.salt = wal.salt /\ Len(wal'.f) = Len(wal.f)
       /\ \A i \in 1..n : ValidFrame(wal', i)
       /\ \A i \in 1..(k - 1) : wal'.f[i] = wal.f[i]
       /\ wal'.f[n].trunc = wal.f[n].trunc
       /\ SumTo(wal', n) = SumTo(wal, n)
  <2>w. PICK w : w = wal'
    OBVIOUS
  <2>1. /\ wal \in WalFile /\ n <= Len(wal.f) /\ k <= n
        /\ \A i \in 1..(k - 1) : ValidFrame(wal, i)
    BY <1>3, <1>5
  <2>2. w = ResummedWal(wal, k, n)
    BY <1>10, <2>w DEF ResummedWal
  <2>3. /\ w \in WalFile /\ w.salt = wal.salt /\ Len(w.f) = Len(wal.f)
        /\ \A i \in 1..n : ValidFrame(w, i)
        /\ \A i \in 1..(k - 1) : w.f[i] = wal.f[i]
        /\ w.f[n].trunc = wal.f[n].trunc
        /\ SumTo(w, n) = SumTo(wal, n)
    BY <2>1, <2>2, ResummedOK
  <2> QED BY <2>w, <2>3, Zenon
<1>12. /\ walDisk' \in [salt : SUBSET Nat, f : Seq(SUBSET Frame)]
       /\ Len(walDisk'.f) = Len(wal'.f) /\ walDisk'.salt = walDisk.salt
  <2>g. PICK g : g = [i \in 1..Len(walDisk.f) |-> walDisk.f[i] \cup {wal'.f[i]}]
    OBVIOUS
  <2>d. PICK d \in Seq(SUBSET Frame) : d = walDisk.f
    BY <1>5
  <2>1. \A i \in 1..Len(d) : d[i] \in SUBSET Frame
    OBVIOUS
  <2>2. \A i \in 1..Len(d) : wal'.f[i] \in Frame
    <3> SUFFICES ASSUME NEW i \in 1..Len(d) PROVE wal'.f[i] \in Frame
      OBVIOUS
    <3>1. i \in 1..Len(wal'.f)
      BY <1>6, <1>11, <2>d
    <3> QED BY <1>11, <3>1, FrameOf
  <2>3. g \in [1..Len(d) -> SUBSET Frame]
    BY <2>g, <2>d, <2>1, <2>2
  <2>4. g \in Seq(SUBSET Frame) /\ Len(g) = Len(d)
    BY <2>3
  <2>5. walDisk' = [walDisk EXCEPT !.f = g]
    BY <1>9, <2>g
  <2> QED BY <1>5, <1>6, <1>11, <2>d, <2>4, <2>5
<1>13. SumTo(wal, n) \in Seq(Bodies)
  BY <1>3, <1>5, SumJoined
<1>e. PICK e \in Seq(Bodies) : e = SumTo(wal, n)
  BY <1>13
<1>h. PICK h : h = [r.hdr EXCEPT !.cksum = e]
  OBVIOUS
<1>14. h \in Hdr /\ h.salt = r.hdr.salt /\ h.mxFrame = r.hdr.mxFrame /\ h.cksum = e
  BY <1>2, <1>h DEF Hdr
<1>z. PICK z \in Nat : z = 0
  OBVIOUS
<1> DEFINE s == [r EXCEPT !.iReCksum = z, !.hdr = h]
<1>15. conn' = [conn EXCEPT ![c] = s]
  <2>1. Sum(n) = e
    BY <1>3, <1>8, <1>e
  <2>2. conn' = [conn EXCEPT ![c].iReCksum = z, ![c].hdr.cksum = e]
    BY <1>9, <1>z, <2>1
  <2>3. conn' = [conn EXCEPT ![c] = [r EXCEPT !.iReCksum = z,
                                          !.hdr = [r.hdr EXCEPT !.cksum = e]]]
    BY <1>2, <2>2, ConnType DEF Conn, ConnWith
  <2> QED BY <1>2, <1>h, <2>3 DEF Conn, ConnWith
<1>16. Conn(s)
  BY <1>2, <1>14 DEF Conn, ConnWith
<1>17. /\ s.pc = "frames" /\ s.hdr = h /\ s.mi = 0 /\ s.writeLock /\ ~s.ckptLock
       /\ s.excl = r.excl /\ s.readLock = r.readLock /\ s.tx = r.tx
       /\ s.iReCksum = 0 /\ s.commit
       /\ s.iFirst = r.iFirst /\ s.todo = r.todo /\ s.iFrame = n
  BY <1>1, <1>2, <1>n, <1>z DEF Conn, ConnWith
<1> HIDE DEF s
<1>18. Moved(c) /\ conn'[c] = s /\ Others(c)
  BY <1>15, <1>16, MoveTo
<1>19. Chained(wal', s)
  <2>1. Extent(s) = n /\ Intact(s) = n
    BY <1>17 DEF Extent, Intact
  <2> QED BY <1>5, <1>11, <1>14, <1>17, <1>e, <2>1 DEF Chained
<1>20. Live' = Live /\ aHdr' \in [{0, 1} -> Hdr] /\ Live \in Hdr
  BY <1>1, ConnType DEF Live
<1>21. ConnOK(c)'
  <2>1. r.todo = {} => wal'.f[n].trunc
    BY <1>1, <1>2, <1>11, <1>n DEF ConnOK, WriterOK
  <2>2. WriterOK(wal', walDisk', Live', s)
    BY <1>2, <1>3, <1>n, <1>14, <1>17, <1>19, <1>20, <2>1 DEF WriterOK
  <2> QED BY <1>1, <1>2, <1>14, <1>17, <1>18, <2>2 DEF ConnOK, PlaceOK, RestartOK, CkptOK
<1>22. TakesOK(c) /\ NamesOK(c)
  BY <1>1, <1>2, <1>14, <1>17, <1>18 DEF TakesOK, NamesOK, Off
<1>23. SaltsDiffer' /\ BackfillOK'
  BY <1>1, <1>18, <1>20, <1>22, SaltsKept, BackfillKept DEF IInv, NamesOK
<1>24. Committed(wal, Live)' /\ DiskOK' /\ SaltsDrawn'
  <2>1. Committed(wal, Live)
    BY DEF IInv
  <2>2. Live.mxFrame <= Len(wal'.f) /\ \A j \in 1..Live.mxFrame : wal'.f[j] = wal.f[j]
    BY <1>2, <1>3, <1>5, <1>11
  <2>3. Committed(wal', Live)
    BY <1>11, <1>20, <2>1, <2>2, CommittedKept
  <2> QED BY <1>1, <1>11, <1>12, <1>20, <2>3 DEF IInv, DiskOK, SaltsDrawn
<1>25. /\ aReadMark' \in [0..(NReader - 1) -> Nat]
       /\ nBackfill' \in Nat /\ nextTx' \in Nat \ {0} /\ salts' \in Nat /\ salts <= salts'
  BY <1>1 DEF IInv, Typed
<1> QED BY <1>2, <1>11, <1>12, <1>18, <1>20, <1>21, <1>22, <1>23, <1>24, <1>25, OwnerStep

\* A commit announces what it has written: frames that can be recovered.
LEMMA PublishHdr1Step == ASSUME IInv, NEW c \in Procs, PublishHdr1(c) PROVE IInv'
<1> PICK r : r = conn[c]
  OBVIOUS
<1>1. r.pc = "frames" /\ r.todo = {} /\ r.commit /\ r.iReCksum = 0
      /\ UNCHANGED <<wal, nBackfill, aReadMark, nextTx, salts>>
      /\ aHdr' = [aHdr EXCEPT ![1] = conn'[c].hdr]
  BY DEF PublishHdr1, bounds
<1>2. /\ Conn(r) /\ ConnOK(c) /\ r.writeLock /\ ~r.ckptLock /\ r.mi = 0
      /\ r.hdr.salt <= salts
      /\ Live.mxFrame <= r.hdr.mxFrame /\ r.hdr.mxFrame <= r.iFrame
      /\ r.iFrame > 0 \/ r.pc = "frame1" => Chained(wal, r)
      /\ r.hdr \in Hdr /\ r.hdr.mxFrame \in Nat /\ r.iFrame \in Nat /\ Live.mxFrame \in Nat
  BY <1>1, WriterFacts
<1>3. r.iFrame > 0 /\ wal.f[r.iFrame].trunc
  BY <1>1, <1>2 DEF ConnOK, WriterOK
<1>f. PICK y : y \in SyncModes
           /\ walDisk' = (IF y = "FULL" THEN SyncedWal(wal) ELSE walDisk)
           /\ conn' = [conn EXCEPT ![c].pc = "publish", ![c].synced = (y = "FULL"),
                           ![c].hdr.mxFrame = conn[c].iFrame, ![c].hdr.iChange = @ + 1]
  BY DEF PublishHdr1
<1>b. PICK b \in BOOLEAN : b = (y = "FULL")
  OBVIOUS
<1>n. PICK n \in Nat : n = r.iFrame
  BY <1>2
<1>i. PICK i \in Nat : i = r.hdr.iChange + 1
  BY <1>2 DEF Hdr
<1>h. PICK h : h = [r.hdr EXCEPT !.mxFrame = n, !.iChange = i]
  OBVIOUS
<1>4. h \in Hdr /\ h.salt = r.hdr.salt /\ h.mxFrame = n /\ h.cksum = r.hdr.cksum
  BY <1>2, <1>h DEF Hdr
<1> DEFINE x == [r EXCEPT !.pc = "publish", !.hdr = h]
           s == [x EXCEPT !.synced = b]
<1>5. conn' = [conn EXCEPT ![c] = s]
  <2>1. conn' = [conn EXCEPT ![c].pc = "publish", ![c].synced = b,
                             ![c].hdr.mxFrame = n, ![c].hdr.iChange = i]
    BY <1>2, <1>f, <1>b, <1>n, <1>i, ConnType DEF Conn, ConnWith, Hdr
  <2>2. conn' = [conn EXCEPT ![c] = [r EXCEPT !.pc = "publish", !.synced = b,
                                        !.hdr = [r.hdr EXCEPT !.mxFrame = n, !.iChange = i]]]
    <3>1. conn = [d \in Procs |-> conn[d]]
      BY ConnType
    <3> QED BY <2>1, <3>1
  <2> QED BY <1>2, <1>h, <2>2 DEF Conn, ConnWith
<1>6. Conn(x)
  BY <1>2, <1>4 DEF Conn, ConnWith, Places
<1>7. /\ x.pc = "publish" /\ x.hdr = h /\ x.mi = 0 /\ x.writeLock /\ ~x.ckptLock
      /\ x.excl = r.excl /\ x.readLock = r.readLock /\ x.iReCksum = 0
  BY <1>1, <1>2 DEF Conn, ConnWith
<1> HIDE DEF x
<1>8. Conn(s)
  BY <1>6 DEF Conn, ConnWith
<1>9. /\ s.pc = "publish" /\ s.hdr = h /\ s.mi = 0 /\ s.writeLock /\ ~s.ckptLock
      /\ s.excl = r.excl /\ s.readLock = r.readLock /\ s.iReCksum = 0
  BY <1>6, <1>7 DEF Conn, ConnWith
<1> HIDE DEF s
<1>10. Moved(c) /\ conn'[c] = s
  BY <1>5, <1>8, MoveTo
<1>11. LogSame /\ Live' = Live
  <2>1. aHdr' \in [{0, 1} -> Hdr] /\ Live' = Live
    BY <1>1, <1>4, <1>9, <1>10, ConnType DEF Live
  <2> QED BY <1>1, <1>f, <2>1, ConnType DEF LogSame
<1>12. Committed(wal, h)
  <2>1. Extent(r) = n /\ Intact(r) = n /\ Chained(wal, r)
    BY <1>1, <1>2, <1>3, <1>n DEF Extent, Intact
  <2> QED BY <1>1, <1>3, <1>4, <1>n, <2>1 DEF Chained, Committed
<1>13. ConnOK(c)'
  <2>1. Live.mxFrame <= h.mxFrame
    BY <1>2, <1>4, <1>n
  <2>2. WriterOK(wal', walDisk', Live', s)
    BY <1>1, <1>9, <1>11, <1>12, <2>1 DEF WriterOK
  <2> QED BY <1>1, <1>2, <1>4, <1>9, <1>10, <2>2 DEF ConnOK, PlaceOK, RestartOK, CkptOK
<1>14. TakesOK(c) /\ NamesOK(c)
  BY <1>1, <1>2, <1>4, <1>9, <1>10 DEF TakesOK, NamesOK, Off
<1> QED BY <1>1, <1>10, <1>11, <1>13, <1>14, QuietStep

\* The commit: a checkpointer that looks at this log finds it longer than it was.
LEMMA PublishHdr0Step == ASSUME IInv, NEW c \in Procs, PublishHdr0(c) PROVE IInv'
<1> PICK r : r = conn[c]
  OBVIOUS
<1>1. /\ Conn(r) /\ ConnOK(c) /\ r.pc = "publish" /\ Live \in Hdr
      /\ UNCHANGED <<wal, walDisk, nBackfill, aReadMark, nextTx, salts>>
      /\ aHdr' = [aHdr EXCEPT ![0] = r.hdr]
  BY ConnType DEF PublishHdr0, files, bounds
<1>2. /\ r.writeLock /\ ~r.ckptLock /\ r.hdr.salt <= salts
      /\ Live.mxFrame <= r.hdr.mxFrame /\ Committed(wal, r.hdr)
  BY <1>1 DEF ConnOK, PlaceOK, WriterOK
<1>3. /\ r.hdr \in Hdr /\ r.readLock \in Int /\ r.minFrame \in Nat
      /\ r.hdr.mxFrame \in Nat /\ Live.mxFrame \in Nat /\ nBackfill \in Nat
  BY <1>1, ConnType DEF Conn, ConnWith, Hdr
<1>4. Live' = r.hdr /\ aHdr' \in [{0, 1} -> Hdr]
  BY <1>1, <1>3, ConnType DEF Live
<1>y. PICK y : y = LET new == [p \in Pages |-> ReadPage(c, p)]
                       own == {Draft(r.tx), Final(r.tx)}
                   IN  [p \in Pages |-> IF new[p] \in own THEN new[p] ELSE r.cache[p]]
  OBVIOUS
<1>s. PICK s : s = Holding(Rest("read", r.hdr, y), r.readLock, r.minFrame)
  OBVIOUS
<1>5. conn' = [conn EXCEPT ![c] = s]
  BY <1>y, <1>s DEF PublishHdr0, Holding
<1>6. /\ Conn(s)
      /\ s.pc = "read" /\ s.hdr = r.hdr /\ ~s.writeLock /\ ~s.ckptLock /\ ~s.excl
      /\ s.readLock = r.readLock /\ s.mi = 0 /\ s.tx = 0 /\ s.iReCksum = 0
  <2>1. "read" \in Places
    BY DEF Places
  <2> QED BY <1>3, <1>s, <2>1, RestReading
<1>7. Moved(c) /\ conn'[c] = s /\ Others(c)
  BY <1>5, <1>6, MoveTo
<1>8. \A d \in Procs \ {c} : ~conn[d].writeLock
  BY <1>2 DEF IInv, LocksOK
<1>9. ASSUME NEW d \in Procs \ {c}, conn[d].ckptLock
      PROVE  /\ conn[d].pc = "copy" => conn[d].mxSafe <= Live'.mxFrame
             /\ conn[d].pc # "copy" /\ Live'.salt = conn[d].hdr.salt =>
                    conn[d].hdr.mxFrame <= Live'.mxFrame
  <2>1. Conn(conn[d]) /\ ConnOK(d) /\ ~conn[d].writeLock
    BY <1>8, ConnType
  <2>2. conn[d].mxSafe \in Nat /\ conn[d].hdr.mxFrame \in Nat
    BY <2>1 DEF Conn, ConnWith, Hdr
  <2>3. ASSUME conn[d].pc = "copy" PROVE conn[d].mxSafe <= Live'.mxFrame
    <3>1. conn[d].mxSafe <= Live.mxFrame
      BY <2>1, <2>3 DEF ConnOK, CkptOK
    <3> QED BY <1>2, <1>3, <1>4, <2>2, <3>1
  <2>4. ASSUME conn[d].pc # "copy", Live'.salt = conn[d].hdr.salt
        PROVE  conn[d].hdr.mxFrame <= Live'.mxFrame
    <3>1. Live.salt = r.hdr.salt
      BY <1>2, <1>4, <1>9, <2>4 DEF IInv, SaltsDiffer
    <3>2. conn[d].pc \in {"ckpt", "ckmark", "ckstart"}
      <4>1. conn[d].pc \in Places /\ PlaceOK(salts, conn[d]) /\ WriterOK(wal, walDisk, Live, conn[d])
            /\ ~Closed.ckptLock
        BY <2>1 DEF Conn, ConnWith, ConnOK, Closed, Rest
      <4> QED BY <1>9, <2>1, <2>4, <4>1 DEF Places, PlaceOK
    <3>3. conn[d].hdr.mxFrame <= Live.mxFrame
      BY <1>4, <2>1, <2>4, <3>1, <3>2 DEF ConnOK, CkptOK
    <3> QED BY <1>2, <1>3, <1>4, <2>2, <3>3
  <2> QED BY <2>3, <2>4
<1>10. ConnOK(c)'
  BY <1>1, <1>2, <1>6, <1>7 DEF ConnOK, PlaceOK, WriterOK, RestartOK, CkptOK
<1>11. TakesOK(c)
  BY <1>1, <1>6, <1>7 DEF TakesOK, Off
<1>12. SaltsDiffer'
  BY <1>6, <1>7, <1>8 DEF SaltsDiffer, Others
<1>13. BackfillOK'
  <2>1. ASSUME NEW d \in Procs PROVE conn[d].pc # "rst"
    <3>1. conn[d].pc = "rst" => conn[d].writeLock
      BY ConnType DEF ConnOK, PlaceOK
    <3> QED BY <1>1, <1>8, <3>1
  <2>2. nBackfill <= Live.mxFrame
    BY <2>1 DEF IInv, BackfillOK
  <2> QED BY <1>1, <1>2, <1>3, <1>4, <2>2 DEF BackfillOK
<1>14. Committed(wal, Live)' /\ DiskOK' /\ SaltsDrawn'
  BY <1>1, <1>2, <1>4 DEF IInv, DiskOK, SaltsDrawn
<1>15. /\ wal' \in WalFile /\ walDisk' \in [salt : SUBSET Nat, f : Seq(SUBSET Frame)]
       /\ aReadMark' \in [0..(NReader - 1) -> Nat]
       /\ nBackfill' \in Nat /\ nextTx' \in Nat \ {0} /\ salts' \in Nat /\ salts <= salts'
  BY <1>1 DEF IInv, Typed
<1> QED BY <1>2, <1>4, <1>7, <1>9, <1>10, <1>11, <1>12, <1>13, <1>14, <1>15, OwnerStep

------------------------------------------------------------------------------
(* All steps together                                                      *)

\* At the beginning every connection is closed and the log is empty.
LEMMA InitOK == Init => IInv
<1> SUFFICES ASSUME Init PROVE IInv
  OBVIOUS
<1>1. NoHdr \in Hdr /\ NoHdr.mxFrame = 0 /\ NoHdr.salt = 0
  BY ClosedType DEF NoHdr
<1>2. /\ wal \in WalFile /\ wal.f = <<>> /\ wal.salt = 0 /\ wal = NoWal
  BY NoWalType DEF Init
<1>3. walDisk \in [salt : SUBSET Nat, f : Seq(SUBSET Frame)] /\ walDisk.salt = {0}
  <2>1. [i \in 1..Len(wal.f) |-> {wal.f[i]}] \in Seq(SUBSET Frame)
    BY <1>2
  <2> QED BY <1>2, <2>1 DEF Init, SyncedWal
<1>4. aHdr \in [{0, 1} -> Hdr] /\ Live = NoHdr
  BY <1>1 DEF Init, Live
<1>5. nBackfill = 0 /\ nextTx \in Nat \ {0} /\ salts = 0
  BY DEF Init
<1>6. aReadMark \in [0..(NReader - 1) -> Nat]
  BY DEF Init
<1>7. \A c \in Procs : conn[c] = Closed
  BY DEF Init
<1>8. conn = [c \in Procs |-> conn[c]]
  BY DEF Init
<1>9. Conn(Closed) /\ Closed.pc = "off" /\ ~Closed.writeLock /\ ~Closed.ckptLock
      /\ ~Closed.excl /\ Closed.hdr = NoHdr /\ Closed.readLock # 0 /\ Closed.mi = 0
      /\ Closed.tx = 0 /\ Closed.iReCksum = 0
  BY ClosedType DEF Closed, Rest
<1>10. Typed
  BY <1>2, <1>3, <1>4, <1>5, <1>6, <1>7, <1>8, <1>9 DEF Typed
<1>11. DiskOK
  BY <1>2 DEF DiskOK
<1>12. Committed(wal, Live)
  BY <1>1, <1>4 DEF Committed
<1>13. LocksOK /\ CopyAlone /\ SaltsDiffer
  BY <1>7, <1>9 DEF LocksOK, CopyAlone, SaltsDiffer, Off
<1>14. SaltsDrawn
  BY <1>1, <1>2, <1>3, <1>4, <1>5 DEF SaltsDrawn
<1>15. BackfillOK
  BY <1>1, <1>4, <1>5 DEF BackfillOK
<1>16. ASSUME NEW c \in Procs PROVE ConnOK(c)
  BY <1>1, <1>5, <1>7, <1>9 DEF ConnOK, PlaceOK, WriterOK, RestartOK, CkptOK
<1> QED BY <1>10, <1>11, <1>12, <1>13, <1>14, <1>15, <1>16 DEF IInv

\* A step that changes nothing keeps everything.
LEMMA Stutter == ASSUME IInv, UNCHANGED vars PROVE IInv'
<1>1. /\ wal' = wal /\ walDisk' = walDisk /\ aHdr' = aHdr /\ nBackfill' = nBackfill
      /\ aReadMark' = aReadMark /\ conn' = conn /\ nextTx' = nextTx /\ salts' = salts
  BY DEF vars, files, index, bounds
<1>2. Live' = Live
  BY <1>1 DEF Live
<1>3. Typed' /\ DiskOK'
  BY <1>1 DEF IInv, Typed, DiskOK
<1>4. Committed(wal, Live)' /\ LocksOK' /\ CopyAlone' /\ SaltsDiffer' /\ SaltsDrawn' /\ BackfillOK'
  BY <1>1, <1>2 DEF IInv, LocksOK, CopyAlone, SaltsDiffer, SaltsDrawn, BackfillOK, Off
<1>5. \A c \in Procs : ConnOK(c)'
  BY <1>1, <1>2 DEF IInv, ConnOK
<1> QED BY <1>3, <1>4, <1>5 DEF IInv

\* Every step keeps the invariant, as long as nobody dies inside walRestartHdr.
LEMMA StepOK == ASSUME CrashInRestart = FALSE, IInv, [Next]_vars PROVE IInv'
<1>1. ASSUME NEW c \in Procs,
             \/ Open(c) \/ Leave(c) \/ UnlinkIndex(c) \/ UnlinkWal(c) \/ Crash(c)
      PROVE  IInv'
  BY <1>1, OpenStep, LeaveStep, UnlinkIndexStep, UnlinkWalStep, CrashStep
<1>2. ASSUME NEW c \in Procs, RecoverHdr(c) \/ RecoverInfo(c) PROVE IInv'
  BY <1>2, RecoverHdrStep, RecoverInfoStep
<1>3. ASSUME NEW c \in Procs,
             ReadHdr(c) \/ ChooseMark(c) \/ LockZero(c) \/ LockMark(c) \/ EndRead(c)
      PROVE  IInv'
  BY <1>3, ReadHdrStep, ChooseMarkStep, LockZeroStep, LockMarkStep, EndReadStep
<1>4. ASSUME NEW c \in Procs, BeginWrite(c) \/ RestartHdr(c) \/ RestartInfo(c)
      PROVE  IInv'
  BY <1>4, BeginWriteStep, RestartHdrStep, RestartInfoStep
<1>5. ASSUME NEW c \in Procs, WriteWalHdr(c) \/ WriteFrame(c) \/ RewriteChecksums(c)
      PROVE  IInv'
  BY <1>5, WriteWalHdrStep, WriteFrameStep, RewriteChecksumsStep
<1>6. ASSUME NEW c \in Procs, FinishSpill(c) \/ PublishHdr1(c) \/ PublishHdr0(c) \/ Undo(c)
      PROVE  IInv'
  BY <1>6, FinishSpillStep, PublishHdr1Step, PublishHdr0Step, UndoStep
<1>7. ASSUME NEW c \in Procs,
             \/ CkptNothing(c) \/ CkptMark(c) \/ CkptStart(c) \/ CkptCopy(c)
             \/ CkptInterrupt(c)
      PROVE  IInv'
  BY <1>7, CkptNothingStep, CkptMarkStep, CkptStartStep, CkptCopyStep, CkptInterruptStep
<1>8. ASSUME NEW c \in Procs, CkptDone(c) \/ CkptRestart(c) \/ CkptTruncate(c) \/ CkptEnd(c)
      PROVE  IInv'
  BY <1>8, CkptDoneStep, CkptRestartStep, CkptTruncateStep, CkptEndStep
<1>9. ASSUME NEW c \in Procs, NEW why, RecoverFrames(c, why) PROVE IInv'
  BY <1>9, RecoverFramesStep
<1>10. ASSUME NEW c \in Procs, NEW S \in Spills \cup Commits, NEW isCommit \in BOOLEAN,
              StartFrames(c, S, isCommit)
       PROVE  IInv'
  BY <1>10, StartFramesStep
<1>11. ASSUME NEW c \in Procs, NEW m \in Modes, NEW closing \in BOOLEAN,
              CkptBegin(c, m, closing)
       PROVE  IInv'
  BY <1>11, CkptBeginStep
<1>12. CASE PowerFailure
  BY <1>12, PowerStep
<1>13. CASE UNCHANGED vars
  BY <1>13, Stutter
<1> QED BY <1>1, <1>2, <1>3, <1>4, <1>5, <1>6, <1>7, <1>8, <1>9, <1>10, <1>11, <1>12, <1>13
        DEF Next

\* The inductive invariant: what each connection may hold, know and have
\* written, at every place of its operations and after any failure.
THEOREM Invariance == ASSUME CrashInRestart = FALSE PROVE Spec => []IInv
<1>1. Init => IInv
  BY InitOK
<1>2. IInv /\ [Next]_vars => IInv'
  BY StepOK
<1> QED BY <1>1, <1>2, PTL DEF Spec

\* nBackfill is never greater than the number of frames of the wal-index while
\* nobody writes: what a checkpointer copies is always a part of the log, however
\* many writers have extended, restarted or emptied it in between.
THEOREM BackfillWithin == ASSUME CrashInRestart = FALSE PROVE Spec => []BackfillWithinLog
<1>1. ASSUME IInv PROVE BackfillWithinLog
  <2>1. \A c \in Procs : conn[c].pc = "rst" => conn[c].writeLock
    BY <1>1 DEF IInv, ConnOK, PlaceOK
  <2> QED BY <1>1, <2>1 DEF IInv, BackfillOK, BackfillWithinLog, WriteLockFree
<1> QED BY <1>1, Invariance, PTL

\* Every frame that the wal-index calls committed would be found again in the WAL
\* file, whoever may have died or failed: salts and cumulative checksums hold up to
\* there, after overwritten frames, repaired checksums and restarts alike.
THEOREM CommitsRecovered == ASSUME CrashInRestart = FALSE PROVE Spec => []CommitsSurvive
<1>1. ASSUME IInv PROVE CommitsSurvive
  <2>1. wal \in WalFile /\ Live \in Hdr /\ Committed(wal, Live)
    BY <1>1 DEF IInv, Typed, Live
  <2> QED BY <2>1, RecoversLog DEF CommitsSurvive
<1> QED BY <1>1, Invariance, PTL

------------------------------------------------------------------------------
(* Readers                                                                 *)

\* The last frame that a connection may read: what it sees of the log ends at the
\* header it has read, for a writer at the live one.
TopOf(live, r) == IF r.writeLock THEN live.mxFrame ELSE r.hdr.mxFrame

\* Frame j is the newest of page p among the first m.
Latest(f, p, j, m) == j \in 1..m /\ f[j].pg = p /\ \A i \in (j + 1)..m : f[i].pg # p

\* Of a page whose newest frame among the first m is one of the first n, the
\* database holds what that frame does.
DbHolds(f, base, n, m) ==
    \A p \in Pages, j \in 1..n : Latest(f, p, j, m) => base[p] = f[j].val

\* The wal-index names the page of each of the first n frames.
Indexed(f, ix, n) == \A i \in 1..n : ix[i] = f[i].pg

\* Where a connection has a read lock.
LockOK(r) ==
    /\ r.readLock \in -1..(NReader - 1)
    /\ r.readLock # -1 =>
           /\ r.pc \in {"read", "write", "frame1", "frames", "publish", "rst0", "rst"}
           /\ ~r.ckptLock
    /\ r.pc \in {"rst0", "rst", "trunc"} => r.readLock <= 0
    /\ r.pc = "mark" => r.mv <= r.hdr.mxFrame

\* A connection that reads frames: its snapshot is a part of the log, its mark is
\* not beyond it, and the frames before the first that it looks for are copied.
ReaderOK(f, base, live, marks, r) == r.readLock > 0 =>
    /\ TopOf(live, r) <= live.mxFrame
    /\ r.minFrame >= 1 /\ r.minFrame - 1 <= TopOf(live, r)
    /\ marks[r.readLock] <= TopOf(live, r)
    /\ DbHolds(f, base, r.minFrame - 1, TopOf(live, r))

\* The frames that a writer or a recovery has entered in the index.
EntersOK(f, ix, r) ==
    r.pc \in {"write", "begin", "mark", "frame1", "frames", "publish", "rec0"} /\ r.writeLock
        => r.hdr.mxFrame <= Len(f) /\ Indexed(f, ix, r.hdr.mxFrame)

\* What a checkpointer has copied and still has to copy.
CopyOK(f, base, n, live, r) == r.pc = "copy" =>
    /\ r.hdr.mxFrame <= live.mxFrame /\ r.mxSafe <= r.hdr.mxFrame
    /\ \A p \in Pages \ r.todo, j \in (n + 1)..r.mxSafe :
           Latest(f, p, j, r.hdr.mxFrame) => base[p] = f[j].val
    /\ \A p \in r.todo : \E j \in (n + 1)..r.mxSafe : Latest(f, p, j, r.hdr.mxFrame)

\* A checkpointer that looks at the live log.
Looks(live, r) == \/ r.pc \in {"ckpt", "ckmark", "ckstart"} /\ r.hdr.salt = live.salt
                  \/ r.pc = "copy"
Passed(r, i) == r.pc \in {"ckstart", "copy"} \/ (r.pc = "ckmark" /\ i <= r.mi)
Behind(live, r, q) == Looks(live, r) /\ q.readLock > 0 =>
    /\ q.minFrame - 1 <= r.hdr.mxFrame
    /\ Passed(r, q.readLock) => r.mxSafe <= TopOf(live, q)

SomeRestart == \E c \in Procs : conn[c].pc = "rst"
RConnOK(c) ==
    /\ LockOK(conn[c])
    /\ ReaderOK(wal.f, db, Live, aReadMark, conn[c])
    /\ EntersOK(wal.f, aPgno, conn[c])
    /\ CopyOK(wal.f, db, nBackfill, Live, conn[c])
    /\ Looks(Live, conn[c]) => nBackfill <= conn[c].hdr.mxFrame \/ SomeRestart

NoReaders == \A c, d \in Procs : Restarting(c) => conn[d].readLock <= 0
RInv ==
    /\ Len(wal.f) <= MaxFrame /\ Len(walDisk.f) <= MaxFrame
    /\ aPgno \in [1..MaxFrame -> Nat]
    /\ db = [p \in Pages |-> db[p]]
    /\ Indexed(wal.f, aPgno, Live.mxFrame)
    /\ DbHolds(wal.f, db, nBackfill, Live.mxFrame)
    /\ NoReaders
    /\ \A c \in Procs : RConnOK(c)
    /\ \A c, d \in Procs : Behind(Live, conn[c], conn[d])

\* What a transaction reads stays as it is for as long as it holds its read lock, up
\* to its own commit.
Publishes(d) == conn[d].pc = "publish" /\ conn'[d].pc # "publish"
Stays(d) == /\ InTx(d) /\ InTx(d)' /\ ~Publishes(d)
            /\ conn[d].readLock >= 0 /\ conn'[d].readLock = conn[d].readLock
            => Snapshot(d)' = Snapshot(d)
SnapshotStays == [][\A d \in Procs : Stays(d)]_vars

\* The types of what the readers' invariant speaks of.
LEMMA RTypes ==
  ASSUME IInv
  PROVE  /\ wal.f \in Seq(Frame) /\ Len(wal.f) \in Nat
         /\ Live \in Hdr /\ Live.mxFrame \in Nat /\ Live.salt \in Nat
         /\ nBackfill \in Nat /\ Live.mxFrame <= Len(wal.f)
         /\ NReader \in Nat /\ NReader >= 2 /\ MaxFrame \in Nat
         /\ aReadMark \in [0..(NReader - 1) -> Nat]
         /\ \A d \in Procs :
                /\ Conn(conn[d]) /\ ConnOK(d)
                /\ conn[d].hdr \in Hdr /\ conn[d].hdr.mxFrame \in Nat
                /\ conn[d].hdr.salt \in Nat /\ conn[d].minFrame \in Nat
                /\ conn[d].readLock \in Int /\ conn[d].mi \in Nat /\ conn[d].mv \in Nat
                /\ conn[d].mxSafe \in Nat /\ conn[d].iFrame \in Nat
                /\ conn[d].todo \in SUBSET Pages
                /\ conn[d].writeLock \in BOOLEAN /\ conn[d].ckptLock \in BOOLEAN
<1>1. wal.f \in Seq(Frame) /\ Len(wal.f) \in Nat
  BY DEF IInv, Typed, WalFile
<1>2. Live \in Hdr /\ Live.mxFrame \in Nat /\ Live.salt \in Nat /\ nBackfill \in Nat
      /\ aReadMark \in [0..(NReader - 1) -> Nat]
  <2>1. Live \in Hdr /\ nBackfill \in Nat /\ aReadMark \in [0..(NReader - 1) -> Nat]
    BY DEF IInv, Typed, Live
  <2> QED BY <2>1 DEF Hdr
<1>3. Live.mxFrame <= Len(wal.f)
  BY <1>1, <1>2 DEF IInv, Committed
<1>4. ASSUME NEW d \in Procs
      PROVE  /\ Conn(conn[d]) /\ ConnOK(d)
             /\ conn[d].hdr \in Hdr /\ conn[d].hdr.mxFrame \in Nat
             /\ conn[d].hdr.salt \in Nat /\ conn[d].minFrame \in Nat
             /\ conn[d].readLock \in Int /\ conn[d].mi \in Nat /\ conn[d].mv \in Nat
             /\ conn[d].mxSafe \in Nat /\ conn[d].iFrame \in Nat
             /\ conn[d].todo \in SUBSET Pages
             /\ conn[d].writeLock \in BOOLEAN /\ conn[d].ckptLock \in BOOLEAN
  BY ConnType DEF Conn, ConnWith, Hdr
<1> QED BY <1>1, <1>2, <1>3, <1>4, NReaderAssumption, MaxFrameAssumption

\* The same, after a step, for what it says of the log.
LEMMA LogTypes ==
  ASSUME IInv'
  PROVE  /\ Live' \in Hdr /\ Live'.mxFrame \in Nat /\ Live'.salt \in Nat
         /\ nBackfill' \in Nat /\ Live'.mxFrame <= Len(wal'.f) /\ Len(wal'.f) \in Nat
         /\ aReadMark' \in [0..(NReader - 1) -> Nat]
         /\ \A d \in Procs : Conn(conn'[d]) /\ ConnOK(d)'
<1>1. wal' \in WalFile /\ aHdr' \in [{0, 1} -> Hdr] /\ nBackfill' \in Nat
      /\ aReadMark' \in [0..(NReader - 1) -> Nat] /\ \A d \in Procs : Conn(conn'[d])
  BY DEF IInv, Typed
<1>2. Live' \in Hdr /\ wal'.f \in Seq(Frame)
  BY <1>1 DEF Live, WalFile
<1>3. Live'.mxFrame \in Nat /\ Live'.salt \in Nat /\ Len(wal'.f) \in Nat
  BY <1>2 DEF Hdr
<1>4. Committed(wal', Live') /\ \A d \in Procs : ConnOK(d)'
  BY DEF IInv
<1> QED BY <1>1, <1>2, <1>3, <1>4 DEF Committed

\* A database that holds what the log says still does so when frames are appended.
LEMMA DbHoldsKept ==
  ASSUME NEW f, NEW g, NEW base, NEW n \in Nat, NEW m \in Nat, NEW k \in Nat, n <= m, m <= k,
         \A i \in 1..m : g[i].pg = f[i].pg /\ g[i].val = f[i].val,
         DbHolds(f, base, n, m)
  PROVE  DbHolds(g, base, n, k)
<1> SUFFICES ASSUME NEW p \in Pages, NEW j \in 1..n, Latest(g, p, j, k)
             PROVE  base[p] = g[j].val
  BY DEF DbHolds
<1>1. j \in 1..m
  OBVIOUS
<1>2. Latest(f, p, j, m)
  <2>1. \A i \in (j + 1)..m : i \in 1..m /\ i \in (j + 1)..k
    OBVIOUS
  <2> QED BY <1>1, <2>1 DEF Latest
<1> QED BY <1>1, <1>2 DEF DbHolds

\* A connection that goes on reading in a log that has grown at most.
LEMMA ReaderKept ==
  ASSUME NEW f, NEW g, NEW base, NEW live, NEW now, NEW marks, NEW new, NEW r, NEW s,
         live.mxFrame \in Nat, now.mxFrame \in Nat, live.mxFrame <= now.mxFrame,
         TopOf(live, r) \in Nat, TopOf(now, s) \in Nat, r.minFrame \in Nat,
         \A i \in 1..live.mxFrame : g[i].pg = f[i].pg /\ g[i].val = f[i].val,
         s.readLock > 0 =>
             /\ s.readLock = r.readLock /\ s.minFrame = r.minFrame
             /\ TopOf(live, r) <= TopOf(now, s) /\ TopOf(now, s) <= now.mxFrame
             /\ new[s.readLock] = marks[s.readLock] /\ marks[s.readLock] \in Nat,
         ReaderOK(f, base, live, marks, r)
  PROVE  ReaderOK(g, base, now, new, s)
<1> SUFFICES ASSUME s.readLock > 0
             PROVE  /\ TopOf(now, s) <= now.mxFrame
                    /\ s.minFrame >= 1 /\ s.minFrame - 1 <= TopOf(now, s)
                    /\ new[s.readLock] <= TopOf(now, s)
                    /\ DbHolds(g, base, s.minFrame - 1, TopOf(now, s))
  BY DEF ReaderOK
<1>1. /\ TopOf(live, r) <= live.mxFrame
      /\ r.minFrame >= 1 /\ r.minFrame - 1 <= TopOf(live, r)
      /\ marks[r.readLock] <= TopOf(live, r)
      /\ DbHolds(f, base, r.minFrame - 1, TopOf(live, r))
  BY DEF ReaderOK
<1> PICK t \in Nat : t = TopOf(live, r)
  OBVIOUS
<1> PICK u \in Nat : u = TopOf(now, s)
  OBVIOUS
<1> PICK n \in Nat : n = r.minFrame - 1
  BY <1>1
<1>2. n <= t /\ t <= u /\ t <= live.mxFrame
  BY <1>1
<1>3. \A i \in 1..t : g[i].pg = f[i].pg /\ g[i].val = f[i].val
  BY <1>2
<1>4. DbHolds(g, base, n, u)
  BY <1>1, <1>2, <1>3, DbHoldsKept
<1> QED BY <1>1, <1>2, <1>4

\* What a step may do to the log while others read it, copy it or look at it.
LogKeeps(c) ==
    /\ Len(wal'.f) <= MaxFrame /\ Len(walDisk'.f) <= MaxFrame
    /\ aPgno' \in [1..MaxFrame -> Nat]
    /\ db' = db
    /\ Live.mxFrame <= Live'.mxFrame
    /\ \A i \in 1..Live.mxFrame : wal'.f[i].pg = wal.f[i].pg /\ wal'.f[i].val = wal.f[i].val
    /\ Indexed(wal'.f, aPgno', Live'.mxFrame)
    /\ nBackfill' = nBackfill \/
           (nBackfill' = 0 /\ \A d \in Procs \ {c} : conn[d].pc # "copy")
    /\ conn[c].pc = "rst" /\ conn'[c].pc # "rst" => nBackfill' = 0
    /\ \A i \in 1..(NReader - 1) : aReadMark'[i] = aReadMark[i] \/ SharedOn(i) = {}
    /\ \A d \in Procs \ {c} : conn[d].writeLock =>
           wal' = wal /\ aPgno' = aPgno /\ Live'.mxFrame = Live.mxFrame
    /\ \/ Live'.salt = Live.salt
       \/ \A d \in Procs \ {c} : conn[d].ckptLock => conn[d].hdr.salt # Live'.salt

\* What a connection that does not move says about the log holds after the step.
LEMMA OthersRead ==
  ASSUME IInv, IInv', RInv, NEW c \in Procs, Others(c), LogKeeps(c), NEW d \in Procs \ {c}
  PROVE  RConnOK(d)'
<1> PICK r : r = conn[d]
  OBVIOUS
<1>1. conn'[d] = r /\ RConnOK(d)
  BY DEF Others, RInv
<1>2. /\ Live.mxFrame \in Nat /\ Live'.mxFrame \in Nat /\ Live.mxFrame <= Live'.mxFrame
      /\ r.hdr.mxFrame \in Nat /\ r.minFrame \in Nat /\ r.mxSafe \in Nat
      /\ nBackfill \in Nat /\ Live.mxFrame <= Len(wal.f)
  BY RTypes, LogTypes DEF LogKeeps
<1>3. LockOK(r)
  BY <1>1 DEF RConnOK
<1>4. ReaderOK(wal'.f, db', Live', aReadMark', r)
  <2>1. TopOf(Live, r) \in Nat /\ TopOf(Live', r) \in Nat /\ TopOf(Live, r) <= TopOf(Live', r)
    BY <1>2 DEF TopOf
  <2>2. ReaderOK(wal.f, db, Live, aReadMark, r)
    BY <1>1 DEF RConnOK
  <2>3. ASSUME r.readLock > 0
        PROVE  /\ aReadMark'[r.readLock] = aReadMark[r.readLock]
               /\ aReadMark[r.readLock] \in Nat
               /\ TopOf(Live', r) <= Live'.mxFrame
    <3>1. r.readLock \in 1..(NReader - 1) /\ r.readLock \in 0..(NReader - 1)
      BY <1>3, <2>3, RTypes DEF LockOK
    <3>2. SharedOn(r.readLock) # {}
      BY DEF SharedOn
    <3>3. TopOf(Live, r) <= Live.mxFrame
      BY <2>2, <2>3 DEF ReaderOK
    <3>4. TopOf(Live', r) <= Live'.mxFrame
      BY <1>2, <3>3 DEF TopOf
    <3> QED BY <3>1, <3>2, <3>4, RTypes DEF LogKeeps
  <2>4. db' = db /\ \A i \in 1..Live.mxFrame :
            wal'.f[i].pg = wal.f[i].pg /\ wal'.f[i].val = wal.f[i].val
    BY DEF LogKeeps
  <2> QED BY <1>2, <2>1, <2>2, <2>3, <2>4, ReaderKept
<1>5. EntersOK(wal'.f, aPgno', r)
  BY <1>1 DEF LogKeeps, RConnOK, EntersOK
<1>6. CopyOK(wal'.f, db', nBackfill', Live', r)
  <2> SUFFICES ASSUME r.pc = "copy" PROVE CopyOK(wal'.f, db, nBackfill, Live', r)
    BY DEF LogKeeps, CopyOK
  <2>1. CopyOK(wal.f, db, nBackfill, Live, r)
    BY <1>1 DEF RConnOK
  <2>2. /\ r.hdr.mxFrame <= Live.mxFrame /\ r.mxSafe <= r.hdr.mxFrame
        /\ \A p \in Pages \ r.todo, j \in (nBackfill + 1)..r.mxSafe :
               Latest(wal.f, p, j, r.hdr.mxFrame) => db[p] = wal.f[j].val
        /\ \A p \in r.todo : \E j \in (nBackfill + 1)..r.mxSafe :
               Latest(wal.f, p, j, r.hdr.mxFrame)
    BY <2>1 DEF CopyOK
  <2>3. \A i \in 1..r.hdr.mxFrame : wal'.f[i].pg = wal.f[i].pg /\ wal'.f[i].val = wal.f[i].val
    BY <1>2, <2>2 DEF LogKeeps
  <2>4. \A p, j : j \in (nBackfill + 1)..r.mxSafe =>
            /\ Latest(wal'.f, p, j, r.hdr.mxFrame) <=> Latest(wal.f, p, j, r.hdr.mxFrame)
            /\ wal'.f[j].val = wal.f[j].val
    <3> SUFFICES ASSUME NEW p, NEW j \in (nBackfill + 1)..r.mxSafe
                 PROVE  /\ Latest(wal'.f, p, j, r.hdr.mxFrame)
                               <=> Latest(wal.f, p, j, r.hdr.mxFrame)
                        /\ wal'.f[j].val = wal.f[j].val
      OBVIOUS
    <3>1. j \in 1..r.hdr.mxFrame /\ \A i \in (j + 1)..r.hdr.mxFrame : i \in 1..r.hdr.mxFrame
      BY <1>2, <2>2
    <3> QED BY <2>3, <3>1 DEF Latest
  <2>5. r.hdr.mxFrame <= Live'.mxFrame
    BY <1>2, <2>2
  <2> QED BY <2>2, <2>4, <2>5 DEF CopyOK
<1>7. Looks(Live', r) => nBackfill' <= r.hdr.mxFrame \/ SomeRestart'
  <2> SUFFICES ASSUME Looks(Live', r) PROVE nBackfill' <= r.hdr.mxFrame \/ SomeRestart'
    OBVIOUS
  <2>1. r.pc \in {"ckpt", "ckmark", "ckstart", "copy"} /\ r.ckptLock
    <3>1. r.pc \in {"ckpt", "ckmark", "ckstart", "copy"}
      BY DEF Looks
    <3> QED BY <3>1, RTypes DEF ConnOK, PlaceOK
  <2>2. Looks(Live, r)
    BY <2>1 DEF LogKeeps, Looks
  <2>3. CASE nBackfill <= r.hdr.mxFrame
    BY <1>2, <2>3 DEF LogKeeps
  <2>4. ASSUME NEW e \in Procs, conn[e].pc = "rst"
        PROVE  nBackfill' <= r.hdr.mxFrame \/ SomeRestart'
    <3>1. CASE e = c
      BY <1>2, <2>4, <3>1 DEF LogKeeps, SomeRestart
    <3>2. CASE e # c
      BY <2>4, <3>2 DEF Others, SomeRestart
    <3> QED BY <3>1, <3>2
  <2> QED BY <1>1, <2>2, <2>3, <2>4 DEF RConnOK, SomeRestart
<1> QED BY <1>1, <1>3, <1>4, <1>5, <1>6, <1>7 DEF RConnOK

\* What a connection reads of a page, as a function of what it looks at.
Found(ix, p, from, to) == Max({0} \cup {i \in from..to : i > 0 /\ ix[i] = p})
EndOf(live, r) == IF r.writeLock THEN Min({r.hdr.mxFrame, live.mxFrame}) ELSE r.hdr.mxFrame
SnapOf(f, ix, base, live, r) ==
    [p \in Pages |->
        LET i == IF r.readLock <= 0 THEN 0 ELSE Found(ix, p, r.minFrame, EndOf(live, r))
        IN  IF i = 0 THEN base[p] ELSE f[i].val]

\* The least of two numbers.
LEMMA LeastOfTwo ==
  ASSUME NEW a \in Nat, NEW b \in Nat, b <= a
  PROVE  Min({a, b}) = b
<1>1. Min({a, b}) \in {a, b} /\ \A y \in {a, b} : Min({a, b}) <= y
  BY LeastOf
<1> QED BY <1>1

\* A connection that reads frames ends where the log does for it.
LEMMA EndIsTop ==
  ASSUME NEW live, NEW r, NEW w, NEW disk, NEW n, r.hdr.mxFrame \in Nat, live.mxFrame \in Nat,
         r.writeLock \in BOOLEAN, r.readLock \in Int, r.readLock > 0, LockOK(r), PlaceOK(n, r),
         WriterOK(w, disk, live, r)
  PROVE  EndOf(live, r) = TopOf(live, r)
<1>1. CASE ~r.writeLock
  BY <1>1 DEF EndOf, TopOf
<1>2. CASE r.writeLock
  <2>0. r.readLock # -1 /\ ~(r.readLock <= 0)
    BY DEF LockOK
  <2>1. /\ r.pc \in {"read", "write", "frame1", "frames", "publish", "rst0", "rst"}
        /\ ~r.ckptLock /\ ~(r.pc \in {"rst0", "rst", "trunc"})
    BY <2>0 DEF LockOK
  <2>2. live.mxFrame <= r.hdr.mxFrame
    BY <1>2, <2>1 DEF PlaceOK, WriterOK
  <2> QED BY <1>2, <2>2, LeastOfTwo DEF EndOf, TopOf
<1> QED BY <1>1, <1>2

\* It reads the same as long as its part of the log and the pages of the database
\* that have no frame there stay.
LEMMA SnapKept ==
  ASSUME NEW f, NEW g, NEW ix, NEW iy, NEW base, NEW now, NEW live, NEW lv, NEW r, NEW s,
         NEW t, s.readLock = r.readLock,
         r.readLock <= 0 => now = base,
         ~(r.readLock <= 0) =>
             /\ t \in Nat /\ EndOf(live, r) = t /\ EndOf(lv, s) = t
             /\ s.minFrame = r.minFrame /\ r.minFrame \in Nat
             /\ \A i \in 1..t : iy[i] = ix[i] /\ g[i].val = f[i].val
             /\ \A p \in Pages : now[p] = base[p] \/ Found(ix, p, r.minFrame, t) # 0
  PROVE  SnapOf(g, iy, now, lv, s) = SnapOf(f, ix, base, live, r)
<1>1. CASE r.readLock <= 0
  BY <1>1 DEF SnapOf
<1>2. CASE ~(r.readLock <= 0)
  <2> SUFFICES ASSUME NEW p \in Pages
               PROVE  (IF Found(iy, p, r.minFrame, t) = 0 THEN now[p]
                       ELSE g[Found(iy, p, r.minFrame, t)].val)
                      = (IF Found(ix, p, r.minFrame, t) = 0 THEN base[p]
                         ELSE f[Found(ix, p, r.minFrame, t)].val)
    BY <1>2 DEF SnapOf
  <2> DEFINE S == {i \in r.minFrame..t : i > 0 /\ ix[i] = p}
  <2>1. S = {i \in r.minFrame..t : i > 0 /\ iy[i] = p}
    <3>1. \A i \in r.minFrame..t : i > 0 => i \in 1..t
      BY <1>2
    <3> QED BY <1>2, <3>1
  <2>2. Found(iy, p, r.minFrame, t) = Found(ix, p, r.minFrame, t)
    BY <2>1 DEF Found
  <2>3. {0} \cup S \in SUBSET (0..t) /\ {0} \cup S # {}
    BY <1>2
  <2>4. Max({0} \cup S) \in {0} \cup S
    <3> HIDE DEF S
    <3> QED BY <1>2, <2>3, GreatestOf
  <2>5. Found(ix, p, r.minFrame, t) \in 0..t
    BY <2>3, <2>4 DEF Found
  <2> QED BY <1>2, <2>2, <2>5
<1> QED BY <1>1, <1>2

\* The snapshot of the model is this function of the state.
LEMMA SnapshotIs ==
  ASSUME NEW d \in Procs
  PROVE  /\ Snapshot(d) = SnapOf(wal.f, aPgno, db, Live, conn[d])
         /\ Snapshot(d)' = SnapOf(wal'.f, aPgno', db', Live', conn'[d])
BY DEF Snapshot, SnapOf, ReadFrame, FindUpTo, Found, EndOf

\* A step that keeps the log of a transaction keeps what it reads.
LEMMA StaysIf ==
  ASSUME IInv, IInv', RInv, RInv', NEW d \in Procs,
         conn[d].readLock <= 0 => db' = db,
         InTx(d)' /\ ~Publishes(d) /\ conn[d].readLock > 0
                  /\ conn'[d].readLock = conn[d].readLock =>
             /\ conn'[d].minFrame = conn[d].minFrame
             /\ TopOf(Live', conn'[d]) = TopOf(Live, conn[d])
             /\ Live.mxFrame <= Live'.mxFrame
             /\ \A i \in 1..Live.mxFrame : wal'.f[i].pg = wal.f[i].pg /\ wal'.f[i].val = wal.f[i].val
             /\ \A p \in Pages : db'[p] = db[p]
                   \/ Found(aPgno, p, conn[d].minFrame, TopOf(Live, conn[d])) # 0
  PROVE  Stays(d)
<1> SUFFICES ASSUME InTx(d)', ~Publishes(d), conn'[d].readLock = conn[d].readLock
             PROVE  Snapshot(d)' = Snapshot(d)
  BY DEF Stays
<1> PICK r : r = conn[d]
  OBVIOUS
<1> PICK s : s = conn'[d]
  OBVIOUS
<1>1. /\ r.readLock \in Int /\ r.minFrame \in Nat /\ r.hdr.mxFrame \in Nat /\ r.writeLock \in BOOLEAN
      /\ Live.mxFrame \in Nat /\ Live'.mxFrame \in Nat
      /\ Conn(s) /\ ConnOK(d) /\ ConnOK(d)' /\ RConnOK(d) /\ RConnOK(d)'
  BY RTypes, LogTypes DEF RInv
<1>2. s.hdr.mxFrame \in Nat /\ s.writeLock \in BOOLEAN
  BY <1>1 DEF Conn, ConnWith, Hdr
<1>3. CASE r.readLock <= 0
  <2>1. SnapOf(wal'.f, aPgno', db', Live', s) = SnapOf(wal.f, aPgno, db, Live, r)
    BY <1>1, <1>3 DEF SnapOf
  <2> QED BY <2>1, SnapshotIs
<1>4. CASE r.readLock > 0
  <2> PICK t : t = TopOf(Live, r)
    OBVIOUS
  <2>1. /\ s.minFrame = r.minFrame /\ TopOf(Live', s) = t
        /\ Live.mxFrame <= Live'.mxFrame
        /\ \A i \in 1..Live.mxFrame : wal'.f[i].pg = wal.f[i].pg /\ wal'.f[i].val = wal.f[i].val
        /\ \A p \in Pages : db'[p] = db[p] \/ Found(aPgno, p, r.minFrame, t) # 0
    BY <1>4
  <2>2. EndOf(Live, r) = t
    BY <1>1, <1>4, EndIsTop DEF RConnOK, ConnOK
  <2>3. EndOf(Live', s) = t
    <3>1. LockOK(s) /\ PlaceOK(salts', s) /\ WriterOK(wal', walDisk', Live', s)
      BY <1>1 DEF RConnOK, ConnOK
    <3>2. EndOf(Live', s) = TopOf(Live', s)
      BY <1>1, <1>2, <1>4, <3>1, EndIsTop
    <3> QED BY <2>1, <3>2
  <2>4. t \in Nat /\ t <= Live.mxFrame
    BY <1>1, <1>4 DEF TopOf, RConnOK, ReaderOK
  <2>5. \A i \in 1..t : aPgno'[i] = aPgno[i] /\ wal'.f[i].val = wal.f[i].val
    <3>1. \A i \in 1..t : i \in 1..Live.mxFrame /\ i \in 1..Live'.mxFrame
      BY <1>1, <2>1, <2>4
    <3>2. Indexed(wal.f, aPgno, Live.mxFrame) /\ Indexed(wal'.f, aPgno', Live'.mxFrame)
      BY DEF RInv
    <3> QED BY <2>1, <3>1, <3>2 DEF Indexed
  <2>6. SnapOf(wal'.f, aPgno', db', Live', s) = SnapOf(wal.f, aPgno, db, Live, r)
    BY <1>1, <1>4, <2>1, <2>2, <2>3, <2>4, <2>5, SnapKept
  <2> QED BY <2>6, SnapshotIs
<1> QED BY <1>1, <1>3, <1>4

\* A step of one connection that keeps the log keeps what all of them read, when what
\* it says itself of the log holds, and when what it reads is not ahead of any
\* checkpointer and what it copies not ahead of any reader.
LEMMA RStep ==
  ASSUME IInv, IInv', RInv, NEW c \in Procs, Others(c), LogKeeps(c), RConnOK(c)',
         \A d \in Procs \ {c} :
             /\ Behind(Live', conn'[c], conn[d])
             /\ conn'[c].readLock # conn[c].readLock => Behind(Live', conn[d], conn'[c]),
         /\ conn'[c].readLock = conn[c].readLock /\ conn[c].readLock > 0 =>
                /\ conn'[c].minFrame = conn[c].minFrame
                /\ TopOf(Live, conn[c]) <= TopOf(Live', conn'[c])
                /\ ~Publishes(c) => TopOf(Live', conn'[c]) = TopOf(Live, conn[c])
         /\ Restarting(c)' => \A d \in Procs : conn'[d].readLock <= 0
         /\ conn'[c].readLock > 0 /\ conn[c].readLock <= 0 => \A d \in Procs \ {c} : ~Restarting(d)
         /\ conn'[c].readLock > 0 => conn'[c].readLock = conn[c].readLock \/ conn[c].readLock <= 0
  PROVE  RInv' /\ \A d \in Procs : Stays(d)
<1>1. /\ Live.mxFrame \in Nat /\ Live'.mxFrame \in Nat /\ Live.mxFrame <= Live'.mxFrame
      /\ nBackfill \in Nat /\ nBackfill' \in Nat
  BY RTypes, LogTypes DEF LogKeeps
<1>2. \A d \in Procs : RConnOK(d)'
  BY OthersRead
<1>3. DbHolds(wal'.f, db', nBackfill', Live'.mxFrame)
  <2>0. db' = db /\ \A i \in 1..Live.mxFrame :
            wal'.f[i].pg = wal.f[i].pg /\ wal'.f[i].val = wal.f[i].val
    BY DEF LogKeeps
  <2>1. CASE Live'.mxFrame = 0
    BY <2>1 DEF DbHolds, Latest
  <2>2. CASE nBackfill' = 0
    BY <2>2 DEF DbHolds
  <2>3. CASE nBackfill' = nBackfill /\ nBackfill <= Live.mxFrame
    <3>1. DbHolds(wal.f, db, nBackfill, Live.mxFrame)
      BY DEF RInv
    <3> QED BY <1>1, <2>0, <2>3, <3>1, DbHoldsKept
  <2>4. ASSUME NEW e \in Procs, conn[e].pc = "rst", nBackfill' # 0
        PROVE  Live'.mxFrame = 0
    <3>1. conn'[e].pc = "rst"
      BY <2>4 DEF Others, LogKeeps
    <3> QED BY <3>1 DEF IInv, ConnOK, RestartOK
  <2> QED BY <2>1, <2>2, <2>3, <2>4 DEF LogKeeps, IInv, BackfillOK
<1>4. NoReaders'
  <2> SUFFICES ASSUME NEW d \in Procs, NEW e \in Procs, Restarting(d)'
               PROVE  conn'[e].readLock <= 0
    BY DEF NoReaders
  <2>1. CASE d = c
    BY <2>1
  <2>2. CASE d # c
    <3>1. Restarting(d) /\ conn[e].readLock <= 0 /\ conn[c].readLock <= 0
      BY <2>2 DEF Others, Restarting, RInv, NoReaders
    <3>2. e # c => conn'[e] = conn[e]
      BY DEF Others
    <3>3. conn'[c].readLock <= 0
      <4>1. conn'[c].readLock \in Int
        BY LogTypes DEF Conn, ConnWith
      <4> QED BY <2>2, <3>1, <4>1
    <3> QED BY <3>1, <3>2, <3>3
  <2> QED BY <2>1, <2>2
<1>5. ASSUME NEW d \in Procs, NEW e \in Procs PROVE Behind(Live', conn'[d], conn'[e])
  <2> SUFFICES ASSUME Looks(Live', conn'[d]), conn'[e].readLock > 0
               PROVE  Behind(Live', conn'[d], conn'[e])
    BY DEF Behind
  <2>0. conn'[e].readLock \in Int /\ conn'[d].readLock \in Int
    BY LogTypes DEF Conn, ConnWith
  <2>1. CASE d = e
    <3>1. LockOK(conn'[d])
      BY <1>2 DEF RConnOK
    <3> QED BY <2>0, <2>1, <3>1 DEF LockOK, Looks
  <2>2. CASE d = c /\ e # c
    BY <2>2 DEF Others
  <2>3. CASE d # c /\ e = c /\ conn'[c].readLock # conn[c].readLock
    BY <2>3 DEF Others
  <2>4. CASE d # c /\ (e = c => conn'[c].readLock = conn[c].readLock)
    <3> PICK r : r = conn[d]
      OBVIOUS
    <3> PICK q : q = conn[e]
      OBVIOUS
    <3> PICK s : s = conn'[e]
      OBVIOUS
    <3>1. conn'[d] = r /\ Looks(Live, r)
      <4>1. conn'[d] = r
        BY <2>4 DEF Others
      <4>2. r.pc \in {"ckpt", "ckmark", "ckstart", "copy"}
        BY <4>1 DEF Looks
      <4>3. r.ckptLock
        BY <4>2, RTypes DEF ConnOK, PlaceOK
      <4> QED BY <2>4, <4>1, <4>3 DEF LogKeeps, Looks
    <3>2. /\ q.readLock = s.readLock /\ q.minFrame = s.minFrame
          /\ TopOf(Live, q) <= TopOf(Live', s)
          /\ TopOf(Live, q) \in Nat /\ TopOf(Live', s) \in Nat
      <4>1. q.hdr.mxFrame \in Nat /\ s.hdr.mxFrame \in Nat
        BY RTypes, LogTypes DEF Conn, ConnWith, Hdr
      <4>2. CASE e = c
        BY <1>1, <2>4, <4>1, <4>2 DEF TopOf
      <4>3. CASE e # c
        BY <1>1, <4>1, <4>3 DEF Others, TopOf
      <4> QED BY <4>2, <4>3
    <3>3. Behind(Live, r, q)
      BY DEF RInv
    <3>4. r.mxSafe \in Nat
      BY RTypes
    <3> QED BY <3>1, <3>2, <3>3, <3>4 DEF Behind
  <2> QED BY <2>1, <2>2, <2>3, <2>4
<1>6. RInv'
  <2>1. /\ Len(wal'.f) <= MaxFrame /\ Len(walDisk'.f) <= MaxFrame
        /\ aPgno' \in [1..MaxFrame -> Nat]
        /\ Indexed(wal'.f, aPgno', Live'.mxFrame)
        /\ db' = [p \in Pages |-> db'[p]]
    BY DEF LogKeeps, RInv
  <2> QED BY <1>2, <1>3, <1>4, <1>5, <2>1 DEF RInv
<1>7. ASSUME NEW d \in Procs PROVE Stays(d)
  <2>1. /\ db' = db /\ Live.mxFrame <= Live'.mxFrame
        /\ \A i \in 1..Live.mxFrame : wal'.f[i].pg = wal.f[i].pg /\ wal'.f[i].val = wal.f[i].val
    BY DEF LogKeeps
  <2>2. CASE d = c
    BY <1>6, <2>1, <2>2, StaysIf
  <2>3. ASSUME d # c, conn[d].readLock > 0
        PROVE  /\ conn'[d].minFrame = conn[d].minFrame
               /\ TopOf(Live', conn'[d]) = TopOf(Live, conn[d])
    <3>1. conn'[d] = conn[d]
      BY <2>3 DEF Others
    <3>2. CASE conn[d].writeLock
      <4>1. Live'.mxFrame = Live.mxFrame
        BY <2>3, <3>2 DEF LogKeeps
      <4> QED BY <3>1, <3>2, <4>1 DEF TopOf
    <3>3. CASE ~conn[d].writeLock
      BY <3>1, <3>3 DEF TopOf
    <3> QED BY <3>1, <3>2, <3>3
  <2>4. CASE d # c
    BY <1>6, <2>1, <2>3, <2>4, StaysIf
  <2> QED BY <2>2, <2>4
<1> QED BY <1>6, <1>7

\* The same for a connection that goes on reading as before, if it reads at all, and
\* neither copies nor looks at the log for a checkpoint.
GoesOn(live, now, r, s) ==
    /\ LockOK(s)
    /\ s.readLock > 0 =>
           /\ r.readLock = s.readLock /\ r.minFrame = s.minFrame
           /\ TopOf(live, r) <= TopOf(now, s) /\ TopOf(now, s) <= now.mxFrame
           /\ (r.pc = "publish" /\ s.pc # "publish") \/ TopOf(now, s) = TopOf(live, r)
    /\ ~(s.pc \in {"ckpt", "ckmark", "ckstart", "copy"})

\* Such a step keeps what everybody reads.
LEMMA RKept ==
  ASSUME IInv, IInv', RInv, NEW c \in Procs, Others(c), LogKeeps(c),
         GoesOn(Live, Live', conn[c], conn'[c]),
         EntersOK(wal'.f, aPgno', conn'[c]),
         Restarting(c)' => Restarting(c) \/ \A d \in Procs : conn[d].readLock <= 0
  PROVE  RInv' /\ \A d \in Procs : Stays(d)
<1> PICK r : r = conn[c]
  OBVIOUS
<1> PICK s : s = conn'[c]
  OBVIOUS
<1>1. /\ GoesOn(Live, Live', r, s) /\ RConnOK(c) /\ Conn(s)
      /\ Live.mxFrame \in Nat /\ Live'.mxFrame \in Nat
      /\ r.hdr.mxFrame \in Nat /\ r.minFrame \in Nat /\ r.readLock \in Int
  BY RTypes, LogTypes DEF RInv
<1>2. s.hdr.mxFrame \in Nat /\ s.readLock \in Int
  BY <1>1 DEF Conn, ConnWith, Hdr
<1>3. ReaderOK(wal'.f, db', Live', aReadMark', s)
  <2>1. TopOf(Live, r) \in Nat /\ TopOf(Live', s) \in Nat
    BY <1>1, <1>2 DEF TopOf
  <2>2. ASSUME s.readLock > 0
        PROVE  aReadMark'[s.readLock] = aReadMark[s.readLock] /\ aReadMark[s.readLock] \in Nat
    <3>1. s.readLock = r.readLock /\ LockOK(s)
      BY <1>1, <2>2 DEF GoesOn
    <3>2. s.readLock \in 1..(NReader - 1) /\ s.readLock \in 0..(NReader - 1)
      BY <2>2, <3>1, RTypes DEF LockOK
    <3>3. SharedOn(s.readLock) # {}
      BY <3>1 DEF SharedOn
    <3> QED BY <3>2, <3>3, RTypes DEF LogKeeps
  <2>3. /\ db' = db /\ Live.mxFrame <= Live'.mxFrame
        /\ \A i \in 1..Live.mxFrame : wal'.f[i].pg = wal.f[i].pg /\ wal'.f[i].val = wal.f[i].val
        /\ ReaderOK(wal.f, db, Live, aReadMark, r)
    BY <1>1 DEF LogKeeps, RConnOK
  <2> QED BY <1>1, <2>1, <2>2, <2>3, ReaderKept DEF GoesOn
<1>4. ~Looks(Live', s) /\ s.pc # "copy"
  BY <1>1 DEF GoesOn, Looks
<1>5. RConnOK(c)'
  BY <1>1, <1>3, <1>4 DEF RConnOK, CopyOK, GoesOn
<1>6. \A d \in Procs \ {c} : /\ Behind(Live', s, conn[d])
                             /\ s.readLock # r.readLock => Behind(Live', conn[d], s)
  BY <1>1, <1>4 DEF Behind, GoesOn
<1>7. r.readLock > 0 /\ s.readLock = r.readLock =>
          /\ s.minFrame = r.minFrame /\ TopOf(Live, r) <= TopOf(Live', s)
          /\ ~Publishes(c) => TopOf(Live', s) = TopOf(Live, r)
  BY <1>1 DEF GoesOn, Publishes
<1>8. s.readLock > 0 => s.readLock = r.readLock
  BY <1>1 DEF GoesOn
<1>9. ASSUME Restarting(c)' PROVE \A d \in Procs : conn'[d].readLock <= 0
  <2>1. \A d \in Procs : conn[d].readLock <= 0
    BY <1>9 DEF RInv, NoReaders
  <2>2. ~(s.readLock > 0)
    BY <1>1, <1>8, <2>1
  <2> QED BY <1>2, <2>1, <2>2 DEF Others
<1> QED BY <1>1, <1>2, <1>5, <1>6, <1>7, <1>8, <1>9, RStep

------------------------------------------------------------------------------
(* Readers: steps that leave the log alone                                 *)

\* A step that leaves the log and its frames in the index alone, and moves no mark
\* that somebody uses.
LEMMA LogStill ==
  ASSUME IInv, RInv, NEW c \in Procs, conn[c].pc # "rst",
         db' = db, wal' = wal, Live' = Live, aPgno' = aPgno, nBackfill' = nBackfill,
         walDisk' = walDisk \/ Len(walDisk'.f) = Len(wal.f),
         \A i \in 1..(NReader - 1) : aReadMark'[i] = aReadMark[i] \/ SharedOn(i) = {}
  PROVE  LogKeeps(c)
BY RTypes DEF LogKeeps, RInv

\* The same, when nothing shared changes at all.
LEMMA LogUnmoved ==
  ASSUME IInv, RInv, NEW c \in Procs, conn[c].pc # "rst", UNCHANGED <<files, index>>
  PROVE  LogKeeps(c) /\ Live' = Live
<1>1. /\ db' = db /\ wal' = wal /\ Live' = Live /\ aPgno' = aPgno /\ nBackfill' = nBackfill
      /\ walDisk' = walDisk /\ aReadMark' = aReadMark
  BY DEF files, index, Live
<1> QED BY <1>1, LogStill

\* A connection that comes to hold no read lock, and does not restart the log.
LEMMA RIdle ==
  ASSUME IInv, IInv', RInv, NEW c \in Procs, Others(c), LogKeeps(c),
         conn'[c].readLock = -1, ~conn'[c].writeLock,
         conn'[c].pc \in {"off", "idle", "begin", "unlink", "unlinkwal"}
  PROVE  RInv' /\ \A d \in Procs : Stays(d)
<1>1. GoesOn(Live, Live', conn[c], conn'[c])
  <2>1. -1 \in -1..(NReader - 1) /\ ~(-1 > 0)
    BY NReaderAssumption
  <2> QED BY <2>1 DEF GoesOn, LockOK
<1>2. EntersOK(wal'.f, aPgno', conn'[c]) /\ ~Restarting(c)'
  BY DEF EntersOK, Restarting
<1> QED BY <1>1, <1>2, RKept

\* A connection that closes or dies.
LEMMA RClosed ==
  ASSUME IInv, IInv', RInv, NEW c \in Procs, LogKeeps(c), conn' = [conn EXCEPT ![c] = Closed]
  PROVE  RInv' /\ \A d \in Procs : Stays(d)
<1>1. Others(c) /\ conn'[c] = Closed
  BY ClosedType, MoveTo
<1>2. Closed.readLock = -1 /\ ~Closed.writeLock /\ Closed.pc = "off"
  BY DEF Closed, Rest
<1> QED BY <1>1, <1>2, RIdle

\* A connection that leaves, not being the last.
LEMMA RLeave ==
  ASSUME IInv, IInv', RInv, NEW c \in Procs, Leave(c)
  PROVE  RInv' /\ \A d \in Procs : Stays(d)
BY LogUnmoved, RClosed DEF Leave

\* The process of a connection dies, anywhere but inside walRestartHdr.
LEMMA RCrash ==
  ASSUME CrashInRestart = FALSE, IInv, IInv', RInv, NEW c \in Procs, Crash(c)
  PROVE  RInv' /\ \A d \in Procs : Stays(d)
BY LogUnmoved, RClosed DEF Crash

\* A read transaction ends.
LEMMA REndRead ==
  ASSUME IInv, IInv', RInv, NEW c \in Procs, EndRead(c)
  PROVE  RInv' /\ \A d \in Procs : Stays(d)
<1> PICK s : s = Rest("idle", conn[c].hdr, conn[c].cache)
  OBVIOUS
<1>1. Conn(s)
  BY RTypes, RestType DEF Places
<1>2. conn' = [conn EXCEPT ![c] = s]
  BY DEF EndRead
<1>3. Others(c) /\ conn'[c] = s
  BY <1>1, <1>2, MoveTo
<1>4. s.readLock = -1 /\ ~s.writeLock /\ s.pc = "idle"
  BY RestFields
<1>5. LogKeeps(c)
  BY LogUnmoved DEF EndRead
<1> QED BY <1>3, <1>4, <1>5, RIdle

\* Who stands where no read lock is held has none.
LEMMA NoLockAt ==
  ASSUME IInv, RInv, NEW c \in Procs,
         conn[c].pc \notin {"read", "write", "frame1", "frames", "publish", "rst0", "rst"}
  PROVE  conn[c].readLock = -1
<1>1. LockOK(conn[c])
  BY DEF RInv, RConnOK
<1> QED BY <1>1 DEF LockOK

\* A reader takes a copy of the header.
LEMMA RReadHdr ==
  ASSUME IInv, IInv', RInv, NEW c \in Procs, ReadHdr(c)
  PROVE  RInv' /\ \A d \in Procs : Stays(d)
<1> PICK r : r = conn[c]
  OBVIOUS
<1>y. PICK y : y = IF r.hdr = Live THEN r.cache ELSE NoCache
  OBVIOUS
<1> DEFINE s == [r EXCEPT !.pc = "begin", !.hdr = Live, !.cache = y]
<1>1. Conn(r) /\ r.pc = "idle" /\ ~r.writeLock /\ Live \in Hdr
  BY RTypes DEF ReadHdr, ConnOK, PlaceOK
<1>2. conn' = [conn EXCEPT ![c] = s]
  BY <1>y, ConnType DEF ReadHdr
<1>3. Conn(s)
  BY <1>1 DEF Conn, ConnWith, Places
<1>4. s.pc = "begin" /\ ~s.writeLock /\ s.readLock = r.readLock
  BY <1>1 DEF Conn, ConnWith
<1>5. r.readLock = -1
  BY <1>1, NoLockAt
<1> HIDE DEF s
<1>6. Others(c) /\ conn'[c] = s
  BY <1>2, <1>3, MoveTo
<1>7. LogKeeps(c)
  BY <1>1, LogUnmoved DEF ReadHdr
<1> QED BY <1>4, <1>5, <1>6, <1>7, RIdle

\* A reader of the newest state becomes the writer: its part of the log ends where it did.
LEMMA RBeginWrite ==
  ASSUME IInv, IInv', RInv, NEW c \in Procs, BeginWrite(c)
  PROVE  RInv' /\ \A d \in Procs : Stays(d)
<1> PICK r : r = conn[c]
  OBVIOUS
<1> DEFINE s == [r EXCEPT !.pc = "write", !.writeLock = TRUE]
<1>1. /\ Conn(r) /\ r.pc = "read" /\ ~r.writeLock /\ ~r.ckptLock /\ r.hdr = Live
      /\ RConnOK(c) /\ Live.mxFrame \in Nat /\ Live.mxFrame <= Len(wal.f)
  BY RTypes DEF BeginWrite, ConnOK, PlaceOK, RInv
<1>2. conn' = [conn EXCEPT ![c] = s]
  BY ConnType DEF BeginWrite
<1>3. Conn(s)
  BY <1>1 DEF Conn, ConnWith, Places
<1>4. s.pc = "write" /\ s.writeLock /\ ~s.ckptLock /\ s.readLock = r.readLock
      /\ s.hdr = Live /\ s.minFrame = r.minFrame
  BY <1>1 DEF Conn, ConnWith
<1> HIDE DEF s
<1>5. Others(c) /\ conn'[c] = s
  BY <1>2, <1>3, MoveTo
<1>6. LogKeeps(c) /\ Live' = Live /\ wal' = wal /\ aPgno' = aPgno
  BY <1>1, LogUnmoved DEF BeginWrite, files, index
<1>7. LockOK(s)
  BY <1>1, <1>4 DEF RConnOK, LockOK
<1>8. GoesOn(Live, Live', r, s)
  BY <1>1, <1>4, <1>6, <1>7 DEF GoesOn, TopOf
<1>9. EntersOK(wal'.f, aPgno', s)
  BY <1>1, <1>4, <1>6 DEF EntersOK, RInv
<1> QED BY <1>4, <1>5, <1>6, <1>8, <1>9, RKept DEF Restarting

\* A connection that still has no read lock, and keeps what it has entered.
LEMMA RTry ==
  ASSUME IInv, IInv', RInv, NEW c \in Procs, Others(c), LogKeeps(c),
         wal' = wal, aPgno' = aPgno,
         conn'[c].readLock = -1, conn'[c].pc \in {"idle", "begin", "mark"},
         conn'[c].pc = "mark" => conn'[c].mv <= conn'[c].hdr.mxFrame,
         conn'[c].writeLock => /\ conn[c].writeLock /\ conn[c].pc \in {"begin", "mark"}
                               /\ conn'[c].hdr = conn[c].hdr
  PROVE  RInv' /\ \A d \in Procs : Stays(d)
<1>1. -1 \in -1..(NReader - 1) /\ ~(-1 > 0)
  BY NReaderAssumption
<1>2. GoesOn(Live, Live', conn[c], conn'[c])
  BY <1>1 DEF GoesOn, LockOK
<1>3. EntersOK(wal'.f, aPgno', conn'[c])
  <2>1. EntersOK(wal.f, aPgno, conn[c])
    BY DEF RInv, RConnOK
  <2> QED BY <2>1 DEF EntersOK
<1>4. ~Restarting(c)'
  BY DEF Restarting
<1> QED BY <1>2, <1>3, <1>4, RKept

\* The mark that is chosen is not beyond the header, and moves only when nobody uses it.
LEMMA MarkChosen ==
  ASSUME IInv, NEW c \in Procs
  PROVE  /\ Largest(c) # 0 => aReadMark[Largest(c)] <= conn[c].hdr.mxFrame
         /\ Free # {} => SharedOn(Min(Free)) = {}
<1>1. ASSUME Largest(c) # 0 PROVE aReadMark[Largest(c)] <= conn[c].hdr.mxFrame
  <2> DEFINE T == {i \in Usable(c) : \A j \in Usable(c) : aReadMark[j] <= aReadMark[i]}
             V == {aReadMark[i] : i \in Usable(c)}
             n == conn[c].hdr.mxFrame
  <2>0. NReader \in Nat /\ NReader - 1 \in Nat /\ n \in Nat /\ Usable(c) # {}
        /\ Usable(c) \in SUBSET (0..(NReader - 1))
    BY <1>1, RTypes DEF Largest, Usable
  <2>1. V \in SUBSET (0..n) /\ V # {}
    <3>1. \A i \in Usable(c) : aReadMark[i] \in Nat /\ aReadMark[i] <= n
      BY <2>0, ConnType DEF Usable
    <3>2. \A i \in Usable(c) : aReadMark[i] \in 0..n
      BY <2>0, <3>1
    <3> QED BY <2>0, <3>2
  <2>2. PICK v \in V : \A y \in V : y <= v
    <3> HIDE DEF V, n
    <3> QED BY <2>0, <2>1, GreatestOf
  <2>3. T \in SUBSET (0..(NReader - 1)) /\ T # {}
    BY <2>0, <2>2
  <2>4. Max(T) \in T
    <3> HIDE DEF T
    <3> QED BY <2>0, <2>3, GreatestOf
  <2>5. Largest(c) = Max(T)
    BY <2>0 DEF Largest
  <2>6. Largest(c) \in Usable(c)
    <3>1. Largest(c) \in T
      <4> HIDE DEF T
      <4> QED BY <2>4, <2>5
    <3> QED BY <3>1
  <2> QED BY <2>6 DEF Usable
<1>2. ASSUME Free # {} PROVE SharedOn(Min(Free)) = {}
  <2>1. Free \in SUBSET Nat
    BY NReaderAssumption DEF Free
  <2>2. Min(Free) \in Free
    BY <1>2, <2>1, LeastOf
  <2> QED BY <2>2 DEF Free, MayExclude
<1> QED BY <1>1, <1>2

\* Choosing a mark moves none that is in use.
LEMMA RChooseMark ==
  ASSUME IInv, IInv', RInv, NEW c \in Procs, ChooseMark(c)
  PROVE  RInv' /\ \A d \in Procs : Stays(d)
<1> PICK r : r = conn[c]
  OBVIOUS
<1>0. r.pc = "begin"
  BY DEF ChooseMark
<1>1. /\ Conn(r) /\ ConnOK(c) /\ r.pc = "begin" /\ r.hdr.mxFrame \in Nat
      /\ NReader \in Nat /\ NReader - 1 \in Nat /\ r.readLock = -1
      /\ aReadMark \in [0..(NReader - 1) -> Nat]
  <2>1. r.readLock = -1
    BY <1>0, NoLockAt
  <2> QED BY <1>0, <2>1, RTypes, NReaderAssumption
<1>m. PICK mx : mx = r.hdr.mxFrame
  OBVIOUS
<1>i. PICK i : i = Largest(c)
  OBVIOUS
<1>s. PICK set : set = ((i = 0 \/ aReadMark[i] < mx) /\ Free # {})
  OBVIOUS
<1>k. PICK k : k = IF set THEN Min(Free) ELSE i
  OBVIOUS
<1>2. i \in 0..(NReader - 1) /\ k \in 0..(NReader - 1)
  <2>1. i \in 0..(NReader - 1) /\ (set => Min(Free) \in 1..(NReader - 1))
    BY <1>i, <1>s, MarkOf
  <2> QED BY <1>k, <1>1, <2>1
<1>u. /\ db' = db /\ wal' = wal /\ walDisk' = walDisk /\ Live' = Live /\ aPgno' = aPgno
      /\ nBackfill' = nBackfill
  BY DEF ChooseMark, files, Live
<1>3. CASE k = 0
  <2> DEFINE s == [r EXCEPT !.pc = RetryAt(c)]
  <2>1. RetryAt(c) = IF r.writeLock THEN "begin" ELSE "idle"
    BY DEF RetryAt
  <2>2. conn' = [conn EXCEPT ![c] = s] /\ aReadMark' = aReadMark
    BY <1>m, <1>i, <1>s, <1>k, <1>3, ConnType DEF ChooseMark
  <2>3. Conn(s)
    BY <1>1, <2>1 DEF Conn, ConnWith, Places
  <2>5. /\ s.pc = RetryAt(c) /\ s.hdr = r.hdr /\ s.writeLock = r.writeLock
        /\ s.readLock = r.readLock
    BY <1>1 DEF Conn, ConnWith
  <2> HIDE DEF s
  <2>6. Others(c) /\ conn'[c] = s
    BY <2>2, <2>3, MoveTo
  <2>7. LogKeeps(c)
    BY <1>1, <1>u, <2>2, LogStill
  <2> QED BY <1>1, <1>u, <2>1, <2>5, <2>6, <2>7, RTry
<1>4. CASE k # 0
  <2>0. PICK mark : mark = aReadMark'[k]
    OBVIOUS
  <2> DEFINE s == [r EXCEPT !.pc = "mark", !.mi = k, !.mv = mark]
  <2>2. /\ conn' = [conn EXCEPT ![c] = s]
        /\ aReadMark' = IF set THEN [aReadMark EXCEPT ![k] = mx] ELSE aReadMark
    BY <1>m, <1>i, <1>s, <1>k, <1>4, <2>0, ConnType DEF ChooseMark
  <2>3. mark \in Nat /\ k \in Nat /\ mark <= mx
    <3>1. CASE set
      BY <1>1, <1>2, <1>m, <2>0, <2>2, <3>1
    <3>2. CASE ~set
      <4>1. k = Largest(c) /\ aReadMark' = aReadMark
        BY <1>i, <1>k, <2>2, <3>2
      <4> QED BY <1>1, <1>2, <1>4, <1>m, <2>0, <4>1, MarkChosen
    <3> QED BY <1>s, <3>1, <3>2
  <2>4. Conn(s)
    BY <1>1, <2>3 DEF Conn, ConnWith, Places
  <2>5. /\ s.pc = "mark" /\ s.hdr = r.hdr /\ s.writeLock = r.writeLock
        /\ s.readLock = r.readLock /\ s.mv = mark
    BY <1>1 DEF Conn, ConnWith
  <2> HIDE DEF s
  <2>6. Others(c) /\ conn'[c] = s
    BY <2>2, <2>4, MoveTo
  <2>7. \A j \in 1..(NReader - 1) : aReadMark'[j] = aReadMark[j] \/ SharedOn(j) = {}
    <3>1. CASE set
      <4>1. SharedOn(k) = {} /\ aReadMark' = [aReadMark EXCEPT ![k] = mx]
        BY <1>s, <1>k, <2>2, <3>1, MarkChosen
      <4> QED BY <1>1, <4>1
    <3>2. CASE ~set
      BY <2>2, <3>2
    <3> QED BY <1>s, <3>1, <3>2
  <2>8. LogKeeps(c)
    BY <1>1, <1>u, <2>7, LogStill
  <2> QED BY <1>1, <1>m, <1>u, <2>3, <2>5, <2>6, <2>8, RTry
<1> QED BY <1>3, <1>4

\* A transaction that reads no frame.
LEMMA RLockZero ==
  ASSUME IInv, IInv', RInv, NEW c \in Procs, LockZero(c)
  PROVE  RInv' /\ \A d \in Procs : Stays(d)
<1> PICK r : r = conn[c]
  OBVIOUS
<1>1. /\ Conn(r) /\ ConnOK(c) /\ r.pc = "begin" /\ ~r.writeLock /\ ~r.ckptLock /\ r.readLock = -1
  BY RTypes, NoLockAt DEF LockZero, NeedsNoFrame, ConnOK, PlaceOK
<1>2. LogKeeps(c) /\ wal' = wal /\ aPgno' = aPgno
  BY <1>1, LogUnmoved DEF LockZero, files, index
<1>3. CASE Live = r.hdr
  <2>y. PICK y : y = LET filled == [p \in Pages |-> ReadFrame(p, 0)]
                     IN  IF r.cache = NoCache THEN filled ELSE r.cache
    OBVIOUS
  <2>z. PICK z \in Nat : z \in Int /\ z = 0
    OBVIOUS
  <2> DEFINE s == [r EXCEPT !.readLock = z, !.minFrame = z, !.mi = z, !.mv = z,
                            !.pc = "read", !.iFrame = z, !.cache = y]
  <2>1. conn' = [conn EXCEPT ![c] = s]
    BY <1>1, <1>3, <2>y, <2>z, ConnType DEF LockZero, Started
  <2>2. Conn(s)
    <3>1. Conn(r) /\ z \in Nat /\ z \in Int
      BY <1>1, <2>z
    <3> QED BY <3>1 DEF Conn, ConnWith, Places
  <2>3. s.pc = "read" /\ s.readLock = 0 /\ ~s.writeLock /\ ~s.ckptLock
    BY <1>1, <2>z DEF Conn, ConnWith
  <2> HIDE DEF s
  <2>4. Others(c) /\ conn'[c] = s
    BY <2>1, <2>2, MoveTo
  <2>5. 0 \in -1..(NReader - 1) /\ ~(0 > 0)
    BY NReaderAssumption
  <2>6. GoesOn(Live, Live', r, s)
    BY <2>3, <2>5 DEF GoesOn, LockOK
  <2>7. EntersOK(wal'.f, aPgno', s)
    BY <2>3 DEF EntersOK
  <2> QED BY <1>2, <2>3, <2>4, <2>6, <2>7, RKept DEF Restarting
<1>4. CASE Live # r.hdr
  <2> DEFINE s == [r EXCEPT !.pc = "idle"]
  <2>1. conn' = [conn EXCEPT ![c] = s]
    BY <1>1, <1>4, ConnType DEF LockZero
  <2>2. Conn(s)
    BY <1>1 DEF Conn, ConnWith, Places
  <2>3. s.pc = "idle" /\ s.readLock = r.readLock /\ ~s.writeLock
    BY <1>1 DEF Conn, ConnWith
  <2> HIDE DEF s
  <2>4. Others(c) /\ conn'[c] = s
    BY <2>1, <2>2, MoveTo
  <2> QED BY <1>1, <1>2, <2>3, <2>4, RIdle
<1> QED BY <1>3, <1>4

\* A transaction that reads frames: with the mark locked and the header still the live
\* one, no checkpointer has copied more than this transaction sees, or ever will.
LEMMA RLockMark ==
  ASSUME IInv, IInv', RInv, NEW c \in Procs, LockMark(c)
  PROVE  RInv' /\ \A d \in Procs : Stays(d)
<1> PICK r : r = conn[c]
  OBVIOUS
<1>0. r.pc = "mark"
  BY DEF LockMark
<1>1. /\ Conn(r) /\ ConnOK(c) /\ RConnOK(c) /\ r.pc = "mark" /\ r.readLock = -1
      /\ r.mi \in Nat /\ r.mv \in Nat /\ r.hdr.mxFrame \in Nat
      /\ nBackfill \in Nat /\ nBackfill + 1 \in Nat
      /\ Live.mxFrame \in Nat /\ Live.mxFrame <= Len(wal.f)
      /\ aReadMark \in [0..(NReader - 1) -> Nat] /\ NReader \in Nat
  <2>1. r.readLock = -1
    BY <1>0, NoLockAt
  <2>2. RConnOK(c) /\ nBackfill \in Nat /\ nBackfill + 1 \in Nat
    BY RTypes DEF RInv
  <2> QED BY <1>0, <2>1, <2>2, RTypes
<1>2. r.mi \in 1..(NReader - 1) /\ r.mv <= r.hdr.mxFrame /\ ~r.ckptLock
  BY <1>1 DEF ConnOK, PlaceOK, RConnOK, LockOK
<1>3. /\ LogKeeps(c) /\ Live' = Live /\ wal' = wal /\ aPgno' = aPgno /\ db' = db
      /\ aReadMark' = aReadMark /\ nBackfill' = nBackfill
  BY <1>1, LogUnmoved DEF LockMark, files, index
<1>4. CASE MayShare(r.mi) /\ aReadMark[r.mi] = r.mv /\ Live = r.hdr
  <2>y. PICK y : y = LET filled == [p \in Pages |->
                          ReadFrame(p, IF r.mi = 0 THEN 0 ELSE Newest(p, nBackfill + 1, r.hdr.mxFrame))]
                     IN  IF r.cache = NoCache THEN filled ELSE r.cache
    OBVIOUS
  <2>p. PICK pc : pc = IF r.writeLock THEN "frames" ELSE "read"
    OBVIOUS
  <2>n. PICK n : n = IF r.writeLock THEN r.hdr.mxFrame ELSE 0
    OBVIOUS
  <2> DEFINE s == [r EXCEPT !.readLock = r.mi, !.minFrame = nBackfill + 1, !.mi = 0, !.mv = 0,
                            !.pc = pc, !.iFrame = n, !.cache = y]
  <2>1. conn' = [conn EXCEPT ![c] = s]
    BY <1>1, <1>2, <1>4, <2>y, <2>p, <2>n, ConnType DEF LockMark, Started
  <2>2. n \in Nat /\ pc \in Places
    BY <1>1, <2>p, <2>n DEF Places
  <2>3. Conn(s)
    <3>1. Conn(r) /\ r.mi \in Int /\ 0 \in Nat /\ nBackfill + 1 \in Nat
      BY <1>1
    <3> QED BY <2>2, <3>1 DEF Conn, ConnWith
  <2>4. /\ s.pc = pc /\ s.hdr = r.hdr /\ s.readLock = r.mi /\ s.minFrame = nBackfill + 1
        /\ s.writeLock = r.writeLock /\ ~s.ckptLock
    BY <1>1, <1>2 DEF Conn, ConnWith
  <2> HIDE DEF s
  <2>5. Others(c) /\ conn'[c] = s
    BY <2>1, <2>3, MoveTo
  <2>6. \A d \in Procs : ~Restarting(d)
    BY <1>1, <1>2, <1>4 DEF MayShare
  <2>7. nBackfill <= Live.mxFrame /\ ~SomeRestart
    BY <2>6 DEF IInv, BackfillOK, Restarting, SomeRestart
  <2>8. TopOf(Live', s) = Live.mxFrame
    BY <1>3, <1>4, <2>4 DEF TopOf
  <2>9. pc \in {"frames", "read"} /\ ~Looks(Live', s) /\ ~Restarting(c)'
    BY <2>p, <2>4, <2>5 DEF Looks, Restarting
  <2>10. LockOK(s)
    BY <1>1, <1>2, <2>4, <2>9 DEF LockOK
  <2>11. ReaderOK(wal'.f, db', Live', aReadMark', s)
    <3>1. nBackfill + 1 >= 1 /\ (nBackfill + 1) - 1 = nBackfill
      BY <1>1
    <3>2. DbHolds(wal.f, db, nBackfill, Live.mxFrame)
      BY DEF RInv
    <3> QED BY <1>1, <1>2, <1>3, <1>4, <2>4, <2>7, <2>8, <3>1, <3>2 DEF ReaderOK
  <2>12. EntersOK(wal'.f, aPgno', s)
    BY <1>1, <1>3, <1>4, <2>4 DEF EntersOK, RInv
  <2>13. RConnOK(c)'
    BY <2>4, <2>5, <2>9, <2>10, <2>11, <2>12 DEF RConnOK, CopyOK
  <2>14. ASSUME NEW d \in Procs \ {c}
         PROVE  Behind(Live', s, conn[d]) /\ Behind(Live', conn[d], s)
    <3>1. Behind(Live', s, conn[d])
      BY <2>9 DEF Behind
    <3>2. ASSUME Looks(Live, conn[d])
          PROVE  /\ s.minFrame - 1 <= conn[d].hdr.mxFrame
                 /\ Passed(conn[d], s.readLock) => conn[d].mxSafe <= Live.mxFrame
      <4>1. nBackfill <= conn[d].hdr.mxFrame
        BY <2>7, <3>2 DEF RInv, RConnOK
      <4>2. /\ conn[d].hdr.mxFrame \in Nat /\ conn[d].mxSafe \in Nat
            /\ CkptOK(wal, Live, conn[d])
        BY RTypes DEF ConnOK
      <4>3. Passed(conn[d], s.readLock) => conn[d].mxSafe <= Live.mxFrame
        BY <1>1, <3>2, <4>2 DEF Looks, Passed, CkptOK
      <4> QED BY <1>1, <2>4, <4>1, <4>3
    <3> QED BY <1>3, <2>8, <3>1, <3>2 DEF Behind
  <2> QED BY <1>1, <1>2, <1>3, <2>4, <2>5, <2>6, <2>9, <2>13, <2>14, RStep
<1>5. CASE ~(MayShare(r.mi) /\ aReadMark[r.mi] = r.mv /\ Live = r.hdr)
  <2>p. PICK pc : pc = RetryAt(c)
    OBVIOUS
  <2> DEFINE s == [r EXCEPT !.pc = pc, !.mi = 0, !.mv = 0]
  <2>1. conn' = [conn EXCEPT ![c] = s]
    BY <1>1, <1>5, <2>p, ConnType DEF LockMark
  <2>2. pc \in Places /\ pc = IF r.writeLock THEN "begin" ELSE "idle"
    BY <2>p DEF Places, RetryAt
  <2>3. Conn(s)
    BY <1>1, <2>2 DEF Conn, ConnWith
  <2>4. /\ s.pc = pc /\ s.hdr = r.hdr /\ s.readLock = r.readLock /\ s.writeLock = r.writeLock
    BY <1>1 DEF Conn, ConnWith
  <2> HIDE DEF s
  <2>5. Others(c) /\ conn'[c] = s
    BY <2>1, <2>3, MoveTo
  <2> QED BY <1>1, <1>3, <2>2, <2>4, <2>5, RTry
<1> QED BY <1>4, <1>5

------------------------------------------------------------------------------
(* Readers: checkpoints                                                    *)

\* A connection without a read lock that has no part in the log either.
LEMMA RFree ==
  ASSUME IInv, IInv', RInv, NEW c \in Procs, Others(c), LogKeeps(c),
         conn'[c].readLock = -1, conn'[c].pc \in {"idle", "off", "unlink", "ckend", "rec"}
  PROVE  RInv' /\ \A d \in Procs : Stays(d)
<1>1. GoesOn(Live, Live', conn[c], conn'[c])
  <2>1. -1 \in -1..(NReader - 1) /\ ~(-1 > 0)
    BY NReaderAssumption
  <2> QED BY <2>1 DEF GoesOn, LockOK
<1>2. EntersOK(wal'.f, aPgno', conn'[c]) /\ ~Restarting(c)'
  BY DEF EntersOK, Restarting
<1> QED BY <1>1, <1>2, RKept

\* A checkpoint that ends.
LEMMA REnded ==
  ASSUME IInv, IInv', RInv, NEW c \in Procs, LogKeeps(c), conn' = CkptEnded(c)
  PROVE  RInv' /\ \A d \in Procs : Stays(d)
<1> PICK r : r = conn[c]
  OBVIOUS
<1>h. PICK h \in Hdr : h = Remembered(r)
  BY RTypes, ClosedType DEF Remembered
<1>1. CASE ~r.excl
  <2> PICK s : s = Rest("idle", h, r.cache)
    OBVIOUS
  <2>1. conn' = [conn EXCEPT ![c] = s] /\ Conn(s)
    BY <1>h, <1>1, RestType DEF CkptEnded, Places
  <2>2. s.pc = "idle" /\ s.readLock = -1
    BY RestFields
  <2>3. Others(c) /\ conn'[c] = s
    BY <2>1, MoveTo
  <2> QED BY <2>2, <2>3, RFree
<1>2. CASE r.excl
  <2> PICK q : q = Rest("unlink", h, NoCache)
    OBVIOUS
  <2> DEFINE s == [q EXCEPT !.excl = TRUE]
  <2>1. conn' = [conn EXCEPT ![c] = s] /\ Conn(q)
    BY <1>h, <1>2, RestType DEF CkptEnded, Places
  <2>2. q.pc = "unlink" /\ q.readLock = -1
    BY RestFields
  <2>3. Conn(s) /\ s.pc = "unlink" /\ s.readLock = -1
    BY <2>1, <2>2 DEF Conn, ConnWith
  <2> HIDE DEF s
  <2>4. Others(c) /\ conn'[c] = s
    BY <2>1, <2>3, MoveTo
  <2> QED BY <2>3, <2>4, RFree
<1> QED BY <1>1, <1>2

\* A checkpoint that has copied what it could.
LEMMA RCopied ==
  ASSUME IInv, IInv', RInv, NEW c \in Procs, LogKeeps(c), conn' = CkptCopied(c),
         conn[c].pc \in {"ckpt", "ckstart", "copy"}
  PROVE  RInv' /\ \A d \in Procs : Stays(d)
<1> PICK r : r = conn[c]
  OBVIOUS
<1>1. CASE r.mode = "TRUNCATE"
  <2> DEFINE s == [r EXCEPT !.pc = "ckend"]
  <2>1. conn' = [conn EXCEPT ![c] = s] /\ Conn(r)
    BY <1>1, ConnType DEF CkptCopied
  <2>2. Conn(s) /\ s.pc = "ckend" /\ s.readLock = r.readLock
    BY <2>1 DEF Conn, ConnWith, Places
  <2> HIDE DEF s
  <2>3. Others(c) /\ conn'[c] = s /\ r.readLock = -1
    BY <2>1, <2>2, MoveTo, NoLockAt
  <2> QED BY <2>2, <2>3, RFree
<1>2. CASE r.mode # "TRUNCATE"
  BY <1>2, REnded DEF CkptCopied
<1> QED BY <1>1, <1>2

\* Nothing left to copy, or an end without one.
LEMMA RCkptNothing ==
  ASSUME IInv, IInv', RInv, NEW c \in Procs, CkptNothing(c)
  PROVE  RInv' /\ \A d \in Procs : Stays(d)
BY LogUnmoved, RCopied DEF CkptNothing

\* A TRUNCATE checkpoint that leaves the log as it is.
LEMMA RCkptEnd ==
  ASSUME IInv, IInv', RInv, NEW c \in Procs, CkptEnd(c)
  PROVE  RInv' /\ \A d \in Procs : Stays(d)
BY LogUnmoved, REnded DEF CkptEnd

\* A checkpoint that fails halfway.
LEMMA RCkptInterrupt ==
  ASSUME IInv, IInv', RInv, NEW c \in Procs, CkptInterrupt(c)
  PROVE  RInv' /\ \A d \in Procs : Stays(d)
<1>1. LogKeeps(c) /\ (conn' = CkptEnded(c) \/ conn' = [conn EXCEPT ![c] = Closed])
  BY LogUnmoved DEF CkptInterrupt
<1> QED BY <1>1, REnded, RClosed

\* An empty log may lose its file.
LEMMA LogEmptied ==
  ASSUME IInv, RInv, NEW c \in Procs, conn[c].pc # "rst", wal' = NoWal, Live.mxFrame = 0,
         \A d \in Procs \ {c} : ~conn[d].writeLock,
         UNCHANGED <<db, walDisk, index>>
  PROVE  LogKeeps(c)
<1>1. /\ Live' = Live /\ aPgno' = aPgno /\ nBackfill' = nBackfill /\ aReadMark' = aReadMark
      /\ db' = db /\ walDisk' = walDisk
  BY DEF index, Live
<1>2. Len(wal'.f) <= MaxFrame /\ Indexed(wal'.f, aPgno', 0)
  BY NoWalType, MaxFrameAssumption DEF Indexed
<1> QED BY <1>1, <1>2, RTypes DEF LogKeeps, RInv

\* A TRUNCATE checkpoint empties the file.
LEMMA RCkptTruncate ==
  ASSUME IInv, IInv', RInv, NEW c \in Procs, CkptTruncate(c)
  PROVE  RInv' /\ \A d \in Procs : Stays(d)
<1>1. conn[c].pc = "trunc" /\ wal' = NoWal /\ UNCHANGED <<db, walDisk, index>>
      /\ conn' = CkptEnded(c)
  BY DEF CkptTruncate
<1>2. Live.mxFrame = 0 /\ conn[c].writeLock
  BY <1>1, RTypes DEF ConnOK, RestartOK, PlaceOK
<1>3. \A d \in Procs \ {c} : ~conn[d].writeLock
  BY <1>2 DEF IInv, LocksOK
<1>4. LogKeeps(c)
  BY <1>1, <1>2, <1>3, LogEmptied
<1> QED BY <1>1, <1>4, REnded

\* The last connection deletes it.
LEMMA RUnlinkWal ==
  ASSUME IInv, IInv', RInv, NEW c \in Procs, UnlinkWal(c)
  PROVE  RInv' /\ \A d \in Procs : Stays(d)
<1>1. conn[c].pc = "unlinkwal" /\ wal' = NoWal /\ UNCHANGED <<db, walDisk, index>>
      /\ conn' = [conn EXCEPT ![c] = Closed]
  BY DEF UnlinkWal
<1>2. Live.mxFrame = 0 /\ conn[c].excl
  BY <1>1, RTypes DEF ConnOK, RestartOK, PlaceOK
<1>3. ASSUME NEW d \in Procs \ {c} PROVE ~conn[d].writeLock
  <2>1. conn[d].pc = "off"
    BY <1>2 DEF IInv, LocksOK, Off
  <2>2. conn[d] = Closed
    BY <2>1, RTypes DEF ConnOK, PlaceOK
  <2> QED BY <2>2 DEF Closed, Rest
<1>4. LogKeeps(c)
  BY <1>1, <1>2, <1>3, LogEmptied
<1> QED BY <1>1, <1>4, RClosed

\* A checkpointer that has just read the live header: no reader is ahead of it.
LEMMA RLooking ==
  ASSUME IInv, IInv', RInv, NEW c \in Procs, Others(c), LogKeeps(c), Live' = Live,
         conn'[c].pc = "ckpt", conn'[c].hdr = Live, conn'[c].readLock = -1
  PROVE  RInv' /\ \A d \in Procs : Stays(d)
<1> PICK s : s = conn'[c]
  OBVIOUS
<1>0. s.pc = "ckpt" /\ s.hdr = Live /\ s.readLock = -1
  OBVIOUS
<1>1. -1 \in -1..(NReader - 1) /\ ~(-1 > 0) /\ -1 <= 0
  BY NReaderAssumption
<1>2. RConnOK(c)'
  <2>1. LockOK(s) /\ ReaderOK(wal'.f, db', Live', aReadMark', s) /\ EntersOK(wal'.f, aPgno', s)
        /\ CopyOK(wal'.f, db', nBackfill', Live', s)
    BY <1>0, <1>1 DEF LockOK, ReaderOK, EntersOK, CopyOK
  <2>2. nBackfill' <= s.hdr.mxFrame \/ SomeRestart'
    BY <1>0 DEF IInv, BackfillOK, SomeRestart
  <2> QED BY <2>1, <2>2 DEF RConnOK
<1>3. ASSUME NEW d \in Procs \ {c} PROVE Behind(Live', s, conn[d])
  <2> SUFFICES ASSUME conn[d].readLock > 0
               PROVE  conn[d].minFrame - 1 <= s.hdr.mxFrame
    BY <1>0 DEF Behind, Passed
  <2>1. ReaderOK(wal.f, db, Live, aReadMark, conn[d])
    BY DEF RInv, RConnOK
  <2>2. /\ conn[d].minFrame \in Nat /\ TopOf(Live, conn[d]) \in Nat /\ Live.mxFrame \in Nat
    BY RTypes DEF TopOf
  <2> QED BY <1>0, <2>1, <2>2 DEF ReaderOK
<1>4. ~Restarting(c)' /\ ~(s.readLock > 0)
  BY <1>0, <1>1 DEF Restarting
<1>5. \A d \in Procs \ {c} : Behind(Live', conn[d], s)
  BY <1>4 DEF Behind
<1> QED BY <1>2, <1>3, <1>4, <1>5, RStep

\* A checkpoint begins.
LEMMA RCkptBegin ==
  ASSUME IInv, IInv', RInv, NEW c \in Procs, NEW m \in Modes, NEW closing \in BOOLEAN,
         CkptBegin(c, m, closing)
  PROVE  RInv' /\ \A d \in Procs : Stays(d)
<1> PICK r : r = conn[c]
  OBVIOUS
<1>b. PICK both \in BOOLEAN : both = (m # "PASSIVE" /\ WriteLockFree)
  OBVIOUS
<1>m. PICK md : md = IF both THEN m ELSE "PASSIVE"
  OBVIOUS
<1>n. PICK ch \in BOOLEAN : ch = (r.hdr # Live)
  OBVIOUS
<1> DEFINE s == [r EXCEPT !.pc = "ckpt", !.ckptLock = TRUE, !.writeLock = both, !.mode = md,
                          !.changed = ch, !.hdr = Live, !.excl = closing]
<1>1. Conn(r) /\ r.pc = "idle"
  BY RTypes DEF CkptBegin
<1>2. conn' = [conn EXCEPT ![c] = s]
  BY <1>b, <1>m, <1>n, ConnType DEF CkptBegin
<1>3. s.pc = "ckpt" /\ s.hdr = Live /\ s.readLock = r.readLock
  BY <1>1 DEF Conn, ConnWith
<1> HIDE DEF s
<1>4. Others(c) /\ conn'[c] = s
  BY <1>2, ConnType DEF Others
<1>5. r.readLock = -1
  BY <1>1, NoLockAt
<1>6. LogKeeps(c) /\ Live' = Live
  BY <1>1, LogUnmoved DEF CkptBegin
<1> QED BY <1>3, <1>4, <1>5, <1>6, RLooking

\* One mark after the other: what is safe to copy is not beyond any reader whose mark
\* has been passed.
LEMMA RCkptMark ==
  ASSUME IInv, IInv', RInv, NEW c \in Procs, CkptMark(c)
  PROVE  RInv' /\ \A d \in Procs : Stays(d)
<1> PICK r : r = conn[c]
  OBVIOUS
<1>i. PICK i : i = r.mi + 1
  OBVIOUS
<1>a. PICK safe : safe = IF i = 1 THEN r.hdr.mxFrame ELSE r.mxSafe
  OBVIOUS
<1>u. PICK used \in BOOLEAN : used = (safe > aReadMark[i] /\ ~MayExclude(i))
  OBVIOUS
<1>x. PICK mx : mx = IF used THEN aReadMark[i] ELSE safe
  OBVIOUS
<1>m. PICK m : m = IF i = NReader - 1 THEN 0 ELSE i
  OBVIOUS
<1>p. PICK pc : pc = IF i = NReader - 1 THEN "ckstart" ELSE "ckmark"
  OBVIOUS
<1> DEFINE s == [r EXCEPT !.mxSafe = mx, !.mi = m, !.pc = pc]
<1>0. r.pc \in {"ckpt", "ckmark"}
  BY DEF CkptMark
<1>1. /\ Conn(r) /\ ConnOK(c) /\ RConnOK(c) /\ r.mi \in Nat /\ r.mxSafe \in Nat
      /\ r.hdr.mxFrame \in Nat /\ r.readLock = -1
      /\ NReader \in Nat /\ NReader >= 2 /\ aReadMark \in [0..(NReader - 1) -> Nat]
  <2>1. RConnOK(c) /\ r.readLock = -1
    BY <1>0, NoLockAt DEF RInv
  <2> QED BY <2>1, RTypes
<1>2. /\ r.pc = "ckpt" => r.mi = 0
      /\ r.pc = "ckmark" => r.mi < NReader - 1
  BY <1>0, <1>1 DEF ConnOK, PlaceOK
<1>3. i \in 1..(NReader - 1) /\ aReadMark[i] \in Nat
  <2>1. i \in 1..(NReader - 1)
    BY <1>i, <1>0, <1>1, <1>2
  <2> QED BY <1>1, <2>1
<1>4. safe \in Nat
  BY <1>a, <1>1
<1>5. mx \in Nat /\ mx <= safe
  <2>1. CASE used
    <3>1. mx = aReadMark[i] /\ safe > aReadMark[i]
      BY <1>u, <1>x, <2>1
    <3> QED BY <1>3, <1>4, <3>1
  <2>2. CASE ~used
    BY <1>x, <1>4, <2>2
  <2> QED BY <2>1, <2>2
<1>6. m \in Nat /\ pc \in Places /\ pc \in {"ckstart", "ckmark"} /\ (pc = "ckmark" => m = i)
  BY <1>i, <1>1, <1>m, <1>p DEF Places
<1>7. conn' = [conn EXCEPT ![c] = s]
  <2>1. conn' = [conn EXCEPT ![c].mxSafe = mx, ![c].mi = m, ![c].pc = pc]
    BY <1>i, <1>a, <1>u, <1>x, <1>m, <1>p, Zenon DEF CkptMark
  <2> QED BY <2>1, ConnType
<1>8. aReadMark' = aReadMark \/ (~used /\ \E v : aReadMark' = [aReadMark EXCEPT ![i] = v]
                                  /\ safe > aReadMark[i])
  BY <1>i, <1>a, <1>u, Zenon DEF CkptMark
<1>9. Conn(s)
  BY <1>1, <1>5, <1>6 DEF Conn, ConnWith
<1>10. /\ s.pc = pc /\ s.hdr = r.hdr /\ s.mxSafe = mx /\ s.mi = m /\ s.readLock = r.readLock
  BY <1>1 DEF Conn, ConnWith
<1> HIDE DEF s
<1>11. Others(c) /\ conn'[c] = s
  BY <1>7, <1>9, MoveTo
<1>12. /\ db' = db /\ wal' = wal /\ walDisk' = walDisk /\ Live' = Live /\ aPgno' = aPgno
       /\ nBackfill' = nBackfill
  BY DEF CkptMark, files, Live
<1>13. LogKeeps(c)
  <2>1. aReadMark' # aReadMark => SharedOn(i) = {}
    BY <1>u, <1>8 DEF MayExclude
  <2>2. \A j \in 1..(NReader - 1) : aReadMark'[j] = aReadMark[j] \/ SharedOn(j) = {}
    BY <1>1, <1>8, <2>1
  <2> QED BY <1>0, <1>12, <2>2, LogStill
<1>14. Looks(Live', s) => Looks(Live, r)
  BY <1>0, <1>6, <1>10, <1>12 DEF Looks
<1>15. ~Restarting(c)' /\ ~(-1 > 0) /\ -1 <= 0 /\ -1 \in -1..(NReader - 1)
  BY <1>1, <1>6, <1>10, <1>11 DEF Restarting
<1>16. RConnOK(c)'
  <2>1. LockOK(s) /\ ReaderOK(wal'.f, db', Live', aReadMark', s) /\ EntersOK(wal'.f, aPgno', s)
        /\ CopyOK(wal'.f, db', nBackfill', Live', s)
    BY <1>1, <1>6, <1>10, <1>15 DEF LockOK, ReaderOK, EntersOK, CopyOK
  <2>2. Looks(Live', s) => nBackfill' <= s.hdr.mxFrame \/ SomeRestart'
    <3>1. Looks(Live', s) => nBackfill <= r.hdr.mxFrame \/ SomeRestart
      BY <1>1, <1>14 DEF RConnOK
    <3>2. SomeRestart => SomeRestart'
      BY <1>0, <1>11 DEF SomeRestart, Others
    <3> QED BY <1>10, <1>12, <3>1, <3>2
  <2> QED BY <1>11, <2>1, <2>2 DEF RConnOK
<1>17. ASSUME NEW d \in Procs \ {c} PROVE Behind(Live', s, conn[d])
  <2> PICK q : q = conn[d]
    OBVIOUS
  <2> SUFFICES ASSUME Looks(Live', s), q.readLock > 0
               PROVE  /\ q.minFrame - 1 <= s.hdr.mxFrame
                      /\ Passed(s, q.readLock) => s.mxSafe <= TopOf(Live', q)
    BY DEF Behind
  <2>1. /\ q.minFrame - 1 <= r.hdr.mxFrame
        /\ Passed(r, q.readLock) => r.mxSafe <= TopOf(Live, q)
    BY <1>14 DEF Behind, RInv
  <2>2. /\ ReaderOK(wal.f, db, Live, aReadMark, q) /\ LockOK(q)
        /\ TopOf(Live, q) \in Nat /\ q.readLock \in Int
    <3>1. q.hdr.mxFrame \in Nat /\ q.readLock \in Int /\ Live.mxFrame \in Nat
      BY RTypes
    <3> QED BY <3>1 DEF RInv, RConnOK, TopOf
  <2>3. ASSUME Passed(s, q.readLock) PROVE mx <= TopOf(Live, q)
    <3>1. q.readLock \in 1..(NReader - 1) /\ q.readLock <= i
      BY <1>1, <1>6, <1>p, <1>m, <1>10, <2>2, <2>3 DEF LockOK, Passed
    <3>2. CASE q.readLock = i
      <4>1. aReadMark[i] <= TopOf(Live, q)
        BY <2>2, <3>2 DEF ReaderOK
      <4>2. ~MayExclude(i)
        BY <3>2 DEF MayExclude, SharedOn
      <4>3. CASE used
        BY <1>x, <4>1, <4>3
      <4>4. CASE ~used
        <5>1. ~(safe > aReadMark[i]) /\ mx = safe
          BY <1>u, <1>x, <4>2, <4>4
        <5> QED BY <1>3, <1>4, <2>2, <4>1, <5>1
      <4> QED BY <4>3, <4>4
    <3>3. CASE q.readLock # i
      <4>1. i # 1 /\ q.readLock <= r.mi /\ r.pc = "ckmark"
        <5>1. r.mi \in Nat /\ q.readLock \in Int /\ q.readLock >= 1
          BY <1>1, <2>2, <3>1
        <5>2. q.readLock <= r.mi /\ r.mi # 0
          BY <1>i, <3>1, <3>3, <5>1
        <5> QED BY <1>i, <1>0, <1>2, <5>1, <5>2
      <4>2. r.mxSafe <= TopOf(Live, q) /\ safe = r.mxSafe
        BY <1>a, <2>1, <4>1 DEF Passed
      <4> QED BY <1>1, <1>5, <2>2, <4>2
    <3> QED BY <3>2, <3>3
  <2> QED BY <1>10, <1>12, <2>1, <2>3 DEF TopOf
<1>18. \A d \in Procs \ {c} : Behind(Live', conn[d], s)
  BY <1>1, <1>10, <1>15 DEF Behind
<1> QED BY <1>1, <1>10, <1>11, <1>13, <1>15, <1>16, <1>17, <1>18, RStep

\* The newest frame of a page that the index finds is the newest in the log.
LEMMA NewestOK ==
  ASSUME NEW f, NEW m \in Nat, Indexed(f, aPgno, m), NEW p
  PROVE  /\ Newest(p, 1, m) \in 0..m
         /\ Newest(p, 1, m) # 0 => Latest(f, p, Newest(p, 1, m), m)
         /\ \A j : Latest(f, p, j, m) => Newest(p, 1, m) = j
<1> DEFINE S == {0} \cup {i \in 1..m : i > 0 /\ aPgno[i] = p}
<1> PICK k : k = Newest(p, 1, m)
  OBVIOUS
<1>1. S \in SUBSET (0..m) /\ S # {} /\ k = Max(S)
  BY DEF Newest
<1>2. k \in S /\ \A y \in S : y <= k
  <2> HIDE DEF S
  <2> QED BY <1>1, GreatestOf
<1>3. k # 0 => Latest(f, p, k, m)
  <2> SUFFICES ASSUME k # 0 PROVE Latest(f, p, k, m)
    OBVIOUS
  <2>1. k \in 1..m /\ f[k].pg = p
    BY <1>2 DEF Indexed
  <2>2. ASSUME NEW i \in (k + 1)..m PROVE f[i].pg # p
    <3>1. i \in 1..m /\ i > k
      BY <2>1
    <3>2. f[i].pg = p => i \in S
      BY <3>1 DEF Indexed
    <3> QED BY <1>2, <2>1, <3>1, <3>2
  <2> QED BY <2>1, <2>2 DEF Latest
<1>4. ASSUME NEW j, Latest(f, p, j, m) PROVE k = j
  <2>1. j \in 1..m /\ f[j].pg = p /\ \A i \in (j + 1)..m : f[i].pg # p
    BY <1>4 DEF Latest
  <2>2. j \in S
    BY <2>1 DEF Indexed
  <2>3. j <= k /\ k \in 1..m /\ f[k].pg = p
    BY <1>2, <2>1, <2>2 DEF Indexed
  <2>4. ~(k \in (j + 1)..m)
    BY <2>1, <2>3
  <2> QED BY <2>1, <2>3, <2>4
<1> QED BY <1>1, <1>2, <1>3, <1>4

\* The copying begins: the pages to copy are those with a newest frame in between.
LEMMA RCkptStart ==
  ASSUME IInv, IInv', RInv, NEW c \in Procs, CkptStart(c)
  PROVE  RInv' /\ \A d \in Procs : Stays(d)
<1> PICK r : r = conn[c]
  OBVIOUS
<1>1. r.pc = "ckstart" /\ UNCHANGED <<db, wal, aHdr, aPgno, nBackfill, aReadMark>>
  BY DEF CkptStart, index
<1>2. /\ Conn(r) /\ ConnOK(c) /\ RConnOK(c) /\ r.readLock = -1 /\ Live' = Live
      /\ r.mxSafe \in Nat /\ r.hdr.mxFrame \in Nat /\ Live.mxFrame \in Nat
      /\ nBackfill \in Nat /\ wal \in WalFile
  <2>1. RConnOK(c) /\ r.readLock = -1 /\ Live' = Live
    BY <1>1, NoLockAt DEF RInv, Live
  <2>2. wal \in WalFile
    BY DEF IInv, Typed
  <2> QED BY <2>1, <2>2, RTypes
<1>3. CASE nBackfill < r.mxSafe /\ MayExclude(0) /\ SameLog(c)
  <2>t. PICK t : t = ToCopy(c)
    OBVIOUS
  <2> DEFINE s == [r EXCEPT !.pc = "copy", !.todo = t]
  <2>1. conn' = [conn EXCEPT ![c] = s] /\ walDisk' = SyncedWal(wal)
    BY <1>3, <2>t, ConnType DEF CkptStart
  <2>2. t \in SUBSET Pages
    BY <2>t DEF ToCopy
  <2>3. Conn(s)
    BY <1>2, <2>2 DEF Conn, ConnWith, Places
  <2>4. /\ s.pc = "copy" /\ s.hdr = r.hdr /\ s.mxSafe = r.mxSafe /\ s.readLock = -1
        /\ s.todo = t
    BY <1>2 DEF Conn, ConnWith
  <2> HIDE DEF s
  <2>5. Others(c) /\ conn'[c] = s
    BY <2>1, <2>3, MoveTo
  <2>6. LogKeeps(c)
    <3>1. Len(walDisk'.f) = Len(wal.f)
      BY <1>2, <2>1, SyncedType
    <3> QED BY <1>1, <1>2, <3>1, LogStill
  <2>7. Looks(Live, r)
    BY <1>1, <1>3 DEF SameLog, Looks
  <2>8. r.mxSafe <= r.hdr.mxFrame /\ r.hdr.mxFrame <= Live.mxFrame
    BY <1>1, <1>2, <1>3 DEF SameLog, ConnOK, CkptOK
  <2>9. -1 \in -1..(NReader - 1) /\ ~(-1 > 0) /\ -1 <= 0 /\ ~Restarting(c)'
    BY <2>4, <2>5, NReaderAssumption DEF Restarting
  <2>10. CopyOK(wal'.f, db', nBackfill', Live', s)
    <3>1. Indexed(wal.f, aPgno, r.hdr.mxFrame)
      BY <1>2, <2>8 DEF RInv, Indexed
    <3>2. ASSUME NEW p \in Pages \ t, NEW j \in (nBackfill + 1)..r.mxSafe,
                 Latest(wal.f, p, j, r.hdr.mxFrame)
          PROVE  FALSE
      <4>1. Newest(p, 1, r.hdr.mxFrame) = j
        BY <1>2, <3>1, <3>2, NewestOK
      <4> QED BY <2>t, <4>1 DEF ToCopy
    <3>3. ASSUME NEW p \in t
          PROVE  \E j \in (nBackfill + 1)..r.mxSafe : Latest(wal.f, p, j, r.hdr.mxFrame)
      <4>1. Newest(p, 1, r.hdr.mxFrame) \in (nBackfill + 1)..r.mxSafe
        BY <2>t DEF ToCopy
      <4>2. Newest(p, 1, r.hdr.mxFrame) # 0
        BY <1>2, <4>1
      <4> QED BY <1>2, <3>1, <4>1, <4>2, NewestOK
    <3> QED BY <1>1, <1>2, <2>4, <2>8, <3>2, <3>3 DEF CopyOK
  <2>11. RConnOK(c)'
    <3>1. LockOK(s) /\ ReaderOK(wal'.f, db', Live', aReadMark', s) /\ EntersOK(wal'.f, aPgno', s)
      BY <2>4, <2>9 DEF LockOK, ReaderOK, EntersOK
    <3>2. nBackfill <= r.hdr.mxFrame
      BY <1>2, <1>3, <2>8
    <3> QED BY <1>1, <2>4, <2>5, <2>10, <3>1, <3>2 DEF RConnOK
  <2>12. ASSUME NEW d \in Procs \ {c} PROVE Behind(Live', s, conn[d]) /\ Behind(Live', conn[d], s)
    <3>1. Behind(Live, r, conn[d])
      BY DEF RInv
    <3>2. \A k : Passed(r, k)
      BY <1>1 DEF Passed
    <3>3. Behind(Live, s, conn[d])
      BY <2>4, <2>7, <3>1, <3>2 DEF Behind
    <3>4. Behind(Live, conn[d], s)
      BY <2>4, <2>9 DEF Behind
    <3> QED BY <1>2, <3>3, <3>4
  <2> QED BY <1>2, <2>4, <2>5, <2>6, <2>9, <2>11, <2>12, RStep
<1>4. CASE ~(nBackfill < r.mxSafe /\ MayExclude(0) /\ SameLog(c))
  <2>1. conn' = CkptCopied(c) /\ walDisk' = walDisk
    BY <1>4 DEF CkptStart
  <2>2. LogKeeps(c)
    BY <1>1, <1>2, <2>1, LogStill
  <2> QED BY <1>1, <2>1, <2>2, RCopied
<1> QED BY <1>3, <1>4

\* A TRUNCATE checkpoint that nobody keeps from restarting the log.
LEMMA RCkptRestart ==
  ASSUME IInv, IInv', RInv, NEW c \in Procs, CkptRestart(c)
  PROVE  RInv' /\ \A d \in Procs : Stays(d)
<1> PICK r : r = conn[c]
  OBVIOUS
<1>h. PICK h \in Hdr : h = RestartedHdr(c)
  BY RestartedType
<1> DEFINE s == [r EXCEPT !.pc = "rst0", !.hdr = h]
<1>1. Conn(r) /\ r.pc = "ckend" /\ NoReaderOfLog
  BY RTypes DEF CkptRestart, MayTruncate
<1>2. conn' = [conn EXCEPT ![c] = s] /\ aHdr' = [aHdr EXCEPT ![1] = h]
  BY <1>h, ConnType DEF CkptRestart
<1>3. Conn(s) /\ s.pc = "rst0" /\ s.readLock = r.readLock
  BY <1>1 DEF Conn, ConnWith, Places
<1> HIDE DEF s
<1>4. Others(c) /\ conn'[c] = s /\ r.readLock = -1
  <2>1. r.readLock = -1
    BY <1>1, NoLockAt
  <2> QED BY <1>2, <1>3, <2>1, MoveTo
<1>5. Live' = Live
  BY <1>2, ConnType DEF Live
<1>6. LogKeeps(c)
  <2>1. UNCHANGED <<db, wal, walDisk, aPgno, nBackfill, aReadMark>>
    BY DEF CkptRestart, files
  <2> QED BY <1>1, <1>5, <2>1, LogStill
<1>7. \A d \in Procs : conn[d].readLock <= 0
  <2> SUFFICES ASSUME NEW d \in Procs, conn[d].readLock > 0 PROVE FALSE
    BY RTypes
  <2>1. conn[d].readLock \in 1..(NReader - 1)
    <3>1. LockOK(conn[d]) /\ NReader \in Nat /\ conn[d].readLock \in Int
      BY RTypes DEF RInv, RConnOK
    <3> QED BY <3>1 DEF LockOK
  <2> QED BY <1>1, <2>1 DEF NoReaderOfLog, MayExclude, SharedOn
<1>8. GoesOn(Live, Live', r, s)
  <2>1. -1 \in -1..(NReader - 1) /\ ~(-1 > 0) /\ -1 <= 0
    BY NReaderAssumption
  <2> QED BY <1>3, <1>4, <2>1 DEF GoesOn, LockOK
<1>9. EntersOK(wal'.f, aPgno', s)
  BY <1>3 DEF EntersOK
<1> QED BY <1>4, <1>6, <1>7, <1>8, <1>9, RKept

------------------------------------------------------------------------------
(* Readers: recovery                                                       *)

\* Recovery does not find more commits than valid frames.
LEMMA CommitsAreValid ==
  ASSUME NEW w \in WalFile
  PROVE  LastCommit(w) \in 0..ValidTo(w) /\ ValidTo(w) \in 0..Len(w.f)
<1>1. /\ Len(w.f) \in Nat /\ ValidTo(w) \in 0..Len(w.f) /\ LastCommit(w) \in 0..Len(w.f)
  BY ValidToOK, LastCommitOK DEF WalFile
<1>2. CASE LastCommit(w) = 0
  BY <1>1, <1>2
<1>3. CASE LastCommit(w) > 0
  <2>1. w.salt > 0 /\ \A i \in 1..LastCommit(w) : ValidFrame(w, i)
    BY <1>3, LastCommitOK
  <2>2. LastCommit(w) <= ValidTo(w)
    BY <1>1, <2>1, ValidToOK
  <2> QED BY <1>1, <2>2
<1> QED BY <1>1, <1>2, <1>3

\* The frames that recovery finds are entered in the index.
LEMMA RRecoverFrames ==
  ASSUME IInv, IInv', RInv, NEW c \in Procs, NEW why, RecoverFrames(c, why)
  PROVE  RInv' /\ \A d \in Procs : Stays(d)
<1> PICK r : r = conn[c]
  OBVIOUS
<1>y. PICK y : y = IF why = "begin" THEN NoCache ELSE r.cache
  OBVIOUS
<1>h. PICK h : h = [isInit |-> TRUE, iChange |-> 0, mxFrame |-> LastCommit(wal),
                    salt |-> IF wal.f = <<>> THEN 0 ELSE wal.salt,
                    cksum |-> IF LastCommit(wal) = 0 THEN <<>> ELSE wal.f[LastCommit(wal)].cksum]
  OBVIOUS
<1> DEFINE s == [Rest("rec0", h, y) EXCEPT !.writeLock = TRUE, !.ckptLock = TRUE, !.changed = TRUE,
                                           !.mode = why, !.excl = (why = "close")]
<1>1. /\ r.pc = "idle" /\ WriteLockFree /\ CkptLockFree
      /\ aHdr' = [aHdr EXCEPT ![1] = h]
      /\ aPgno' = IF wal.f = <<>> THEN aPgno
                  ELSE [i \in 1..MaxFrame |-> IF i <= ValidTo(wal) THEN wal.f[i].pg ELSE 0]
      /\ UNCHANGED <<db, wal, walDisk, nBackfill, aReadMark>>
      /\ conn' = [conn EXCEPT ![c] = s]
  BY <1>h, <1>y DEF RecoverFrames, files
<1>2. s.pc = "rec0" /\ s.hdr = h /\ s.readLock = -1 /\ s.writeLock
  BY DEF Rest
<1> HIDE DEF s
<1>3. Others(c) /\ conn'[c] = s
  BY <1>1, ConnType DEF Others
<1>4. /\ wal \in WalFile /\ Len(wal.f) \in Nat /\ Len(wal.f) <= MaxFrame /\ MaxFrame \in Nat
      /\ LastCommit(wal) \in 0..ValidTo(wal) /\ ValidTo(wal) \in 0..Len(wal.f)
      /\ Live.mxFrame \in Nat /\ Live \in Hdr /\ Committed(wal, Live)
  <2>1. wal \in WalFile /\ Committed(wal, Live)
    BY DEF IInv, Typed
  <2> QED BY <2>1, RTypes, CommitsAreValid DEF RInv
<1>5. Live.mxFrame <= LastCommit(wal) /\ Live' = Live /\ h.mxFrame = LastCommit(wal)
  BY <1>1, <1>4, <1>h, RecoversLog, ConnType DEF Live
<1>6. /\ aPgno' \in [1..MaxFrame -> Nat]
      /\ Indexed(wal.f, aPgno', LastCommit(wal))
  <2>1. CASE wal.f = <<>>
    BY <1>1, <1>4, <2>1 DEF RInv, Indexed
  <2>2. CASE wal.f # <<>>
    <3>1. aPgno' = [i \in 1..MaxFrame |-> IF i <= ValidTo(wal) THEN wal.f[i].pg ELSE 0]
      BY <1>1, <2>2
    <3>2. \A i \in 1..MaxFrame : i <= ValidTo(wal) => wal.f[i].pg \in Nat
      BY <1>4, FrameOf DEF Frame
    <3>3. \A i \in 1..LastCommit(wal) : i \in 1..MaxFrame /\ i <= ValidTo(wal)
      BY <1>4
    <3> QED BY <3>1, <3>2, <3>3 DEF Indexed
  <2> QED BY <2>1, <2>2
<1>7. Indexed(wal.f, aPgno', Live.mxFrame)
  BY <1>4, <1>5, <1>6 DEF Indexed
<1>8. LogKeeps(c)
  BY <1>1, <1>4, <1>5, <1>6, <1>7 DEF LogKeeps, RInv, WriteLockFree
<1>9. GoesOn(Live, Live', r, s)
  <2>1. -1 \in -1..(NReader - 1) /\ ~(-1 > 0) /\ -1 <= 0
    BY NReaderAssumption
  <2> QED BY <1>2, <2>1 DEF GoesOn, LockOK
<1>10. EntersOK(wal'.f, aPgno', s)
  BY <1>1, <1>2, <1>4, <1>5, <1>6 DEF EntersOK
<1> QED BY <1>2, <1>3, <1>8, <1>9, <1>10, RKept DEF Restarting

\* The header that it publishes covers frames in the index only.
LEMMA RRecoverHdr ==
  ASSUME IInv, IInv', RInv, NEW c \in Procs, RecoverHdr(c)
  PROVE  RInv' /\ \A d \in Procs : Stays(d)
<1> PICK r : r = conn[c]
  OBVIOUS
<1> DEFINE s == [r EXCEPT !.pc = "rec"]
<1>1. Conn(r) /\ ConnOK(c) /\ RConnOK(c) /\ r.pc = "rec0" /\ r.hdr.mxFrame \in Nat
  BY RTypes DEF RecoverHdr, RInv
<1>2. /\ UNCHANGED <<db, wal, walDisk, aPgno, nBackfill, aReadMark>>
      /\ aHdr' = [aHdr EXCEPT ![0] = r.hdr] /\ conn' = [conn EXCEPT ![c] = s]
  BY ConnType DEF RecoverHdr, files
<1>3. r.writeLock /\ r.ckptLock /\ Live.mxFrame <= r.hdr.mxFrame
  BY <1>1 DEF ConnOK, PlaceOK, CkptOK
<1>4. Conn(s) /\ s.pc = "rec" /\ s.readLock = r.readLock
  BY <1>1 DEF Conn, ConnWith, Places
<1> HIDE DEF s
<1>5. Others(c) /\ conn'[c] = s /\ r.readLock = -1
  <2>1. r.readLock = -1
    BY <1>1, NoLockAt
  <2> QED BY <1>2, <1>4, <2>1, MoveTo
<1>6. Live' = r.hdr
  BY <1>2, ConnType DEF Live
<1>7. \A d \in Procs \ {c} : ~conn[d].writeLock /\ ~conn[d].ckptLock
  BY <1>3 DEF IInv, LocksOK
<1>8. Indexed(wal.f, aPgno, r.hdr.mxFrame)
  BY <1>1, <1>3 DEF RConnOK, EntersOK
<1>9. LogKeeps(c)
  BY <1>1, <1>2, <1>3, <1>6, <1>7, <1>8 DEF LogKeeps, RInv
<1> QED BY <1>4, <1>5, <1>9, RFree

\* The account of what has been copied starts again at nothing.
LEMMA RRecoverInfo ==
  ASSUME IInv, IInv', RInv, NEW c \in Procs, RecoverInfo(c)
  PROVE  RInv' /\ \A d \in Procs : Stays(d)
<1> PICK r : r = conn[c]
  OBVIOUS
<1>s. PICK s : s = IF r.mode = "begin" THEN Rest("begin", r.hdr, r.cache)
                   ELSE [Rest("ckpt", r.hdr, r.cache) EXCEPT
                            !.ckptLock = TRUE, !.changed = TRUE, !.excl = r.excl]
  OBVIOUS
<1>1. /\ r.pc = "rec" /\ nBackfill' = 0 /\ conn' = [conn EXCEPT ![c] = s]
      /\ UNCHANGED <<db, wal, walDisk, aHdr, aPgno>>
  BY <1>s DEF RecoverInfo, files
<1>2. r.writeLock /\ r.ckptLock /\ r.hdr = Live /\ Live' = Live /\ Live.mxFrame \in Nat
  BY <1>1, RTypes DEF ConnOK, PlaceOK, CkptOK, Live
<1>3. Others(c) /\ conn'[c] = s
  BY <1>1, ConnType DEF Others
<1>4. /\ s.readLock = -1
      /\ \/ s.pc = "begin" /\ ~s.writeLock
         \/ s.pc = "ckpt" /\ s.hdr = Live
  <2>1. CASE r.mode = "begin"
    BY <1>s, <2>1 DEF Rest
  <2>2. CASE r.mode # "begin"
    BY <1>s, <1>2, <2>2 DEF Rest
  <2> QED BY <2>1, <2>2
<1>5. ASSUME NEW d \in Procs \ {c} PROVE conn[d].pc # "copy" /\ ~conn[d].ckptLock
  <2>1. ~conn[d].ckptLock
    BY <1>2 DEF IInv, LocksOK
  <2> QED BY <2>1, RTypes DEF ConnOK, PlaceOK
<1>6. \A i \in 1..(NReader - 1) : aReadMark'[i] = aReadMark[i] \/ SharedOn(i) = {}
  <2>1. \A i \in 1..(NReader - 1) : ~MayExclude(i) => aReadMark'[i] = aReadMark[i]
    BY NReaderAssumption DEF RecoverInfo
  <2> QED BY <2>1 DEF MayExclude
<1>7. LogKeeps(c)
  <2>1. Indexed(wal'.f, aPgno', Live'.mxFrame) /\ Len(wal.f) <= MaxFrame
        /\ Len(walDisk.f) <= MaxFrame /\ aPgno' \in [1..MaxFrame -> Nat]
    BY <1>1, <1>2 DEF RInv
  <2> QED BY <1>1, <1>2, <1>5, <1>6, <2>1 DEF LogKeeps
<1> QED BY <1>2, <1>3, <1>4, <1>7, RIdle, RLooking

------------------------------------------------------------------------------
(* Readers: writers                                                        *)

\* When every mark can be locked exclusively, nobody reads a frame.
LEMMA NoMarks ==
  ASSUME IInv, RInv, NoReaderOfLog
  PROVE  \A d \in Procs : conn[d].readLock <= 0
<1> SUFFICES ASSUME NEW d \in Procs, conn[d].readLock > 0 PROVE FALSE
  BY RTypes
<1>1. conn[d].readLock \in 1..(NReader - 1)
  <2>1. LockOK(conn[d]) /\ NReader \in Nat /\ conn[d].readLock \in Int
    BY RTypes DEF RInv, RConnOK
  <2> QED BY <2>1 DEF LockOK
<1> QED BY <1>1 DEF NoReaderOfLog, MayExclude, SharedOn

\* sqlite3WalFrames begins: the log is restarted only when nobody reads from it.
LEMMA RStartFrames ==
  ASSUME IInv, IInv', RInv, NEW c \in Procs, NEW S \in Spills \cup Commits,
         NEW isCommit \in BOOLEAN, StartFrames(c, S, isCommit)
  PROVE  RInv' /\ \A d \in Procs : Stays(d)
<1> PICK r : r = conn[c]
  OBVIOUS
<1>t. PICK tx \in Nat \ {0} : tx = Tx(c)
  BY TxType
<1>f. PICK first : first = IF r.hdr = Live THEN 0 ELSE Live.mxFrame + 1
  OBVIOUS
<1>p. PICK sp : sp = IF isCommit THEN r.spilled ELSE S
  OBVIOUS
<1>1. /\ Conn(r) /\ ConnOK(c) /\ RConnOK(c) /\ r.pc = "write"
      /\ S \in SUBSET Pages /\ first \in Nat /\ sp \in SUBSET Pages
      /\ r.hdr.mxFrame \in Nat
      /\ UNCHANGED <<db, wal, walDisk, aPgno, nBackfill, aReadMark>>
  <2>1. S \in SUBSET Pages /\ Live.mxFrame \in Nat /\ r.spilled \in SUBSET Pages
    BY RTypes, WritesAssumption DEF Conn, ConnWith
  <2>2. first \in Nat /\ sp \in SUBSET Pages
    BY <1>f, <1>p, <2>1
  <2> QED BY <2>1, <2>2, RTypes DEF StartFrames, files, RInv
<1>2. r.writeLock /\ ~r.ckptLock
  BY <1>1 DEF ConnOK, PlaceOK
<1> DEFINE x == [r EXCEPT !.todo = S, !.tx = tx, !.spilled = sp, !.iFirst = first]
           y == [x EXCEPT !.commit = isCommit]
<1>4. Conn(x) /\ Conn(y)
  <2>1. Conn(x)
    BY <1>1 DEF Conn, ConnWith
  <2> HIDE DEF x
  <2>2. Conn(y)
    BY <2>1 DEF Conn, ConnWith
  <2> QED BY <2>1, <2>2
<1>5. /\ y.hdr = r.hdr /\ y.writeLock /\ ~y.ckptLock /\ y.readLock = r.readLock
      /\ y.minFrame = r.minFrame
  <2>1. /\ x.hdr = r.hdr /\ x.writeLock /\ ~x.ckptLock /\ x.readLock = r.readLock
        /\ x.minFrame = r.minFrame
    BY <1>1, <1>2 DEF Conn, ConnWith
  <2> HIDE DEF x
  <2> QED BY <1>4, <2>1 DEF Conn, ConnWith
<1>6. y = [r EXCEPT !.todo = S, !.commit = isCommit, !.tx = tx, !.spilled = sp, !.iFirst = first]
  BY <1>1 DEF Conn, ConnWith
<1> HIDE DEF x, y
<1>7. LockOK(r) /\ EntersOK(wal.f, aPgno, r) /\ ReaderOK(wal.f, db, Live, aReadMark, r)
  BY <1>1 DEF RConnOK
<1>8. CASE MayRestart(c)
  <2>h. PICK h \in Hdr : h = RestartedHdr(c)
    BY RestartedType
  <2> DEFINE s == [y EXCEPT !.pc = "rst0", !.hdr = h]
  <2>1. conn' = [conn EXCEPT ![c] = s] /\ aHdr' = [aHdr EXCEPT ![1] = h]
    BY <1>f, <1>p, <1>t, <1>6, <1>8, <2>h, ConnType DEF StartFrames
  <2>2. Conn(s)
    BY <1>4 DEF Conn, ConnWith, Places
  <2>3. s.pc = "rst0" /\ ~s.ckptLock /\ s.readLock = r.readLock
    BY <1>4, <1>5 DEF Conn, ConnWith
  <2> HIDE DEF s
  <2>4. Others(c) /\ conn'[c] = s /\ r.readLock = 0
    BY <1>8, <2>1, <2>2, MoveTo DEF MayRestart
  <2>5. Live' = Live
    BY <2>1, ConnType DEF Live
  <2>6. LogKeeps(c)
    BY <1>1, <2>5, LogStill
  <2>7. \A d \in Procs : conn[d].readLock <= 0
    BY <1>8, NoMarks DEF MayRestart
  <2>8. GoesOn(Live, Live', r, s)
    <3>1. 0 \in -1..(NReader - 1) /\ ~(0 > 0) /\ 0 <= 0
      BY NReaderAssumption
    <3> QED BY <2>3, <2>4, <3>1 DEF GoesOn, LockOK
  <2>9. EntersOK(wal'.f, aPgno', s)
    BY <2>3 DEF EntersOK
  <2> QED BY <2>4, <2>6, <2>7, <2>8, <2>9, RKept
<1>9. CASE ~MayRestart(c)
  <2>1. Live' = Live
    BY <1>9 DEF StartFrames, Live
  <2>2. LogKeeps(c)
    BY <1>1, <2>1, LogStill
  <2>3. CASE r.readLock = 0
    <3>n. PICK none \in Int : none = -1
      OBVIOUS
    <3> DEFINE s == [y EXCEPT !.pc = "begin", !.readLock = none]
    <3>1. conn' = [conn EXCEPT ![c] = s]
      BY <1>f, <1>p, <1>t, <1>6, <1>9, <2>3, <3>n, ConnType DEF StartFrames
    <3>2. Conn(s)
      BY <1>4 DEF Conn, ConnWith, Places
    <3>3. s.pc = "begin" /\ s.readLock = -1 /\ s.hdr = r.hdr /\ s.writeLock
      BY <1>4, <1>5, <3>n DEF Conn, ConnWith
    <3> HIDE DEF s
    <3>4. Others(c) /\ conn'[c] = s
      BY <3>1, <3>2, MoveTo
    <3>5. GoesOn(Live, Live', r, s)
      <4>1. -1 \in -1..(NReader - 1) /\ ~(-1 > 0)
        BY NReaderAssumption
      <4> QED BY <3>3, <4>1 DEF GoesOn, LockOK
    <3>6. EntersOK(wal'.f, aPgno', s)
      BY <1>1, <1>2, <1>7, <3>3 DEF EntersOK
    <3> QED BY <2>2, <3>3, <3>4, <3>5, <3>6, RKept DEF Restarting
  <2>4. CASE r.readLock # 0
    <3>n. PICK n \in Nat : n = r.hdr.mxFrame
      BY <1>1
    <3> DEFINE s == [y EXCEPT !.pc = "frames", !.iFrame = n]
    <3>1. conn' = [conn EXCEPT ![c] = s]
      BY <1>f, <1>p, <1>t, <1>6, <1>9, <2>4, <3>n, ConnType DEF StartFrames
    <3>2. Conn(s)
      BY <1>4 DEF Conn, ConnWith, Places
    <3>3. /\ s.pc = "frames" /\ s.readLock = r.readLock /\ s.hdr = r.hdr /\ s.writeLock
          /\ ~s.ckptLock /\ s.minFrame = r.minFrame
      BY <1>4, <1>5 DEF Conn, ConnWith
    <3> HIDE DEF s
    <3>4. Others(c) /\ conn'[c] = s
      BY <3>1, <3>2, MoveTo
    <3>5. LockOK(s)
      BY <1>7, <3>3 DEF LockOK
    <3>6. TopOf(Live', s) = TopOf(Live, r) /\ TopOf(Live, r) \in Nat
      BY <1>1, <1>2, <2>1, <3>3, RTypes DEF TopOf
    <3>7. s.readLock > 0 => TopOf(Live, r) <= Live.mxFrame
      BY <1>7, <3>3 DEF ReaderOK
    <3>8. GoesOn(Live, Live', r, s)
      BY <2>1, <3>3, <3>5, <3>6, <3>7 DEF GoesOn
    <3>9. EntersOK(wal'.f, aPgno', s)
      BY <1>1, <1>2, <1>7, <3>3 DEF EntersOK
    <3> QED BY <2>2, <3>3, <3>4, <3>8, <3>9, RKept DEF Restarting
  <2> QED BY <2>3, <2>4
<1> QED BY <1>8, <1>9

\* The account of what has been copied starts again, and nobody reads frames.
LEMMA RRestartInfo ==
  ASSUME IInv, IInv', RInv, NEW c \in Procs, RestartInfo(c)
  PROVE  RInv' /\ \A d \in Procs : Stays(d)
<1> PICK r : r = conn[c]
  OBVIOUS
<1>1. /\ Conn(r) /\ ConnOK(c) /\ RConnOK(c) /\ r.pc = "rst" /\ nBackfill' = 0
      /\ UNCHANGED <<db, wal, walDisk, aHdr, aPgno>>
  BY RTypes DEF RestartInfo, files, RInv
<1>2. /\ r.writeLock /\ r.hdr = Live /\ Live.mxFrame = 0
      /\ r.ckptLock <=> r.tx = 0
      /\ ~r.ckptLock => r.readLock = 0
  <2>1. r.tx \in Nat
    BY <1>1 DEF Conn, ConnWith
  <2> QED BY <1>1, <2>1 DEF ConnOK, PlaceOK, RestartOK, WriterOK
<1>p. PICK pc : pc = IF r.tx = 0 THEN "trunc" ELSE "begin"
  OBVIOUS
<1>l. PICK lk \in Int : lk = IF r.tx = 0 THEN r.readLock ELSE -1
  <2>1. r.readLock \in Int
    BY <1>1 DEF Conn, ConnWith
  <2> QED BY <2>1
<1> DEFINE s == [r EXCEPT !.pc = pc, !.readLock = lk]
<1>4. conn' = [conn EXCEPT ![c] = s]
  <2>1. CASE r.tx = 0
    <3>1. s = [r EXCEPT !.pc = "trunc"]
      BY <1>1, <1>p, <1>l, <2>1 DEF Conn, ConnWith
    <3>2. conn' = [conn EXCEPT ![c].pc = "trunc"]
      BY <2>1 DEF RestartInfo
    <3> HIDE DEF s
    <3> QED BY <3>1, <3>2, ConnType
  <2>2. CASE r.tx # 0
    <3>1. pc = "begin" /\ lk = -1
      BY <1>p, <1>l, <2>2
    <3>2. conn' = [conn EXCEPT ![c].pc = "begin", ![c].readLock = -1]
      BY <2>2 DEF RestartInfo
    <3> QED BY <3>1, <3>2, ConnType
  <2> QED BY <2>1, <2>2
<1>5. pc \in Places /\ pc \in {"trunc", "begin"}
  BY <1>p DEF Places
<1>6. Conn(s)
  BY <1>1, <1>5 DEF Conn, ConnWith
<1>7. s.pc = pc /\ s.hdr = Live /\ s.readLock = lk /\ s.writeLock /\ s.ckptLock = r.ckptLock
  BY <1>1, <1>2 DEF Conn, ConnWith
<1> HIDE DEF s
<1>8. Others(c) /\ conn'[c] = s /\ Live' = Live
  BY <1>1, <1>4, <1>6, MoveTo DEF Live
<1>9. \A d \in Procs : conn[d].readLock <= 0
  BY <1>1 DEF RInv, NoReaders, Restarting
<1>10. ASSUME NEW d \in Procs \ {c}
       PROVE  conn[d].pc # "copy" /\ ~conn[d].writeLock
  <2>1. ~conn[d].writeLock
    BY <1>2 DEF IInv, LocksOK
  <2>2. conn[d].pc = "copy" => conn[d].ckptLock
    BY RTypes DEF ConnOK, PlaceOK
  <2>3. CASE r.ckptLock
    BY <2>1, <2>2, <2>3 DEF IInv, LocksOK
  <2>4. CASE ~r.ckptLock
    BY <1>2, <2>1, <2>4 DEF IInv, CopyAlone
  <2> QED BY <2>3, <2>4
<1>11. \A i \in 1..(NReader - 1) : SharedOn(i) = {}
  BY <1>9 DEF SharedOn
<1>12. LogKeeps(c)
  <2>1. Len(wal.f) <= MaxFrame /\ Len(walDisk.f) <= MaxFrame
        /\ aPgno \in [1..MaxFrame -> Nat] /\ Indexed(wal.f, aPgno, Live.mxFrame)
    BY DEF RInv
  <2> QED BY <1>1, <1>2, <1>8, <1>10, <1>11, <2>1 DEF LogKeeps
<1>13. lk = -1
  <2>1. CASE r.tx = 0
    <3>1. r.readLock = -1
      BY <1>1, <1>2, <2>1 DEF RConnOK, LockOK
    <3> QED BY <1>l, <2>1, <3>1
  <2> QED BY <1>l, <2>1
<1>14. GoesOn(Live, Live', r, s)
  <2>1. -1 \in -1..(NReader - 1) /\ ~(-1 > 0) /\ -1 <= 0
    BY NReaderAssumption
  <2> QED BY <1>5, <1>7, <1>13, <2>1 DEF GoesOn, LockOK
<1>15. EntersOK(wal'.f, aPgno', s)
  <2>1. 0 <= Len(wal.f)
    BY RTypes
  <2> QED BY <1>1, <1>2, <1>7, <2>1 DEF EntersOK, Indexed
<1>16. Restarting(c)
  BY <1>1 DEF Restarting
<1> QED BY <1>8, <1>12, <1>14, <1>15, <1>16, RKept

\* A writer that puts frames behind the live ones, and keeps the page of each frame
\* that it has entered in the index.
LEMMA RWrites ==
  ASSUME IInv, IInv', RInv, NEW c \in Procs, NEW r, r = conn[c], NEW s, s = conn'[c], Others(c),
         r.writeLock, ~r.ckptLock, r.pc \in {"frame1", "frames"}, s.pc \in {"frame1", "frames"},
         s.readLock = r.readLock, s.minFrame = r.minFrame, s.writeLock, ~s.ckptLock,
         s.hdr.mxFrame = r.hdr.mxFrame,
         UNCHANGED <<db, index>>,
         Len(wal'.f) <= MaxFrame, Len(walDisk'.f) <= MaxFrame, r.hdr.mxFrame <= Len(wal'.f),
         Live.mxFrame <= r.hdr.mxFrame,
         \A i \in 1..r.hdr.mxFrame : wal'.f[i].pg = wal.f[i].pg,
         \A i \in 1..Live.mxFrame : wal'.f[i].val = wal.f[i].val
  PROVE  RInv' /\ \A d \in Procs : Stays(d)
<1>1. /\ Live' = Live /\ aPgno' = aPgno /\ nBackfill' = nBackfill /\ aReadMark' = aReadMark
      /\ db' = db
  BY DEF index, Live
<1>2. RConnOK(c) /\ Live.mxFrame \in Nat /\ r.hdr.mxFrame \in Nat
  BY RTypes DEF RInv
<1>3. \A i \in 1..Live.mxFrame : i \in 1..r.hdr.mxFrame
  BY <1>2
<1>4. Indexed(wal'.f, aPgno', Live'.mxFrame)
  BY <1>1, <1>3 DEF RInv, Indexed
<1>5. \A d \in Procs \ {c} : ~conn[d].writeLock
  BY DEF IInv, LocksOK
<1>6. LogKeeps(c)
  <2>1. aPgno \in [1..MaxFrame -> Nat] /\ Live.mxFrame <= Live.mxFrame
    BY <1>2 DEF RInv
  <2> QED BY <1>1, <1>3, <1>4, <1>5, <2>1 DEF LogKeeps
<1>7. LockOK(r) /\ EntersOK(wal.f, aPgno, r) /\ ReaderOK(wal.f, db, Live, aReadMark, r)
  BY <1>2 DEF RConnOK
<1>8. LockOK(s)
  BY <1>7 DEF LockOK
<1>9. TopOf(Live', s) = TopOf(Live, r) /\ TopOf(Live, r) \in Nat
  BY <1>1, <1>2 DEF TopOf
<1>10. GoesOn(Live, Live', r, s)
  BY <1>1, <1>7, <1>8, <1>9 DEF GoesOn, ReaderOK
<1>11. EntersOK(wal'.f, aPgno', s)
  BY <1>1, <1>7 DEF EntersOK, Indexed
<1> QED BY <1>6, <1>10, <1>11, RKept DEF Restarting

\* A new header of the file, before its first frame.
LEMMA RWriteWalHdr ==
  ASSUME IInv, IInv', RInv, NEW c \in Procs, WriteWalHdr(c)
  PROVE  RInv' /\ \A d \in Procs : Stays(d)
<1> PICK r : r = conn[c]
  OBVIOUS
<1>n. PICK n : n = IF salts' = salts THEN r.hdr.salt ELSE salts'
  OBVIOUS
<1>e. PICK e \in Seq(Bodies) : e = <<>>
  <2>1. <<>> \in Seq(Bodies)
    OBVIOUS
  <2> QED BY <2>1, Zenon
<1>h. PICK h : h = [r.hdr EXCEPT !.salt = n, !.cksum = e]
  OBVIOUS
<1> DEFINE s == [r EXCEPT !.pc = "frame1", !.hdr = h]
<1>1. /\ r.pc = "frames" /\ ~(r.iFrame > 0)
      /\ wal' = [wal EXCEPT !.salt = n] /\ walDisk' = SyncedWal(wal')
      /\ UNCHANGED <<db, index>>
  BY <1>n DEF WriteWalHdr, HasWalHdr
<1>2. /\ Conn(r) /\ r.writeLock /\ ~r.ckptLock /\ r.hdr \in Hdr
      /\ Live.mxFrame <= r.hdr.mxFrame /\ r.hdr.mxFrame <= r.iFrame
      /\ r.hdr.mxFrame \in Nat /\ r.iFrame \in Nat /\ Live.mxFrame \in Nat
  BY <1>1, WriterFacts
<1>3. r.hdr.mxFrame = 0
  BY <1>1, <1>2
<1>4. conn' = [conn EXCEPT ![c] = s]
  <2>1. conn' = [conn EXCEPT ![c].pc = "frame1", ![c].hdr.salt = n, ![c].hdr.cksum = e]
    BY <1>n, <1>e DEF WriteWalHdr
  <2>2. conn' = [conn EXCEPT ![c] = [r EXCEPT !.pc = "frame1",
                                              !.hdr = [r.hdr EXCEPT !.salt = n, !.cksum = e]]]
    <3>1. conn = [d \in Procs |-> conn[d]]
      BY ConnType
    <3> QED BY <2>1, <3>1
  <2> QED BY <1>h, <2>2
<1>5. h.mxFrame = 0
  BY <1>2, <1>3, <1>h DEF Hdr
<1>6. /\ s.pc = "frame1" /\ s.hdr = h /\ s.readLock = r.readLock /\ s.minFrame = r.minFrame
      /\ s.writeLock /\ ~s.ckptLock
  BY <1>2 DEF Conn, ConnWith
<1> HIDE DEF s
<1>7. Others(c) /\ conn'[c] = s
  BY <1>4, ConnType DEF Others
<1>8. wal \in WalFile /\ wal' \in WalFile /\ wal'.f = wal.f
  <2>1. wal \in WalFile /\ wal' \in WalFile
    BY DEF IInv, Typed
  <2> QED BY <1>1, <2>1 DEF WalFile
<1>9. Len(walDisk'.f) = Len(wal'.f) /\ Len(wal'.f) <= MaxFrame /\ Len(wal'.f) \in Nat
  <2>1. Len(wal.f) <= MaxFrame
    BY DEF RInv
  <2>2. wal' \in WalFile /\ walDisk' = SyncedWal(wal')
    BY <1>1, <1>8
  <2>3. Len(walDisk'.f) = Len(wal'.f)
    BY <2>2, SyncedType
  <2> QED BY <1>8, <2>1, <2>3 DEF WalFile
<1> QED BY <1>1, <1>2, <1>3, <1>5, <1>6, <1>7, <1>8, <1>9, RWrites

\* What a file holds when a frame has been put in its place.
LEMMA PutKeeps ==
  ASSUME NEW f \in Seq(Frame), NEW i \in Nat \ {0}, NEW fr
  PROVE  /\ Len(Put(f, i, fr)) = IF i > Len(f) THEN i ELSE Len(f)
         /\ \A j \in 1..Len(f) : j # i => Put(f, i, fr)[j] = f[j]
<1> PICK n \in Nat : n = Len(f)
  OBVIOUS
<1> PICK m \in Nat : m = IF i > n THEN i ELSE n
  OBVIOUS
<1>1. Max({i, Len(f)}) = m
  BY MaxOfTwo
<1>2. Put(f, i, fr) = [j \in 1..m |-> IF j = i THEN fr ELSE f[j]]
  BY <1>1 DEF Put
<1>3. \A j \in 1..Len(f) : j \in 1..m
  OBVIOUS
<1> QED BY <1>2, <1>3

\* One page, over the frame that an earlier spill wrote or behind the last one.
LEMMA RWriteFrame ==
  ASSUME IInv, IInv', RInv, NEW c \in Procs, WriteFrame(c)
  PROVE  RInv' /\ \A d \in Procs : Stays(d)
<1> PICK r : r = conn[c]
  OBVIOUS
<1>p. PICK p : p = Min(r.todo)
  OBVIOUS
<1>o. PICK old : old = FindFrame(c, p)
  OBVIOUS
<1>l. PICK last \in BOOLEAN : last = (r.commit /\ r.todo = {p})
  OBVIOUS
<1>1. /\ r.pc \in {"frame1", "frames"} /\ (r.iFrame > 0 \/ r.pc = "frame1")
      /\ UNCHANGED <<db, index>>
  BY DEF WriteFrame, HasWalHdr
<1>2. /\ Conn(r) /\ r.writeLock /\ ~r.ckptLock
      /\ Live.mxFrame <= r.hdr.mxFrame /\ r.hdr.mxFrame <= r.iFrame
      /\ r.iFrame > 0 \/ r.pc = "frame1" => Chained(wal, r)
      /\ r.iFirst = 0 \/ Live.mxFrame < r.iFirst
      /\ r.hdr \in Hdr /\ r.hdr.mxFrame \in Nat /\ r.iFrame \in Nat /\ r.iReCksum \in Nat
      /\ r.iFirst \in Nat /\ Live.mxFrame \in Nat
  BY <1>1, WriterFacts
<1>3. old \in Nat /\ old <= r.hdr.mxFrame
  BY <1>o, FoundIn
<1>4. /\ wal \in WalFile /\ wal.f \in Seq(Frame) /\ Len(wal.f) \in Nat /\ Len(wal.f) <= MaxFrame
      /\ wal' \in WalFile /\ Len(wal'.f) \in Nat /\ r.iFrame <= Len(wal.f)
      /\ wal'.f # <<>> => Len(walDisk'.f) = Len(wal'.f)
  <2>1. Chained(wal, r) /\ Extent(r) = r.iFrame
    BY <1>1, <1>2 DEF Extent
  <2> QED BY <2>1 DEF IInv, Typed, WalFile, Chained, RInv, DiskOK
<1>t. PICK t : t = r.todo \ {p}
  OBVIOUS
<1>5. CASE r.iFirst > 0 /\ ~last /\ old >= r.iFirst
  <2>v. PICK v : v = IF r.commit THEN Final(r.tx) ELSE Draft(r.tx)
    OBVIOUS
  <2>k. PICK k : k = IF r.iReCksum = 0 \/ old < r.iReCksum THEN old ELSE r.iReCksum
    OBVIOUS
  <2> DEFINE s == [r EXCEPT !.todo = t, !.iReCksum = k]
  <2>1. /\ wal' = [wal EXCEPT !.f[old].val = v]
        /\ conn' = [conn EXCEPT ![c].todo = @ \ {p},
                      ![c].iReCksum = IF @ = 0 \/ old < @ THEN old ELSE @]
    BY <1>p, <1>o, <1>l, <1>5, <2>v DEF WriteFrame
  <2>2. conn' = [conn EXCEPT ![c] = s]
    BY <1>2, <1>t, <2>k, <2>1, ConnType DEF Conn, ConnWith
  <2>3. /\ s.pc = r.pc /\ s.hdr = r.hdr /\ s.readLock = r.readLock /\ s.minFrame = r.minFrame
        /\ s.writeLock /\ ~s.ckptLock
    BY <1>2 DEF Conn, ConnWith
  <2> HIDE DEF s
  <2>4. Others(c) /\ conn'[c] = s
    BY <2>2, ConnType DEF Others
  <2>5. old \in 1..Len(wal.f) /\ Live.mxFrame < old
    BY <1>2, <1>3, <1>4, <1>5
  <2>6. wal'.f = [wal.f EXCEPT ![old] = [wal.f[old] EXCEPT !.val = v]] /\ wal.f[old] \in Frame
    BY <1>4, <2>1, <2>5, FrameOf DEF WalFile
  <2>7. /\ Len(wal'.f) = Len(wal.f) /\ \A j \in 1..Len(wal.f) : j # old => wal'.f[j] = wal.f[j]
        /\ wal'.f[old].pg = wal.f[old].pg
    <3>g. PICK g : g = [wal.f[old] EXCEPT !.val = v]
      OBVIOUS
    <3>1. g.pg = wal.f[old].pg
      BY <2>6, <3>g DEF Frame
    <3>2. wal'.f = [wal.f EXCEPT ![old] = g]
      BY <2>6, <3>g
    <3> QED BY <1>4, <2>5, <3>1, <3>2
  <2>8. wal'.f # <<>>
    BY <1>4, <2>5, <2>7
  <2>9. /\ \A i \in 1..r.hdr.mxFrame : wal'.f[i].pg = wal.f[i].pg
        /\ \A i \in 1..Live.mxFrame : wal'.f[i].val = wal.f[i].val
    <3>1. \A i \in 1..r.hdr.mxFrame : i \in 1..Len(wal.f)
      BY <1>2, <1>4
    <3>2. \A i \in 1..Live.mxFrame : i \in 1..Len(wal.f) /\ i # old
      BY <1>2, <1>4, <2>5
    <3> QED BY <2>7, <3>1, <3>2
  <2>10. r.hdr.mxFrame <= Len(wal'.f)
    BY <1>2, <1>4, <2>7
  <2> QED BY <1>1, <1>2, <1>4, <2>3, <2>4, <2>7, <2>8, <2>9, <2>10, RWrites
<1>6. CASE ~(r.iFirst > 0 /\ ~last /\ old >= r.iFirst)
  <2>m. PICK m \in Nat \ {0} : m = r.iFrame + 1
    BY <1>2
  <2>w. PICK new : new = EncodeFrame(r, [pg |-> p, val |-> IF r.commit THEN Final(r.tx) ELSE Draft(r.tx),
                                         trunc |-> last])
    OBVIOUS
  <2>k. PICK k : k = IF new.salt = 0 THEN r.hdr.cksum ELSE new.cksum
    OBVIOUS
  <2>h. PICK h : h = [r.hdr EXCEPT !.cksum = k]
    OBVIOUS
  <2> DEFINE s == [r EXCEPT !.todo = t, !.iFrame = m, !.hdr = h, !.pc = "frames"]
  <2>1. /\ r.iFrame < MaxFrame
        /\ wal' = [wal EXCEPT !.f = Put(@, r.iFrame + 1, new)]
        /\ conn' = [conn EXCEPT ![c].todo = @ \ {p}, ![c].iFrame = @ + 1,
                ![c].hdr.cksum = IF new.salt = 0 THEN @ ELSE new.cksum,
                ![c].pc = "frames"]
    BY <1>p, <1>o, <1>l, <1>6, <2>w DEF WriteFrame
  <2>2. conn' = [conn EXCEPT ![c] = s]
    <3>1. conn' = [conn EXCEPT ![c] = [r EXCEPT !.todo = t, !.iFrame = m,
                                             !.hdr = [r.hdr EXCEPT !.cksum = k], !.pc = "frames"]]
      BY <1>2, <1>t, <2>m, <2>k, <2>1, ConnType DEF Conn, ConnWith
    <3> QED BY <2>h, <3>1
  <2>3. /\ s.pc = "frames" /\ s.hdr = h /\ s.readLock = r.readLock /\ s.minFrame = r.minFrame
        /\ s.writeLock /\ ~s.ckptLock
    BY <1>2 DEF Conn, ConnWith
  <2>3h. h.mxFrame = r.hdr.mxFrame
    BY <1>2, <2>h DEF Hdr
  <2> HIDE DEF s
  <2>4. Others(c) /\ conn'[c] = s
    BY <2>2, ConnType DEF Others
  <2>5. wal'.f = Put(wal.f, m, new)
    BY <1>4, <2>m, <2>1 DEF WalFile
  <2>6. /\ Len(wal'.f) = IF m > Len(wal.f) THEN m ELSE Len(wal.f)
        /\ \A j \in 1..Len(wal.f) : j # m => wal'.f[j] = wal.f[j]
    BY <1>4, <2>5, PutKeeps
  <2>7. Len(wal'.f) <= MaxFrame /\ Len(wal'.f) > 0 /\ r.hdr.mxFrame <= Len(wal'.f)
    BY <1>2, <1>4, <2>m, <2>1, <2>6, MaxFrameAssumption
  <2>8. wal'.f # <<>>
    BY <2>7
  <2>9. \A i \in 1..r.hdr.mxFrame : wal'.f[i] = wal.f[i]
    <3>1. \A i \in 1..r.hdr.mxFrame : i \in 1..Len(wal.f) /\ i # m
      BY <1>2, <1>4, <2>m
    <3> QED BY <2>6, <3>1
  <2>10. \A i \in 1..Live.mxFrame : i \in 1..r.hdr.mxFrame
    BY <1>2
  <2> QED BY <1>1, <1>2, <1>4, <2>3, <2>3h, <2>4, <2>7, <2>8, <2>9, <2>10, RWrites
<1> QED BY <1>5, <1>6

\* Checksums that are computed again leave pages and contents alone.
LEMMA RRewriteChecksums ==
  ASSUME IInv, IInv', RInv, NEW c \in Procs, RewriteChecksums(c)
  PROVE  RInv' /\ \A d \in Procs : Stays(d)
<1> PICK r : r = conn[c]
  OBVIOUS
<1>1. r.pc = "frames" /\ r.iReCksum > 0 /\ UNCHANGED <<db, index>>
  BY DEF RewriteChecksums
<1>2. /\ Conn(r) /\ r.writeLock /\ ~r.ckptLock
      /\ Live.mxFrame <= r.hdr.mxFrame /\ r.hdr.mxFrame <= r.iFrame
      /\ r.iFrame > 0 \/ r.pc = "frame1" => Chained(wal, r)
      /\ r.iReCksum # 0 => r.iReCksum <= r.iFrame
      /\ r.hdr \in Hdr /\ r.hdr.mxFrame \in Nat /\ r.iFrame \in Nat /\ r.iReCksum \in Nat
      /\ Live.mxFrame \in Nat
  BY <1>1, WriterFacts
<1>3. /\ wal \in WalFile /\ wal.f \in Seq(Frame) /\ Len(wal.f) \in Nat /\ Len(wal.f) <= MaxFrame
      /\ wal' \in WalFile /\ Len(wal'.f) \in Nat /\ r.iFrame <= Len(wal.f) /\ r.iFrame > 0
      /\ wal'.f # <<>> => Len(walDisk'.f) = Len(wal'.f)
  <2>1. r.iFrame > 0 /\ Extent(r) = r.iFrame
    BY <1>1, <1>2 DEF Extent
  <2> QED BY <1>2, <2>1 DEF IInv, Typed, WalFile, Chained, RInv, DiskOK
<1>k. PICK k : k = r.iReCksum
  OBVIOUS
<1>b. PICK base : base = IF k = 1 THEN <<>> ELSE wal.f[k - 1].cksum
  OBVIOUS
<1> DEFINE Sum(i) == base \o [j \in 1..(i - k + 1) |-> Body(wal.f[k + j - 1])]
<1>4. /\ wal' = [wal EXCEPT !.f = [i \in 1..Len(@) |->
                    IF i \in k..r.iFrame THEN [@[i] EXCEPT !.salt = r.hdr.salt, !.cksum = Sum(i)]
                    ELSE @[i]]]
      /\ conn' = [conn EXCEPT ![c].iReCksum = 0, ![c].hdr.cksum = Sum(r.iFrame)]
  BY <1>k, <1>b DEF RewriteChecksums
<1> HIDE DEF Sum
<1>e. PICK e : e = Sum(r.iFrame)
  OBVIOUS
<1>h. PICK h : h = [r.hdr EXCEPT !.cksum = e]
  OBVIOUS
<1> DEFINE s == [r EXCEPT !.iReCksum = 0, !.hdr = h]
<1>5. conn' = [conn EXCEPT ![c] = s]
  <2>1. conn' = [conn EXCEPT ![c] = [r EXCEPT !.iReCksum = 0, !.hdr = [r.hdr EXCEPT !.cksum = e]]]
    BY <1>2, <1>4, <1>e, ConnType DEF Conn, ConnWith
  <2> QED BY <1>h, <2>1
<1>6. /\ s.pc = "frames" /\ s.hdr = h /\ s.readLock = r.readLock /\ s.minFrame = r.minFrame
      /\ s.writeLock /\ ~s.ckptLock
  BY <1>1, <1>2 DEF Conn, ConnWith
<1>7. h.mxFrame = r.hdr.mxFrame
  BY <1>2, <1>h DEF Hdr
<1> HIDE DEF s
<1>8. Others(c) /\ conn'[c] = s
  BY <1>5, ConnType DEF Others
<1>9. Len(wal'.f) = Len(wal.f) /\ \A i \in 1..Len(wal.f) : wal'.f[i].pg = wal.f[i].pg
                                                     /\ wal'.f[i].val = wal.f[i].val
  <2>1. wal'.f = [i \in 1..Len(wal.f) |->
                    IF i \in k..r.iFrame
                    THEN [wal.f[i] EXCEPT !.salt = r.hdr.salt, !.cksum = Sum(i)]
                    ELSE wal.f[i]]
    BY <1>3, <1>4 DEF WalFile
  <2>2. Len(wal'.f) = Len(wal.f)
    <3>1. DOMAIN wal'.f = 1..Len(wal.f)
      BY <2>1
    <3>2. wal'.f \in Seq(Frame)
      BY <1>3 DEF WalFile
    <3> QED BY <1>3, <3>1, <3>2
  <2>3. ASSUME NEW i \in 1..Len(wal.f)
        PROVE  wal'.f[i].pg = wal.f[i].pg /\ wal'.f[i].val = wal.f[i].val
    <3>1. wal.f[i] \in Frame
      BY <1>3, FrameOf
    <3>2. CASE i \in k..r.iFrame
      <4>1. wal'.f[i] = [wal.f[i] EXCEPT !.salt = r.hdr.salt, !.cksum = Sum(i)]
        BY <2>1, <3>2
      <4> QED BY <3>1, <4>1 DEF Frame
    <3>3. CASE i \notin k..r.iFrame
      BY <2>1, <3>3
    <3> QED BY <3>2, <3>3
  <2> QED BY <2>2, <2>3
<1>10. wal'.f # <<>> /\ r.hdr.mxFrame <= Len(wal'.f)
  BY <1>2, <1>3, <1>9
<1>11. /\ \A i \in 1..r.hdr.mxFrame : i \in 1..Len(wal.f)
       /\ \A i \in 1..Live.mxFrame : i \in 1..Len(wal.f)
  BY <1>2, <1>3
<1> QED BY <1>1, <1>2, <1>3, <1>6, <1>7, <1>8, <1>9, <1>10, <1>11, RWrites

\* walIndexAppend enters what the writer has put behind the frames entered before.
LEMMA AppendedOK ==
  ASSUME IInv, RInv, NEW c \in Procs, conn[c].pc = "frames"
  PROVE  /\ Appended(c) \in [1..MaxFrame -> Nat]
         /\ conn[c].iFrame <= Len(wal.f)
         /\ Indexed(wal.f, Appended(c), conn[c].iFrame)
         /\ Indexed(wal.f, Appended(c), Live.mxFrame)
<1> PICK r : r = conn[c]
  OBVIOUS
<1>1. /\ r.writeLock /\ Live.mxFrame <= r.hdr.mxFrame /\ r.hdr.mxFrame <= r.iFrame
      /\ r.hdr.mxFrame \in Nat /\ r.iFrame \in Nat /\ Live.mxFrame \in Nat
      /\ r.iFrame > 0 => Chained(wal, r)
  BY WriterFacts
<1>2. /\ wal \in WalFile /\ Len(wal.f) \in Nat /\ Len(wal.f) <= MaxFrame /\ MaxFrame \in Nat
      /\ aPgno \in [1..MaxFrame -> Nat] /\ EntersOK(wal.f, aPgno, r)
  <2>1. wal \in WalFile
    BY DEF IInv, Typed
  <2> QED BY <2>1, RTypes DEF RInv, RConnOK
<1>3. r.iFrame <= Len(wal.f)
  <2>1. Extent(r) = r.iFrame
    BY DEF Extent
  <2>2. CASE r.iFrame > 0
    BY <1>1, <2>1, <2>2 DEF Chained
  <2> QED BY <1>1, <1>2, <2>2
<1>i. Indexed(wal.f, aPgno, r.hdr.mxFrame)
  BY <1>1, <1>2 DEF EntersOK
<1>x. PICK stale : Appended(c) = [i \in 1..MaxFrame |->
          IF i \in (r.hdr.mxFrame + 1)..r.iFrame THEN wal.f[i].pg
          ELSE IF i > r.iFrame /\ stale THEN 0 ELSE aPgno[i]]
  BY DEF Appended
<1>4. \A i \in 1..r.iFrame : i \in 1..Len(wal.f) /\ i \in 1..MaxFrame /\ wal.f[i].pg \in Nat
  <2> SUFFICES ASSUME NEW i \in 1..r.iFrame
               PROVE  i \in 1..Len(wal.f) /\ i \in 1..MaxFrame /\ wal.f[i].pg \in Nat
    OBVIOUS
  <2>1. i \in 1..Len(wal.f) /\ i \in 1..MaxFrame
    BY <1>1, <1>2, <1>3
  <2> QED BY <1>2, <2>1, FrameOf DEF Frame
<1>5. \A i \in (r.hdr.mxFrame + 1)..r.iFrame : i \in 1..r.iFrame
  BY <1>1
<1>6. Appended(c) \in [1..MaxFrame -> Nat]
  <2>1. \A i \in 1..MaxFrame : (IF i \in (r.hdr.mxFrame + 1)..r.iFrame THEN wal.f[i].pg
          ELSE IF i > r.iFrame /\ stale THEN 0 ELSE aPgno[i]) \in Nat
    BY <1>2, <1>4, <1>5
  <2> QED BY <1>x, <2>1
<1>7. Indexed(wal.f, Appended(c), r.iFrame)
  <2> SUFFICES ASSUME NEW i \in 1..r.iFrame PROVE Appended(c)[i] = wal.f[i].pg
    BY DEF Indexed
  <2>1. i \in 1..MaxFrame /\ ~(i > r.iFrame)
    BY <1>1, <1>4
  <2>2. i \in (r.hdr.mxFrame + 1)..r.iFrame \/ i \in 1..r.hdr.mxFrame
    BY <1>1
  <2>3. i \in 1..r.hdr.mxFrame => aPgno[i] = wal.f[i].pg
    BY <1>i DEF Indexed
  <2>4. Appended(c)[i] = (IF i \in (r.hdr.mxFrame + 1)..r.iFrame THEN wal.f[i].pg ELSE aPgno[i])
    BY <1>x, <2>1
  <2> QED BY <2>2, <2>3, <2>4
<1>8. Indexed(wal.f, Appended(c), Live.mxFrame)
  <2>1. \A i \in 1..Live.mxFrame : i \in 1..r.iFrame
    BY <1>1
  <2> QED BY <1>7, <2>1 DEF Indexed
<1> QED BY <1>3, <1>6, <1>7, <1>8

\* A writer that has entered its frames, which no other connection sees yet.
LEMMA REntered ==
  ASSUME IInv, IInv', RInv, NEW c \in Procs, NEW r, r = conn[c], NEW s, s = conn'[c], Others(c),
         r.pc = "frames", s.pc \in {"write", "publish"}, s.readLock = r.readLock,
         s.minFrame = r.minFrame, s.writeLock, ~s.ckptLock, s.hdr.mxFrame = r.iFrame,
         aPgno' = Appended(c), Live' = Live,
         UNCHANGED <<db, wal, nBackfill, aReadMark>>,
         walDisk' = walDisk \/ Len(walDisk'.f) = Len(wal.f)
  PROVE  RInv' /\ \A d \in Procs : Stays(d)
<1>1. RConnOK(c) /\ Live.mxFrame \in Nat /\ r.writeLock /\ ~r.ckptLock
  BY RTypes, WriterFacts DEF RInv
<1>2. /\ aPgno' \in [1..MaxFrame -> Nat] /\ r.iFrame <= Len(wal.f)
      /\ Indexed(wal.f, aPgno', r.iFrame) /\ Indexed(wal.f, aPgno', Live.mxFrame)
  BY AppendedOK
<1>3. \A d \in Procs \ {c} : ~conn[d].writeLock
  BY <1>1 DEF IInv, LocksOK
<1>4. LogKeeps(c)
  <2>1. Len(wal.f) <= MaxFrame /\ Len(walDisk'.f) <= MaxFrame
    BY DEF RInv
  <2> QED BY <1>1, <1>2, <1>3, <2>1 DEF LogKeeps
<1>5. LockOK(r) /\ ReaderOK(wal.f, db, Live, aReadMark, r)
  BY <1>1 DEF RConnOK
<1>6. LockOK(s)
  BY <1>5 DEF LockOK
<1>7. TopOf(Live', s) = TopOf(Live, r) /\ TopOf(Live, r) \in Nat
  BY <1>1 DEF TopOf
<1>8. GoesOn(Live, Live', r, s)
  BY <1>5, <1>6, <1>7 DEF GoesOn, ReaderOK
<1>9. EntersOK(wal'.f, aPgno', s)
  BY <1>2 DEF EntersOK
<1> QED BY <1>4, <1>8, <1>9, RKept DEF Restarting

\* A spill enters its frames in the index and in the private header.
LEMMA RFinishSpill ==
  ASSUME IInv, IInv', RInv, NEW c \in Procs, FinishSpill(c)
  PROVE  RInv' /\ \A d \in Procs : Stays(d)
<1> PICK r : r = conn[c]
  OBVIOUS
<1>h. PICK h : h = [r.hdr EXCEPT !.mxFrame = r.iFrame]
  OBVIOUS
<1> DEFINE s == [r EXCEPT !.pc = "write", !.hdr = h]
<1>1. /\ r.pc = "frames" /\ aPgno' = Appended(c)
      /\ UNCHANGED <<db, wal, walDisk, aHdr, nBackfill, aReadMark>>
  BY DEF FinishSpill, files
<1>2. Conn(r) /\ r.writeLock /\ ~r.ckptLock /\ r.hdr \in Hdr
  BY <1>1, WriterFacts
<1>3. conn' = [conn EXCEPT ![c] = s]
  BY <1>2, <1>h, ConnType DEF FinishSpill
<1>4. /\ s.pc = "write" /\ s.hdr = h /\ s.readLock = r.readLock /\ s.minFrame = r.minFrame
      /\ s.writeLock /\ ~s.ckptLock
  BY <1>2 DEF Conn, ConnWith
<1>5. h.mxFrame = r.iFrame
  BY <1>2, <1>h DEF Hdr
<1> HIDE DEF s
<1>6. Others(c) /\ conn'[c] = s
  BY <1>3, ConnType DEF Others
<1>7. Live' = Live
  BY <1>1 DEF Live
<1> QED BY <1>1, <1>4, <1>5, <1>6, <1>7, REntered

\* The first half of a commit: the second copy of the header is not the live one.
LEMMA RPublishHdr1 ==
  ASSUME IInv, IInv', RInv, NEW c \in Procs, PublishHdr1(c)
  PROVE  RInv' /\ \A d \in Procs : Stays(d)
<1> PICK r : r = conn[c]
  OBVIOUS
<1>1. /\ r.pc = "frames" /\ aPgno' = Appended(c)
      /\ UNCHANGED <<db, wal, nBackfill, aReadMark>>
      /\ aHdr' = [aHdr EXCEPT ![1] = conn'[c].hdr]
  BY DEF PublishHdr1
<1>2. Conn(r) /\ r.writeLock /\ ~r.ckptLock /\ r.hdr \in Hdr
  BY <1>1, WriterFacts
<1>f. PICK y : y \in SyncModes
           /\ walDisk' = (IF y = "FULL" THEN SyncedWal(wal) ELSE walDisk)
           /\ conn' = [conn EXCEPT ![c].pc = "publish", ![c].synced = (y = "FULL"),
                           ![c].hdr.mxFrame = conn[c].iFrame, ![c].hdr.iChange = @ + 1]
  BY DEF PublishHdr1
<1>b. PICK b : b = (y = "FULL")
  OBVIOUS
<1>h. PICK h : h = [r.hdr EXCEPT !.mxFrame = r.iFrame, !.iChange = r.hdr.iChange + 1]
  OBVIOUS
<1> DEFINE s == [r EXCEPT !.pc = "publish", !.synced = b, !.hdr = h]
<1>3. conn' = [conn EXCEPT ![c] = s]
  <2>1. conn' = [conn EXCEPT ![c].pc = "publish", ![c].synced = b,
                             ![c].hdr.mxFrame = r.iFrame, ![c].hdr.iChange = r.hdr.iChange + 1]
    BY <1>2, <1>f, <1>b, ConnType DEF Conn, ConnWith, Hdr
  <2>2. conn' = [conn EXCEPT ![c] = [r EXCEPT !.pc = "publish", !.synced = b,
            !.hdr = [r.hdr EXCEPT !.mxFrame = r.iFrame, !.iChange = r.hdr.iChange + 1]]]
    BY <1>2, <2>1, ConnType DEF Conn, ConnWith, Hdr
  <2> QED BY <1>h, <2>2
<1>4. /\ s.pc = "publish" /\ s.hdr = h /\ s.readLock = r.readLock /\ s.minFrame = r.minFrame
      /\ s.writeLock /\ ~s.ckptLock
  BY <1>2 DEF Conn, ConnWith
<1>5. h.mxFrame = r.iFrame
  BY <1>2, <1>h DEF Hdr
<1> HIDE DEF s
<1>6. Others(c) /\ conn'[c] = s
  BY <1>3, ConnType DEF Others
<1>7. Live' = Live
  BY <1>1, ConnType DEF Live
<1>8. walDisk' = walDisk \/ Len(walDisk'.f) = Len(wal.f)
  <2>1. wal \in WalFile
    BY DEF IInv, Typed
  <2> QED BY <1>f, <2>1, SyncedType
<1> QED BY <1>1, <1>4, <1>5, <1>6, <1>7, <1>8, REntered

\* The commit itself: the log is longer for whoever begins to read now.
LEMMA RPublishHdr0 ==
  ASSUME IInv, IInv', RInv, NEW c \in Procs, PublishHdr0(c)
  PROVE  RInv' /\ \A d \in Procs : Stays(d)
<1> PICK r : r = conn[c]
  OBVIOUS
<1>1. /\ Conn(r) /\ ConnOK(c) /\ RConnOK(c) /\ r.pc = "publish" /\ Live.mxFrame \in Nat
      /\ UNCHANGED <<db, wal, walDisk, aPgno, nBackfill, aReadMark>>
      /\ aHdr' = [aHdr EXCEPT ![0] = r.hdr]
  BY RTypes DEF PublishHdr0, files, RInv
<1>2. /\ r.writeLock /\ ~r.ckptLock /\ Live.mxFrame <= r.hdr.mxFrame
  BY <1>1 DEF ConnOK, PlaceOK, WriterOK
<1>3. /\ r.hdr \in Hdr /\ r.readLock \in Int /\ r.minFrame \in Nat /\ r.hdr.mxFrame \in Nat
  BY <1>1 DEF Conn, ConnWith, Hdr
<1>4. Live' = r.hdr
  BY <1>1, ConnType DEF Live
<1>y. PICK y : y = LET new == [p \in Pages |-> ReadPage(c, p)]
                       own == {Draft(r.tx), Final(r.tx)}
                   IN  [p \in Pages |-> IF new[p] \in own THEN new[p] ELSE r.cache[p]]
  OBVIOUS
<1>s. PICK s : s = Holding(Rest("read", r.hdr, y), r.readLock, r.minFrame)
  OBVIOUS
<1>5. conn' = [conn EXCEPT ![c] = s]
  BY <1>y, <1>s DEF PublishHdr0, Holding
<1>6. /\ s.pc = "read" /\ s.hdr = r.hdr /\ ~s.writeLock /\ ~s.ckptLock
      /\ s.readLock = r.readLock /\ s.minFrame = r.minFrame
  BY <1>s DEF Holding, Rest
<1>7. Others(c) /\ conn'[c] = s
  BY <1>5, ConnType DEF Others
<1>8. LockOK(r) /\ EntersOK(wal.f, aPgno, r)
  BY <1>1 DEF RConnOK
<1>9. Indexed(wal.f, aPgno, r.hdr.mxFrame)
  BY <1>1, <1>2, <1>8 DEF EntersOK
<1>10. LogKeeps(c)
  <2>1. Len(wal.f) <= MaxFrame /\ Len(walDisk.f) <= MaxFrame /\ aPgno \in [1..MaxFrame -> Nat]
    BY DEF RInv
  <2>2. \A d \in Procs \ {c} : ~conn[d].writeLock
    BY <1>2 DEF IInv, LocksOK
  <2>3. r.hdr.salt = Live.salt \/ \A d \in Procs \ {c} : conn[d].ckptLock => conn[d].hdr.salt # r.hdr.salt
    BY <1>2 DEF IInv, SaltsDiffer
  <2> QED BY <1>1, <1>2, <1>4, <1>9, <2>1, <2>2, <2>3 DEF LogKeeps
<1>11. GoesOn(Live, Live', r, s)
  <2>1. LockOK(s)
    BY <1>6, <1>8 DEF LockOK
  <2> QED BY <1>1, <1>2, <1>3, <1>4, <1>6, <2>1 DEF GoesOn, TopOf
<1>12. EntersOK(wal'.f, aPgno', s)
  BY <1>6 DEF EntersOK
<1> QED BY <1>6, <1>7, <1>10, <1>11, <1>12, RKept DEF Restarting

\* A rollback, or a failed commit, takes back what lies behind the live log.
LEMMA RUndo ==
  ASSUME IInv, IInv', RInv, NEW c \in Procs, Undo(c)
  PROVE  RInv' /\ \A d \in Procs : Stays(d)
<1> PICK r : r = conn[c]
  OBVIOUS
<1>1. /\ Conn(r) /\ ConnOK(c) /\ RConnOK(c) /\ r.pc \in {"write", "frames", "frame1"}
      /\ Live.mxFrame \in Nat
      /\ UNCHANGED <<db, wal, walDisk, aHdr, nBackfill, aReadMark>>
  BY RTypes DEF Undo, files, RInv
<1>2. /\ r.writeLock /\ ~r.ckptLock /\ Live' = Live
      /\ r.readLock \in Int /\ r.minFrame \in Nat
  BY <1>1 DEF ConnOK, PlaceOK, Conn, ConnWith, Live
<1>s. PICK s : s = Holding(Rest("read", Live, r.cache), r.readLock, r.minFrame)
  OBVIOUS
<1>3. conn' = [conn EXCEPT ![c] = s]
  BY <1>s DEF Undo, Holding
<1>4. /\ s.pc = "read" /\ s.hdr = Live /\ ~s.writeLock /\ ~s.ckptLock
      /\ s.readLock = r.readLock /\ s.minFrame = r.minFrame
  BY <1>s DEF Holding, Rest
<1>5. Others(c) /\ conn'[c] = s
  BY <1>3, ConnType DEF Others
<1>6. /\ aPgno' \in [1..MaxFrame -> Nat]
      /\ \A i \in 1..Live.mxFrame : i \in 1..MaxFrame /\ aPgno'[i] = aPgno[i]
  <2>1. aPgno \in [1..MaxFrame -> Nat] /\ MaxFrame \in Nat /\ Len(wal.f) \in Nat
        /\ Live.mxFrame <= Len(wal.f) /\ Len(wal.f) <= MaxFrame
    BY RTypes DEF RInv
  <2>2. \A i \in 1..Live.mxFrame : i \in 1..MaxFrame /\ ~(i > Live.mxFrame)
    BY <1>1, <2>1
  <2>3. \/ aPgno' = aPgno
        \/ aPgno' = [i \in 1..MaxFrame |-> IF i > Live.mxFrame THEN 0 ELSE aPgno[i]]
    BY DEF Undo
  <2> QED BY <2>1, <2>2, <2>3
<1>7. LogKeeps(c)
  <2>1. Len(wal.f) <= MaxFrame /\ Len(walDisk.f) <= MaxFrame
        /\ Indexed(wal.f, aPgno, Live.mxFrame)
    BY DEF RInv
  <2>2. Indexed(wal.f, aPgno', Live.mxFrame)
    BY <1>6, <2>1 DEF Indexed
  <2>3. \A d \in Procs \ {c} : ~conn[d].writeLock
    BY <1>2 DEF IInv, LocksOK
  <2> QED BY <1>1, <1>2, <1>6, <2>1, <2>2, <2>3 DEF LogKeeps
<1>8. GoesOn(Live, Live', r, s)
  <2>1. LockOK(s)
    BY <1>1, <1>4 DEF LockOK, RConnOK
  <2> QED BY <1>1, <1>2, <1>4, <2>1 DEF GoesOn, TopOf
<1>9. EntersOK(wal'.f, aPgno', s)
  BY <1>4 DEF EntersOK
<1> QED BY <1>4, <1>5, <1>7, <1>8, <1>9, RKept DEF Restarting

------------------------------------------------------------------------------
(* Readers: steps that start the log again, empty the index or copy        *)

\* Without a wal-index nobody reads, and there is no log that one could read.
LEMMA RZero ==
  ASSUME IInv, IInv', RInv, ZeroIndex, db' = [p \in Pages |-> db'[p]],
         Len(wal'.f) <= MaxFrame, Len(walDisk'.f) <= MaxFrame,
         \A d \in Procs : /\ conn'[d].readLock = -1 /\ ~conn'[d].writeLock
                          /\ conn'[d].pc \in {"off", "idle", "unlinkwal"}
  PROVE  RInv' /\ \A d \in Procs : Stays(d)
<1>1. Live'.mxFrame = 0 /\ nBackfill' = 0 /\ aPgno' = [i \in 1..MaxFrame |-> 0]
  BY DEF ZeroIndex, Live, NoHdr
<1>2. -1 \in -1..(NReader - 1) /\ ~(-1 > 0) /\ -1 <= 0
  BY NReaderAssumption
<1>3. ASSUME NEW d \in Procs PROVE RConnOK(d)' /\ \A e \in Procs : Behind(Live', conn'[e], conn'[d])
  BY <1>2 DEF RConnOK, LockOK, ReaderOK, EntersOK, CopyOK, Looks, Behind
<1>4. aPgno' \in [1..MaxFrame -> Nat] /\ Indexed(wal'.f, aPgno', Live'.mxFrame)
      /\ DbHolds(wal'.f, db', nBackfill', Live'.mxFrame)
  BY <1>1 DEF Indexed, DbHolds
<1>5. NoReaders'
  BY <1>2 DEF NoReaders
<1>6. RInv'
  BY <1>3, <1>4, <1>5 DEF RInv
<1>7. \A d \in Procs : ~InTx(d)'
  BY DEF InTx, InWrite
<1> QED BY <1>6, <1>7 DEF Stays

\* A new connection, the first of which empties the index.
LEMMA ROpen ==
  ASSUME IInv, IInv', RInv, NEW c \in Procs, Open(c)
  PROVE  RInv' /\ \A d \in Procs : Stays(d)
<1> PICK s : s = Rest("idle", NoHdr, NoCache)
  OBVIOUS
<1>1. Off(c) /\ conn' = [conn EXCEPT ![c] = s] /\ UNCHANGED files
  BY DEF Open
<1>2. Conn(s) /\ s.pc = "idle" /\ ~s.writeLock /\ s.readLock = -1
  BY RestType, RestFields, ClosedType DEF Places
<1>3. Others(c) /\ conn'[c] = s
  BY <1>1, <1>2, MoveTo
<1>4. CASE \A d \in Procs : Off(d)
  <2>1. ASSUME NEW d \in Procs \ {c}
        PROVE  conn'[d].readLock = -1 /\ ~conn'[d].writeLock /\ conn'[d].pc = "off"
    <3>1. conn[d] = Closed
      BY <1>4, RTypes DEF ConnOK, PlaceOK, Off
    <3> QED BY <1>3, <3>1 DEF Others, Closed, Rest
  <2>2. /\ db' = [p \in Pages |-> db'[p]] /\ Len(wal'.f) <= MaxFrame
        /\ Len(walDisk'.f) <= MaxFrame
    BY <1>1 DEF files, RInv
  <2>3. ZeroIndex
    BY <1>4 DEF Open
  <2> QED BY <1>2, <1>3, <2>1, <2>2, <2>3, RZero
<1>5. CASE ~\A d \in Procs : Off(d)
  <2>1. UNCHANGED index
    BY <1>5 DEF Open
  <2>2. LogKeeps(c)
    BY <1>1, <2>1, LogUnmoved DEF Off
  <2> QED BY <1>2, <1>3, <2>2, RIdle
<1> QED BY <1>4, <1>5

\* The last connection deletes it.
LEMMA RUnlinkIndex ==
  ASSUME IInv, IInv', RInv, NEW c \in Procs, UnlinkIndex(c)
  PROVE  RInv' /\ \A d \in Procs : Stays(d)
<1> PICK r : r = conn[c]
  OBVIOUS
<1> DEFINE s == [r EXCEPT !.pc = "unlinkwal"]
<1>1. /\ r.pc = "unlink" /\ ZeroIndex /\ UNCHANGED files /\ Conn(r)
      /\ conn' = [conn EXCEPT ![c] = s]
  BY ConnType DEF UnlinkIndex
<1>2. ~r.writeLock /\ r.excl /\ r.readLock = -1
  BY <1>1, NoLockAt, RTypes DEF ConnOK, PlaceOK
<1>3. Conn(s) /\ s.pc = "unlinkwal" /\ ~s.writeLock /\ s.readLock = -1
  BY <1>1, <1>2 DEF Conn, ConnWith, Places
<1> HIDE DEF s
<1>4. Others(c) /\ conn'[c] = s
  BY <1>1, <1>3, MoveTo
<1>5. ASSUME NEW d \in Procs \ {c}
      PROVE  conn'[d].readLock = -1 /\ ~conn'[d].writeLock /\ conn'[d].pc = "off"
  <2>1. Off(d)
    BY <1>2 DEF IInv, LocksOK
  <2>2. conn[d] = Closed
    BY <2>1, RTypes DEF ConnOK, PlaceOK, Off
  <2> QED BY <1>4, <2>2 DEF Others, Closed, Rest
<1>6. /\ db' = [p \in Pages |-> db'[p]] /\ Len(wal'.f) <= MaxFrame
      /\ Len(walDisk'.f) <= MaxFrame
  BY <1>1 DEF files, RInv
<1> QED BY <1>1, <1>3, <1>4, <1>5, <1>6, RZero

\* A power failure ends every connection.
LEMMA RPowerFailure ==
  ASSUME IInv, IInv', RInv, PowerFailure
  PROVE  RInv' /\ \A d \in Procs : Stays(d)
<1>1. PICK w \in WalsLeft, x \in DbsLeft : wal' = w /\ walDisk' = SyncedWal(w) /\ db' = x
  BY DEF PowerFailure
<1>2. ZeroIndex /\ conn' = [c \in Procs |-> Closed]
  BY DEF PowerFailure
<1>3. Len(walDisk'.f) = Len(w.f)
  BY <1>1, LeftOnDisk
<1>4. Len(w.f) <= MaxFrame
  <2>1. CASE w = NoWal
    BY <2>1, NoWalType, MaxFrameAssumption
  <2>2. CASE w # NoWal
    <3>0. walDisk.f \in Seq(SUBSET Frame) /\ Len(walDisk.f) \in Nat
      BY DEF IInv, Typed
    <3>1. w.f \in [1..Len(walDisk.f) -> UNION {walDisk.f[i] : i \in 1..Len(walDisk.f)}]
      BY <2>2 DEF WalsLeft
    <3>2. w \in WalFile
      BY LeftOnDisk
    <3>3. Len(w.f) \in Nat /\ DOMAIN w.f = 1..Len(w.f)
      BY <3>2 DEF WalFile
    <3>4. 1..Len(w.f) = 1..Len(walDisk.f)
      BY <3>1, <3>3
    <3>5. Len(w.f) = Len(walDisk.f)
      BY <3>0, <3>3, <3>4
    <3> QED BY <3>5 DEF RInv
  <2> QED BY <2>1, <2>2
<1>5. db' = [p \in Pages |-> db'[p]]
  BY <1>1 DEF DbsLeft
<1>6. \A d \in Procs : /\ conn'[d].readLock = -1 /\ ~conn'[d].writeLock
                       /\ conn'[d].pc \in {"off", "idle", "unlinkwal"}
  BY <1>2 DEF Closed, Rest
<1> QED BY <1>1, <1>2, <1>3, <1>4, <1>5, <1>6, RZero

\* The log starts again: nobody reads it, and whoever looks at it for a checkpoint has
\* read the salts of the old one.
LEMMA RRestartHdr ==
  ASSUME IInv, IInv', RInv, NEW c \in Procs, RestartHdr(c)
  PROVE  RInv' /\ \A d \in Procs : Stays(d)
<1> PICK r : r = conn[c]
  OBVIOUS
<1> DEFINE s == [r EXCEPT !.pc = "rst"]
<1>1. /\ Conn(r) /\ ConnOK(c) /\ RConnOK(c) /\ r.pc = "rst0" /\ r.writeLock
      /\ r.hdr \in Hdr /\ r.hdr.mxFrame = 0
  BY RTypes DEF RestartHdr, ConnOK, PlaceOK, RestartOK, RInv
<1>2. /\ UNCHANGED <<db, wal, walDisk, aPgno, nBackfill, aReadMark>>
      /\ aHdr' = [aHdr EXCEPT ![0] = r.hdr] /\ conn' = [conn EXCEPT ![c] = s]
  BY ConnType DEF RestartHdr, files
<1>3. Live' = r.hdr
  BY <1>1, <1>2, ConnType DEF Live
<1>4. Conn(s) /\ s.pc = "rst" /\ s.readLock = r.readLock /\ s.ckptLock = r.ckptLock
  BY <1>1 DEF Conn, ConnWith, Places
<1> HIDE DEF s
<1>5. Others(c) /\ conn'[c] = s
  BY <1>2, <1>4, MoveTo
<1>6. \A d \in Procs : conn[d].readLock <= 0 /\ conn'[d].readLock <= 0
                       /\ ~(conn'[d].readLock > 0)
  <2>1. \A d \in Procs : conn[d].readLock <= 0
    BY <1>1 DEF RInv, NoReaders, Restarting
  <2>2. \A d \in Procs : conn'[d].readLock <= 0
    BY <1>4, <1>5, <2>1 DEF Others
  <2>3. \A d \in Procs : conn'[d].readLock \in Int
    BY LogTypes DEF Conn, ConnWith
  <2> QED BY <2>1, <2>2, <2>3
<1>7. ASSUME NEW d \in Procs \ {c}, conn[d].ckptLock
      PROVE  conn[d].pc # "copy" /\ Live'.salt # conn[d].hdr.salt
  <2>1. ~r.ckptLock
    BY <1>7 DEF IInv, LocksOK
  <2>2. r.readLock = 0
    BY <1>1, <2>1 DEF ConnOK, WriterOK
  <2>3. conn[d].pc # "copy"
    BY <2>2 DEF IInv, CopyAlone
  <2>4. r.hdr.salt # conn[d].hdr.salt
    BY <1>1, <1>7 DEF IInv, SaltsDiffer, ConnOK, RestartOK
  <2> QED BY <1>3, <2>3, <2>4
<1>8. ASSUME NEW d \in Procs PROVE RConnOK(d)'
  <2>1. CASE d = c
    <3>1. LockOK(s)
      BY <1>1, <1>4 DEF RConnOK, LockOK
    <3> QED BY <1>4, <1>5, <1>6, <2>1, <3>1
            DEF RConnOK, ReaderOK, EntersOK, CopyOK, Looks
  <2>2. CASE d # c
    <3>1. conn'[d] = conn[d] /\ RConnOK(d)
      BY <1>5, <2>2 DEF Others, RInv
    <3>2. ~conn[d].writeLock
      BY <1>1, <2>2 DEF IInv, LocksOK
    <3>3. conn[d].pc # "copy" /\ ~Looks(Live', conn[d])
      <4>1. CASE conn[d].ckptLock
        BY <1>7, <2>2, <4>1 DEF Looks
      <4>2. CASE ~conn[d].ckptLock
        <5>1. conn[d].pc \notin {"ckpt", "ckmark", "ckstart", "copy"}
          BY <4>2, RTypes DEF ConnOK, PlaceOK
        <5> QED BY <5>1 DEF Looks
      <4> QED BY <4>1, <4>2
    <3> QED BY <1>6, <3>1, <3>2, <3>3 DEF RConnOK, ReaderOK, EntersOK, CopyOK
  <2> QED BY <2>1, <2>2
<1>9. RInv'
  <2>1. Indexed(wal'.f, aPgno', Live'.mxFrame) /\ DbHolds(wal'.f, db', nBackfill', Live'.mxFrame)
    BY <1>1, <1>3 DEF Indexed, DbHolds, Latest
  <2>2. NoReaders' /\ \A d, e \in Procs : Behind(Live', conn'[d], conn'[e])
    BY <1>6 DEF NoReaders, Behind
  <2>3. /\ Len(wal'.f) <= MaxFrame /\ Len(walDisk'.f) <= MaxFrame
        /\ aPgno' \in [1..MaxFrame -> Nat] /\ db' = [p \in Pages |-> db'[p]]
    BY <1>2 DEF RInv
  <2> QED BY <1>8, <2>1, <2>2, <2>3 DEF RInv
<1>10. \A d \in Procs : ~(conn[d].readLock > 0)
  BY <1>6, RTypes
<1> QED BY <1>2, <1>9, <1>10, StaysIf

------------------------------------------------------------------------------
(* Readers: the copy                                                       *)

\* To copy the newest frame of a page keeps what the database holds for whoever sees
\* that frame.
LEMMA CopyHolds ==
  ASSUME NEW f, NEW base, NEW p \in Pages, NEW n \in Nat, NEW m \in Nat, NEW top \in Nat,
         NEW j \in 1..m, Latest(f, p, j, m), n <= m, j <= top, NEW now,
         now[p] = f[j].val, \A q \in Pages \ {p} : now[q] = base[q],
         DbHolds(f, base, n, top)
  PROVE  DbHolds(f, now, n, top)
<1> SUFFICES ASSUME NEW q \in Pages, NEW i \in 1..n, Latest(f, q, i, top)
             PROVE  now[q] = f[i].val
  BY DEF DbHolds
<1>1. CASE q # p
  BY <1>1 DEF DbHolds
<1>2. CASE q = p
  <2>1. ~(i < j)
    <3>1. i < j => j \in (i + 1)..top
      OBVIOUS
    <3> QED BY <1>2, <3>1 DEF Latest
  <2>2. ~(j < i)
    <3>1. j < i => i \in (j + 1)..m
      OBVIOUS
    <3> QED BY <1>2, <3>1 DEF Latest
  <2> QED BY <1>2, <2>1, <2>2
<1> QED BY <1>1, <1>2

\* One page is copied: readers that find a frame of it do not look into the database,
\* and for the others it holds that page already.
LEMMA RCkptCopy ==
  ASSUME IInv, IInv', RInv, NEW c \in Procs, CkptCopy(c)
  PROVE  RInv' /\ \A d \in Procs : Stays(d)
<1> PICK r : r = conn[c]
  OBVIOUS
<1>p. PICK p : p = Min(r.todo)
  OBVIOUS
<1>t. PICK t : t = r.todo \ {p}
  OBVIOUS
<1> DEFINE s == [r EXCEPT !.todo = t]
<1>1. /\ Conn(r) /\ ConnOK(c) /\ RConnOK(c) /\ r.pc = "copy" /\ r.todo # {}
      /\ r.ckptLock /\ r.todo \in SUBSET Pages
      /\ r.hdr.mxFrame \in Nat /\ r.mxSafe \in Nat /\ nBackfill \in Nat
      /\ Live.mxFrame \in Nat /\ Live.mxFrame <= Len(wal.f)
  BY RTypes DEF CkptCopy, ConnOK, PlaceOK, RInv
<1>m. PICK m \in Nat : m = r.hdr.mxFrame
  BY <1>1
<1>2. /\ UNCHANGED <<wal, walDisk, aHdr, aPgno, nBackfill, aReadMark>> /\ Live' = Live
      /\ db' = [db EXCEPT ![p] = wal.f[Newest(p, 1, m)].val]
      /\ conn' = [conn EXCEPT ![c] = s]
  BY <1>p, <1>t, <1>m, ConnType DEF CkptCopy, index, Live
<1>3. p \in r.todo /\ p \in Pages
  <2>1. r.todo \in SUBSET Nat
    BY <1>1 DEF Pages
  <2> QED BY <1>1, <1>p, <2>1, LeastOf
<1>4. /\ m <= Live.mxFrame /\ r.mxSafe <= m /\ r.readLock = -1
      /\ \A q \in Pages \ r.todo, j \in (nBackfill + 1)..r.mxSafe :
             Latest(wal.f, q, j, m) => db[q] = wal.f[j].val
      /\ \A q \in r.todo : \E j \in (nBackfill + 1)..r.mxSafe : Latest(wal.f, q, j, m)
  BY <1>1, <1>m, NoLockAt DEF RConnOK, CopyOK
<1>5. PICK j \in (nBackfill + 1)..r.mxSafe : Latest(wal.f, p, j, m)
  BY <1>3, <1>4
<1>6. j \in 1..m /\ nBackfill < m /\ j <= r.mxSafe /\ j <= Live.mxFrame
  BY <1>1, <1>4, <1>5
<1>7. Indexed(wal.f, aPgno, Live.mxFrame) /\ Indexed(wal.f, aPgno, m)
  BY <1>1, <1>4 DEF RInv, Indexed
<1>8. /\ db' = [q \in Pages |-> db'[q]]
      /\ db'[p] = wal.f[j].val /\ \A q \in Pages \ {p} : db'[q] = db[q]
  <2>1. Newest(p, 1, m) = j
    BY <1>3, <1>5, <1>7, NewestOK
  <2>2. db = [q \in Pages |-> db[q]]
    BY DEF RInv
  <2> QED BY <1>2, <1>3, <2>1, <2>2
<1>9. Conn(s) /\ s.pc = "copy" /\ s.hdr = r.hdr /\ s.mxSafe = r.mxSafe /\ s.mi = r.mi
      /\ s.todo = t /\ s.readLock = -1
  <2>1. t \in SUBSET Pages
    BY <1>t, <1>1
  <2> QED BY <1>1, <1>4, <2>1 DEF Conn, ConnWith
<1> HIDE DEF s
<1>10. Others(c) /\ conn'[c] = s
  BY <1>2, <1>9, MoveTo
<1>11. ASSUME NEW d \in Procs \ {c} PROVE ~conn[d].ckptLock
  BY <1>1 DEF IInv, LocksOK
<1>12. ASSUME NEW d \in Procs \ {c}, conn[d].readLock > 0
       PROVE  /\ conn[d].minFrame \in Nat /\ conn[d].minFrame >= 1
              /\ conn[d].minFrame - 1 <= m
              /\ TopOf(Live, conn[d]) \in Nat /\ j <= TopOf(Live, conn[d])
              /\ TopOf(Live, conn[d]) <= Live.mxFrame
              /\ DbHolds(wal.f, db, conn[d].minFrame - 1, TopOf(Live, conn[d]))
  <2>1. ReaderOK(wal.f, db, Live, aReadMark, conn[d]) /\ Behind(Live, r, conn[d])
    BY DEF RInv, RConnOK
  <2>2. conn[d].minFrame \in Nat /\ TopOf(Live, conn[d]) \in Nat
    BY RTypes DEF TopOf
  <2>3. r.mxSafe <= TopOf(Live, conn[d]) /\ conn[d].minFrame - 1 <= m
    BY <1>1, <1>m, <1>12, <2>1 DEF Behind, Looks, Passed
  <2>4. j <= TopOf(Live, conn[d])
    BY <1>1, <1>6, <2>2, <2>3
  <2> QED BY <1>12, <2>1, <2>2, <2>3, <2>4 DEF ReaderOK
<1>13. -1 \in -1..(NReader - 1) /\ ~(-1 > 0) /\ -1 <= 0
  BY NReaderAssumption
<1>14. RConnOK(c)'
  <2>1. CopyOK(wal'.f, db', nBackfill', Live', s)
    <3>1. ASSUME NEW q \in Pages \ t, NEW i \in (nBackfill + 1)..r.mxSafe, Latest(wal.f, q, i, m)
          PROVE  db'[q] = wal.f[i].val
      <4>1. CASE q # p
        BY <1>t, <1>4, <1>8, <3>1, <4>1
      <4>2. CASE q = p
        <5>1. i \in 1..m /\ i \in Int /\ j \in Int
          BY <1>1, <1>4, <1>6
        <5>2. i < j => j \in (i + 1)..m
          BY <1>6, <5>1
        <5>3. j < i => i \in (j + 1)..m
          BY <1>6, <5>1
        <5>4. i = j
          BY <1>5, <3>1, <4>2, <5>1, <5>2, <5>3 DEF Latest
        <5> QED BY <1>8, <4>2, <5>4
      <4> QED BY <4>1, <4>2
    <3>2. \A q \in t : \E i \in (nBackfill + 1)..r.mxSafe : Latest(wal.f, q, i, m)
      BY <1>t, <1>4
    <3> QED BY <1>m, <1>2, <1>4, <1>9, <3>1, <3>2 DEF CopyOK
  <2>2. LockOK(s) /\ ReaderOK(wal'.f, db', Live', aReadMark', s) /\ EntersOK(wal'.f, aPgno', s)
    BY <1>9, <1>13 DEF LockOK, ReaderOK, EntersOK
  <2>3. nBackfill' <= s.hdr.mxFrame
    BY <1>m, <1>1, <1>2, <1>6, <1>9
  <2> QED BY <1>10, <2>1, <2>2, <2>3 DEF RConnOK
<1>15. ASSUME NEW d \in Procs \ {c} PROVE RConnOK(d)'
  <2>1. conn'[d] = conn[d] /\ RConnOK(d)
    BY <1>10 DEF Others, RInv
  <2>2. ReaderOK(wal.f, db', Live, aReadMark, conn[d])
    <3> SUFFICES ASSUME conn[d].readLock > 0
                 PROVE  DbHolds(wal.f, db', conn[d].minFrame - 1, TopOf(Live, conn[d]))
      BY <2>1 DEF RConnOK, ReaderOK
    <3> PICK n \in Nat : n = conn[d].minFrame - 1
      BY <1>12
    <3> PICK top \in Nat : top = TopOf(Live, conn[d])
      BY <1>12
    <3>1. n <= m /\ j <= top /\ DbHolds(wal.f, db, n, top)
      BY <1>12
    <3>2. DbHolds(wal.f, db', n, top)
      <4>1. p \in Pages /\ j \in 1..m /\ Latest(wal.f, p, j, m) /\ db'[p] = wal.f[j].val
            /\ \A q \in Pages \ {p} : db'[q] = db[q]
        BY <1>3, <1>5, <1>6, <1>8
      <4> QED BY <3>1, <4>1, CopyHolds
    <3> QED BY <3>2
  <2>3. conn[d].pc \notin {"ckpt", "ckmark", "ckstart", "copy"}
    BY <1>11, RTypes DEF ConnOK, PlaceOK
  <2> QED BY <1>2, <2>1, <2>2, <2>3 DEF RConnOK, CopyOK, Looks
<1>16. DbHolds(wal'.f, db', nBackfill', Live'.mxFrame)
  <2>1. DbHolds(wal.f, db, nBackfill, Live.mxFrame)
    BY DEF RInv
  <2>2. nBackfill <= m
    BY <1>1, <1>6
  <2> QED BY <1>1, <1>2, <1>3, <1>5, <1>6, <1>8, <2>1, <2>2, CopyHolds
<1>17. NoReaders'
  BY <1>9, <1>10, <1>13 DEF NoReaders, Restarting, Others, RInv
<1>18. ASSUME NEW d \in Procs, NEW e \in Procs PROVE Behind(Live', conn'[d], conn'[e])
  <2>1. Behind(Live, conn[d], conn[e])
    BY DEF RInv
  <2>2. CASE e = c
    BY <1>9, <1>10, <1>13, <2>2 DEF Behind
  <2>3. CASE e # c /\ d # c
    BY <1>2, <1>10, <2>1, <2>3 DEF Others
  <2>4. CASE e # c /\ d = c
    <3>1. conn'[e] = conn[e] /\ Behind(Live, r, conn[e])
      BY <1>10, <2>1, <2>4 DEF Others
    <3>2. Behind(Live, s, conn[e])
      BY <1>1, <1>9, <3>1 DEF Behind, Looks, Passed
    <3> QED BY <1>2, <1>10, <2>4, <3>1, <3>2
  <2> QED BY <2>2, <2>3, <2>4
<1>19. RInv'
  <2>1. /\ Len(wal'.f) <= MaxFrame /\ Len(walDisk'.f) <= MaxFrame
        /\ aPgno' \in [1..MaxFrame -> Nat] /\ Indexed(wal'.f, aPgno', Live'.mxFrame)
    BY <1>2 DEF RInv
  <2> QED BY <1>8, <1>14, <1>15, <1>16, <1>17, <1>18, <2>1 DEF RInv
<1>20. ASSUME NEW d \in Procs PROVE Stays(d)
  <2>1. CASE ~(conn[d].readLock > 0)
    <3>1. conn[d].readLock # 0 /\ conn[d].readLock \in Int
      BY <1>1, RTypes DEF IInv, CopyAlone
    <3>2. ~(conn[d].readLock >= 0)
      BY <2>1, <3>1
    <3> QED BY <3>2 DEF Stays
  <2>2. CASE conn[d].readLock > 0
    <3>0. d \in Procs \ {c}
      BY <1>4, <1>13, <2>2
    <3>1. conn'[d] = conn[d]
      BY <1>10, <3>0 DEF Others
    <3>2. ~(conn[d].readLock <= 0)
      BY <2>2, RTypes
    <3> PICK k \in Nat : k = conn[d].minFrame
      BY <1>12, <2>2, <3>0
    <3> PICK top \in Nat : top = TopOf(Live, conn[d])
      BY <1>12, <2>2, <3>0
    <3>3. k >= 1 /\ k - 1 <= m /\ j <= top /\ top <= Live.mxFrame /\ DbHolds(wal.f, db, k - 1, top)
      BY <1>12, <2>2, <3>0
    <3>4. db'[p] = db[p] \/ Found(aPgno, p, k, top) # 0
      <4> SUFFICES ASSUME Found(aPgno, p, k, top) = 0 PROVE db[p] = wal.f[j].val
        BY <1>8
      <4> DEFINE S == {0} \cup {i \in k..top : i > 0 /\ aPgno[i] = p}
      <4>1. S \in SUBSET (0..top) /\ S # {}
        OBVIOUS
      <4>2. \A y \in S : y <= 0
        <5>1. Max(S) = 0
          BY DEF Found
        <5> HIDE DEF S
        <5>2. \A y \in S : y <= Max(S)
          BY <4>1, GreatestOf
        <5> QED BY <5>1, <5>2
      <4>3. \A i \in k..top : wal.f[i].pg # p
        <5> SUFFICES ASSUME NEW i \in k..top, wal.f[i].pg = p PROVE FALSE
          OBVIOUS
        <5>1. i \in 1..Live.mxFrame
          BY <1>1, <3>3
        <5>2. aPgno[i] = p
          BY <1>7, <5>1 DEF Indexed
        <5>3. i \in S /\ ~(i <= 0)
          BY <5>1, <5>2
        <5> QED BY <4>2, <5>3
      <4> HIDE DEF S
      <4>4. wal.f[j].pg = p
        BY <1>5 DEF Latest
      <4>5. j \in 1..(k - 1)
        <5>1. ~(j \in k..top)
          BY <4>3, <4>4
        <5> QED BY <1>6, <3>3, <5>1
      <4>6. Latest(wal.f, p, j, top)
        <5>1. ASSUME NEW i \in (j + 1)..top PROVE wal.f[i].pg # p
          <6>1. CASE i \in k..top
            BY <4>3, <6>1
          <6>2. CASE i \notin k..top
            <7>1. i \in (j + 1)..m
              BY <1>6, <3>3, <6>2
            <7> QED BY <1>5, <7>1 DEF Latest
          <6> QED BY <6>1, <6>2
        <5> QED BY <1>6, <3>3, <4>4, <5>1 DEF Latest
      <4>7. k - 1 \in Nat
        BY <3>3
      <4> QED BY <1>3, <3>3, <4>5, <4>6 DEF DbHolds
    <3>5. \A q \in Pages : db'[q] = db[q] \/ Found(aPgno, q, k, top) # 0
      BY <1>8, <3>4
    <3> QED BY <1>1, <1>2, <1>19, <3>1, <3>2, <3>5, StaysIf
  <2> QED BY <2>1, <2>2
<1> QED BY <1>19, <1>20

\* Where a checkpoint leaves its connection.
LEMMA CopiedAt ==
  ASSUME IInv, RInv, NEW c \in Procs, conn' = CkptCopied(c), conn[c].pc = "copy"
  PROVE  /\ Others(c) /\ conn'[c].readLock = -1
         /\ conn'[c].pc \in {"ckend", "idle", "unlink"}
<1> PICK r : r = conn[c]
  OBVIOUS
<1>h. PICK h \in Hdr : h = Remembered(r)
  BY RTypes, ClosedType DEF Remembered
<1>1. CASE r.mode = "TRUNCATE"
  <2> DEFINE s == [r EXCEPT !.pc = "ckend"]
  <2>1. conn' = [conn EXCEPT ![c] = s] /\ Conn(r)
    BY <1>1, ConnType DEF CkptCopied
  <2>2. Conn(s) /\ s.pc = "ckend" /\ s.readLock = r.readLock
    BY <2>1 DEF Conn, ConnWith, Places
  <2> HIDE DEF s
  <2>3. Others(c) /\ conn'[c] = s /\ r.readLock = -1
    BY <2>1, <2>2, MoveTo, NoLockAt
  <2> QED BY <2>2, <2>3
<1>2. CASE r.mode # "TRUNCATE" /\ ~r.excl
  <2> PICK s : s = Rest("idle", h, r.cache)
    OBVIOUS
  <2>1. conn' = [conn EXCEPT ![c] = s] /\ Conn(s)
    BY <1>h, <1>2, RestType DEF CkptCopied, CkptEnded, Places
  <2>2. s.pc = "idle" /\ s.readLock = -1
    BY RestFields
  <2> QED BY <2>1, <2>2, MoveTo
<1>3. CASE r.mode # "TRUNCATE" /\ r.excl
  <2> PICK q : q = Rest("unlink", h, NoCache)
    OBVIOUS
  <2> DEFINE s == [q EXCEPT !.excl = TRUE]
  <2>1. conn' = [conn EXCEPT ![c] = s] /\ Conn(q)
    BY <1>h, <1>3, RestType DEF CkptCopied, CkptEnded, Places
  <2>2. q.pc = "unlink" /\ q.readLock = -1
    BY RestFields
  <2>3. Conn(s) /\ s.pc = "unlink" /\ s.readLock = -1
    BY <2>1, <2>2 DEF Conn, ConnWith
  <2> HIDE DEF s
  <2> QED BY <2>1, <2>3, MoveTo
<1> QED BY <1>1, <1>2, <1>3

\* Every page is copied: the database holds all that is counted as copied.
LEMMA RCkptDone ==
  ASSUME IInv, IInv', RInv, NEW c \in Procs, CkptDone(c)
  PROVE  RInv' /\ \A d \in Procs : Stays(d)
<1> PICK r : r = conn[c]
  OBVIOUS
<1>1. /\ ConnOK(c) /\ RConnOK(c) /\ r.pc = "copy" /\ r.todo = {} /\ r.ckptLock
      /\ r.hdr.mxFrame \in Nat /\ r.mxSafe \in Nat /\ nBackfill \in Nat
      /\ Live.mxFrame \in Nat
  BY RTypes DEF CkptDone, ConnOK, PlaceOK, RInv
<1>2. /\ UNCHANGED <<db, wal, walDisk, aHdr, aPgno, aReadMark>> /\ Live' = Live
      /\ nBackfill' = r.mxSafe /\ conn' = CkptCopied(c)
  BY DEF CkptDone, Live
<1>3. Others(c) /\ conn'[c].readLock = -1 /\ conn'[c].pc \in {"ckend", "idle", "unlink"}
  BY <1>1, <1>2, CopiedAt
<1>4. -1 \in -1..(NReader - 1) /\ ~(-1 > 0) /\ -1 <= 0
  BY NReaderAssumption
<1>5. ASSUME NEW d \in Procs PROVE conn'[d].pc \notin {"ckpt", "ckmark", "ckstart", "copy"}
  <2>1. CASE d = c
    BY <1>3, <2>1
  <2>2. CASE d # c
    <3>1. ~conn[d].ckptLock /\ conn'[d] = conn[d]
      BY <1>1, <1>3, <2>2 DEF IInv, LocksOK, Others
    <3> QED BY <3>1, RTypes DEF ConnOK, PlaceOK
  <2> QED BY <2>1, <2>2
<1>6. ASSUME NEW d \in Procs PROVE RConnOK(d)'
  <2>1. CASE d = c
    BY <1>3, <1>4, <1>5, <2>1 DEF RConnOK, LockOK, ReaderOK, EntersOK, CopyOK, Looks
  <2>2. CASE d # c
    <3>1. conn'[d] = conn[d] /\ RConnOK(d)
      BY <1>3, <2>2 DEF Others, RInv
    <3> QED BY <1>2, <1>5, <3>1 DEF RConnOK, CopyOK, Looks
  <2> QED BY <2>1, <2>2
<1>7. DbHolds(wal.f, db, r.mxSafe, Live.mxFrame)
  <2> SUFFICES ASSUME NEW q \in Pages, NEW i \in 1..r.mxSafe, Latest(wal.f, q, i, Live.mxFrame)
               PROVE  db[q] = wal.f[i].val
    BY DEF DbHolds
  <2>1. /\ r.hdr.mxFrame <= Live.mxFrame /\ r.mxSafe <= r.hdr.mxFrame
        /\ \A j \in (nBackfill + 1)..r.mxSafe :
               Latest(wal.f, q, j, r.hdr.mxFrame) => db[q] = wal.f[j].val
    BY <1>1 DEF RConnOK, CopyOK
  <2>2. CASE i \in 1..nBackfill
    BY <2>2 DEF RInv, DbHolds
  <2>3. CASE i \in (nBackfill + 1)..r.mxSafe
    <3>1. \A k \in (i + 1)..r.hdr.mxFrame : k \in (i + 1)..Live.mxFrame
      BY <1>1, <2>1
    <3>2. i \in 1..r.hdr.mxFrame
      BY <1>1, <2>1
    <3>3. Latest(wal.f, q, i, r.hdr.mxFrame)
      BY <3>1, <3>2 DEF Latest
    <3> QED BY <2>1, <2>3, <3>3
  <2>4. i \in 1..nBackfill \/ i \in (nBackfill + 1)..r.mxSafe
    BY <1>1
  <2> QED BY <2>2, <2>3, <2>4
<1>8. NoReaders'
  BY <1>3, <1>4 DEF NoReaders, Restarting, Others, RInv
<1>9. \A d, e \in Procs : Behind(Live', conn'[d], conn'[e])
  BY <1>5 DEF Behind, Looks
<1>10. RInv'
  <2>1. /\ Len(wal'.f) <= MaxFrame /\ Len(walDisk'.f) <= MaxFrame
        /\ aPgno' \in [1..MaxFrame -> Nat] /\ Indexed(wal'.f, aPgno', Live'.mxFrame)
        /\ db' = [p \in Pages |-> db'[p]]
    BY <1>2 DEF RInv
  <2>2. DbHolds(wal'.f, db', nBackfill', Live'.mxFrame)
    BY <1>2, <1>7
  <2> QED BY <1>6, <1>8, <1>9, <2>1, <2>2 DEF RInv
<1>11. ASSUME NEW d \in Procs, conn[d].readLock > 0
       PROVE  conn'[d] = conn[d]
  <2>1. r.readLock = -1
    BY <1>1, NoLockAt
  <2> QED BY <1>3, <1>4, <1>11, <2>1 DEF Others
<1> QED BY <1>1, <1>2, <1>10, <1>11, StaysIf

------------------------------------------------------------------------------
(* Readers: all steps together                                             *)

\* At the beginning nobody reads.
LEMMA RInitOK == ASSUME Init PROVE RInv
<1>1. \A c \in Procs : conn[c].pc = "off" /\ conn[c].readLock = -1 /\ ~conn[c].writeLock
  BY DEF Init, Closed, Rest
<1>2. -1 \in -1..(NReader - 1) /\ ~(-1 > 0) /\ -1 <= 0
  BY NReaderAssumption
<1>3. Live.mxFrame = 0 /\ nBackfill = 0 /\ aPgno = [i \in 1..MaxFrame |-> 0]
      /\ db = [p \in Pages |-> 0] /\ wal = NoWal /\ walDisk = SyncedWal(wal)
  BY DEF Init, Live, NoHdr
<1>4. Len(wal.f) <= MaxFrame /\ Len(walDisk.f) <= MaxFrame
  BY <1>3, NoWalType, SyncedType, MaxFrameAssumption
<1>5. aPgno \in [1..MaxFrame -> Nat] /\ Indexed(wal.f, aPgno, Live.mxFrame)
      /\ DbHolds(wal.f, db, nBackfill, Live.mxFrame) /\ db = [p \in Pages |-> db[p]]
  BY <1>3 DEF Indexed, DbHolds
<1>6. \A c \in Procs : RConnOK(c) /\ \A d \in Procs : Behind(Live, conn[d], conn[c])
  BY <1>1, <1>2 DEF RConnOK, LockOK, ReaderOK, EntersOK, CopyOK, Looks, Behind
<1>7. NoReaders
  BY <1>1 DEF NoReaders, Restarting
<1> QED BY <1>4, <1>5, <1>6, <1>7 DEF RInv

\* A step that changes nothing.
LEMMA RStutter ==
  ASSUME IInv, IInv', RInv, UNCHANGED vars
  PROVE  RInv' /\ \A d \in Procs : Stays(d)
<1>1. /\ db' = db /\ wal' = wal /\ walDisk' = walDisk /\ aHdr' = aHdr /\ aPgno' = aPgno
      /\ nBackfill' = nBackfill /\ aReadMark' = aReadMark /\ conn' = conn
  BY DEF vars, files, index
<1>2. Live' = Live
  BY <1>1 DEF Live
<1>3. \A c \in Procs : RConnOK(c)'
  BY <1>1, <1>2 DEF RInv, RConnOK, SomeRestart
<1>4. RInv'
  BY <1>1, <1>2, <1>3 DEF RInv, NoReaders, Restarting
<1>5. Live.mxFrame <= Live.mxFrame
  BY RTypes
<1> QED BY <1>1, <1>2, <1>4, <1>5, StaysIf

\* Every step keeps the readers' invariant, and what every transaction reads.
LEMMA RStepOK ==
  ASSUME CrashInRestart = FALSE, IInv, RInv, [Next]_vars
  PROVE  RInv' /\ \A d \in Procs : Stays(d)
<1>0. IInv'
  BY StepOK
<1>1. ASSUME NEW c \in Procs,
             \/ Open(c) \/ Leave(c) \/ UnlinkIndex(c) \/ UnlinkWal(c) \/ Crash(c)
      PROVE  RInv' /\ \A d \in Procs : Stays(d)
  BY <1>0, <1>1, ROpen, RLeave, RUnlinkIndex, RUnlinkWal, RCrash
<1>2. ASSUME NEW c \in Procs, RecoverHdr(c) \/ RecoverInfo(c)
      PROVE  RInv' /\ \A d \in Procs : Stays(d)
  BY <1>0, <1>2, RRecoverHdr, RRecoverInfo
<1>3. ASSUME NEW c \in Procs,
             ReadHdr(c) \/ ChooseMark(c) \/ LockZero(c) \/ LockMark(c) \/ EndRead(c)
      PROVE  RInv' /\ \A d \in Procs : Stays(d)
  BY <1>0, <1>3, RReadHdr, RChooseMark, RLockZero, RLockMark, REndRead
<1>4. ASSUME NEW c \in Procs, BeginWrite(c) \/ RestartHdr(c) \/ RestartInfo(c)
      PROVE  RInv' /\ \A d \in Procs : Stays(d)
  BY <1>0, <1>4, RBeginWrite, RRestartHdr, RRestartInfo
<1>5. ASSUME NEW c \in Procs, WriteWalHdr(c) \/ WriteFrame(c) \/ RewriteChecksums(c)
      PROVE  RInv' /\ \A d \in Procs : Stays(d)
  BY <1>0, <1>5, RWriteWalHdr, RWriteFrame, RRewriteChecksums
<1>6. ASSUME NEW c \in Procs, FinishSpill(c) \/ PublishHdr1(c) \/ PublishHdr0(c) \/ Undo(c)
      PROVE  RInv' /\ \A d \in Procs : Stays(d)
  BY <1>0, <1>6, RFinishSpill, RPublishHdr1, RPublishHdr0, RUndo
<1>7. ASSUME NEW c \in Procs,
             \/ CkptNothing(c) \/ CkptMark(c) \/ CkptStart(c) \/ CkptCopy(c)
             \/ CkptInterrupt(c)
      PROVE  RInv' /\ \A d \in Procs : Stays(d)
  BY <1>0, <1>7, RCkptNothing, RCkptMark, RCkptStart, RCkptCopy, RCkptInterrupt
<1>8. ASSUME NEW c \in Procs, CkptDone(c) \/ CkptRestart(c) \/ CkptTruncate(c) \/ CkptEnd(c)
      PROVE  RInv' /\ \A d \in Procs : Stays(d)
  BY <1>0, <1>8, RCkptDone, RCkptRestart, RCkptTruncate, RCkptEnd
<1>9. ASSUME NEW c \in Procs, NEW why, RecoverFrames(c, why)
      PROVE  RInv' /\ \A d \in Procs : Stays(d)
  BY <1>0, <1>9, RRecoverFrames
<1>10. ASSUME NEW c \in Procs, NEW S \in Spills \cup Commits, NEW isCommit \in BOOLEAN,
              StartFrames(c, S, isCommit)
       PROVE  RInv' /\ \A d \in Procs : Stays(d)
  BY <1>0, <1>10, RStartFrames
<1>11. ASSUME NEW c \in Procs, NEW m \in Modes, NEW closing \in BOOLEAN,
              CkptBegin(c, m, closing)
       PROVE  RInv' /\ \A d \in Procs : Stays(d)
  BY <1>0, <1>11, RCkptBegin
<1>12. CASE PowerFailure
  BY <1>0, <1>12, RPowerFailure
<1>13. CASE UNCHANGED vars
  BY <1>0, <1>13, RStutter
<1> QED BY <1>1, <1>2, <1>3, <1>4, <1>5, <1>6, <1>7, <1>8, <1>9, <1>10, <1>11, <1>12, <1>13
        DEF Next

\* The readers' invariant: the part of the log that a reader looks at, the marks that
\* protect it, and what the database holds for it, whatever checkpointers copy and
\* writers append or start again meanwhile.
THEOREM ReadersInvariance == ASSUME CrashInRestart = FALSE PROVE Spec => []RInv
<1>1. Init => RInv
  BY RInitOK
<1>2. IInv /\ RInv /\ [Next]_vars => RInv'
  BY RStepOK
<1> QED BY <1>1, <1>2, Invariance, PTL DEF Spec

\* A transaction reads the same content of every page for as long as it holds its read
\* lock, up to its own commit: no checkpoint, commit, rollback, restart, recovery, or
\* failure of another connection changes what it sees.
THEOREM TransactionsHold == ASSUME CrashInRestart = FALSE PROVE Spec => SnapshotStays
<1>1. IInv /\ RInv /\ [Next]_vars => [\A d \in Procs : Stays(d)]_vars
  BY RStepOK
<1> QED BY <1>1, Invariance, ReadersInvariance, PTL DEF Spec, SnapshotStays
==============================================================================
