---------------------------- MODULE BackupProofs ----------------------------
(***************************************************************************)
(* Proofs about Backup, for every number of pages, of transactions and     *)
(* every argument of Step: what has been copied stays equal to the source, *)
(* and the destination only ever becomes a committed state of it.          *)
(*                                                                         *)
(* CopiedIsCurrent alone is not inductive.  A transaction that adds pages  *)
(* may have spilled some of them behind the end of the committed file, and *)
(* they become part of it at the commit (Mirror); the copy is complete     *)
(* only because the file has nothing behind its end (Tail).                *)
(***************************************************************************)
EXTENDS Backup, TLAPS

\* The pages that have to agree: those of the committed file and, within a
\* transaction, those behind it that have been spilled.
Settled(p) == p <= size \/ (tx /\ p <= memSize /\ p \notin dirty)

Mirror ==
    Listening /\ seen = vers =>
       \A p \in Pages : p < bk.iNext /\ Settled(p) => image[p] = file[p]

\* What a pager knows: its own writes, and nothing newer than the file.
PagerInv ==
    /\ seen <= vers
    /\ tx => seen = vers
    /\ tx => \A p \in Pages : p <= memSize /\ p \notin dirty => mem[p] = file[p]

\* A file ends where its header says.
Tail ==
    /\ ~tx => \A p \in Pages : p > size => file[p] = 0
    /\ tx => \A p \in Pages : p > size => journal[p] = 0
    /\ tx => \A p \in Pages : p > memSize => mem[p] = 0

\* A backup is attached by the first step that copies something.
AttachInv == bk.open /\ bk.rc = "ok" /\ ~bk.attached => bk.iNext = 1

\* sqlite3_backup.
Backups == [open : BOOLEAN, iNext : 1 .. MaxPages + 1,
            rc : {"ok", "done", "fatal"}, attached : BOOLEAN]

IInv == TypeOK /\ Mirror /\ PagerInv /\ Tail /\ AttachInv

LEMMA NoBackupType ==
    NoBackup \in Backups /\ [NoBackup EXCEPT !.open = TRUE] \in Backups
  <1>1. 1 \in 1 .. MaxPages + 1
    BY BackupAssumption
  <1>2. QED
    BY <1>1 DEF NoBackup, Backups

\* The backup's own variables, apart from those of the source.
LEMMA TypeParts ==
    TypeOK => /\ image \in Images /\ bk \in Backups
              /\ dest.pages \in Images /\ dest.size \in 0 .. MaxPages
  BY DEF TypeOK, Backups

LEMMA InitIInv == Init => IInv
  <1> SUFFICES ASSUME Init PROVE IInv
    OBVIOUS
  <1> USE BackupAssumption DEF Init
  <1>1. TypeOK
    <2>1. file \in Images /\ Blank \in Images
      BY DEF Images, Blank
    <2>2. bk \in Backups
      BY NoBackupType
    <2>3. dest \in [pages : Images, size : 0 .. MaxPages]
      BY <2>1
    <2>4. txs \in 1 .. MaxTx
      OBVIOUS
    <2>5. QED
      BY <2>1, <2>2, <2>3, <2>4 DEF TypeOK, Backups, Blank
  <1>2. Mirror /\ AttachInv
    BY DEF Mirror, AttachInv, Listening, NoBackup
  <1>3. PagerInv
    BY DEF PagerInv
  <1>4. Tail
    BY DEF Tail, Pages
  <1>5. QED
    BY <1>1, <1>2, <1>3, <1>4 DEF IInv

---------------------------------------------------------------------------
(* The operators that several steps use.                                   *)

\* A transaction writes page images of the right type.
LEMMA WrittenType ==
  ASSUME TypeOK, txs < MaxTx, NEW m \in Pages, NEW w
  PROVE  Written(w, m) \in Images
  BY BackupAssumption DEF TypeOK, Images, Written, Pages

\* sqlite3BackupUpdate keeps the types, and it touches nothing else.
LEMMA UpdateType ==
  ASSUME TypeOK, NEW ps \in SUBSET Pages, NEW from \in Images,
         BackupUpdate(ps, from)
  PROVE  /\ image' \in Images
         /\ bk' \in [open : BOOLEAN, iNext : 1 .. MaxPages + 1,
                     rc : {"ok", "done", "fatal"}, attached : BOOLEAN]
         /\ bk'.open = bk.open /\ bk'.iNext = bk.iNext
         /\ bk'.attached = bk.attached
  BY DEF TypeOK, Images, BackupUpdate, Listening

\* A backup that still listens after the update has the pages that it had
\* copied already, and keeps the others.
LEMMA UpdateCopies ==
  ASSUME TypeOK, NEW ps \in SUBSET Pages, NEW from \in Images,
         BackupUpdate(ps, from), bk'.rc = "ok", bk'.open, bk'.attached
  PROVE  /\ bk' = bk /\ Listening
         /\ \A p \in Pages :
              image'[p] = IF p \in ps /\ p < bk.iNext THEN from[p] ELSE image[p]
  BY DEF TypeOK, Images, BackupUpdate, Listening, Copied

\* pager_reset either restarts the backup or has nothing to do.
LEMMA RefreshedType ==
  ASSUME TypeOK
  PROVE  /\ Refreshed(bk) \in [open : BOOLEAN, iNext : 1 .. MaxPages + 1,
                               rc : {"ok", "done", "fatal"}, attached : BOOLEAN]
         /\ Refreshed(bk).open = bk.open /\ Refreshed(bk).rc = bk.rc
         /\ Refreshed(bk).attached = bk.attached
         /\ Refreshed(bk).iNext = bk.iNext \/ Refreshed(bk).iNext = 1
         /\ bk.attached /\ seen # vers => Refreshed(bk).iNext = 1
         /\ seen = vers => Refreshed(bk) = bk
  BY BackupAssumption DEF TypeOK, Refreshed

\* The loop of sqlite3_backup_step goes forward, and not past the last page.
LEMMA NextAfterRange ==
  ASSUME TypeOK, NEW n \in Nat, NEW b,
         b.iNext \in 1 .. MaxPages + 1
  PROVE  /\ NextAfter(b, n) \in 1 .. MaxPages + 1
         /\ b.iNext <= NextAfter(b, n)
  <1>1. size \in 1 .. MaxPages /\ b.iNext \in Nat
    BY DEF TypeOK, Pages
  <1>2. QED
    BY <1>1, BackupAssumption DEF NextAfter

\* After the loop every page in front of it agrees with the source.
LEMMA CopyIsCurrent ==
  ASSUME IInv, Stepping, NEW next \in 1 .. MaxPages + 1,
         Refreshed(bk).iNext <= next, CopyUpTo(Refreshed(bk), next)
  PROVE  /\ image' \in Images
         /\ \A p \in Pages : p < next /\ p <= size => image'[p] = file[p]
  <1> DEFINE b == Refreshed(bk)
  <1>1. TypeOK
    BY DEF IInv
  <1>2. image' \in Images
    BY <1>1 DEF CopyUpTo, TypeOK, Images
  <1>3. \A p \in Pages : image'[p] = IF p \in b.iNext .. (next - 1)
                                     THEN file[p] ELSE image[p]
    BY DEF CopyUpTo
  <1>4. ASSUME NEW p \in Pages, p < b.iNext, p <= size
        PROVE  image[p] = file[p]
    <2>1. b.iNext # 1
      BY <1>4, BackupAssumption DEF Pages
    <2>2. bk.attached /\ seen = vers
      BY <1>1, <2>1, RefreshedType DEF IInv, AttachInv, Stepping
    <2>3. b = bk
      BY <1>1, <2>2, RefreshedType
    <2>4. QED
      BY <1>4, <2>2, <2>3 DEF IInv, Mirror, Listening, Stepping, Settled
  <1>5. ASSUME NEW p \in Pages, p < next, p <= size
        PROVE  image'[p] = file[p]
    <2>1. p \in Nat /\ b.iNext \in Nat
      BY <1>1, RefreshedType DEF Pages
    <2>2. CASE p < b.iNext
      BY <1>3, <1>4, <1>5, <2>1, <2>2
    <2>3. CASE ~(p < b.iNext)
      BY <1>3, <1>5, <2>1, <2>3
    <2>4. QED
      BY <2>2, <2>3
  <1>6. QED
    BY <1>2, <1>5

---------------------------------------------------------------------------
(* Steps of the source.                                                    *)

LEMMA ExternalCommitKeeps == IInv /\ ExternalCommit => IInv'
  <1> SUFFICES ASSUME IInv, ExternalCommit PROVE IInv'
    OBVIOUS
  <1> USE BackupAssumption DEF ExternalCommit, destination
  <1>0. TypeOK
    BY DEF IInv
  <1>1. PICK m \in Pages : \E w \in Writes(m) : size' = m /\ file' = Written(w, m)
    OBVIOUS
  <1>2. PICK w \in Writes(m) : file' = Written(w, m)
    BY <1>1
  <1>3. TypeOK'
    BY <1>0, <1>1, <1>2, WrittenType DEF TypeOK
  <1>4. Mirror' /\ PagerInv'
    BY <1>0 DEF IInv, Mirror, PagerInv, TypeOK
  <1>5. Tail'
    BY <1>1, <1>2 DEF Tail, Written
  <1>6. AttachInv'
    BY DEF IInv, AttachInv
  <1>7. QED
    BY <1>3, <1>4, <1>5, <1>6 DEF IInv

LEMMA SourceReadKeeps == IInv /\ SourceRead => IInv'
  <1> SUFFICES ASSUME IInv, SourceRead PROVE IInv'
    OBVIOUS
  <1> USE BackupAssumption DEF SourceRead, destination
  <1>0. TypeOK
    BY DEF IInv
  <1>1. TypeOK'
    BY <1>0, RefreshedType DEF TypeOK
  <1>2. Mirror'
    <2>1. Listening' => bk'.iNext = 1
      BY <1>0, RefreshedType DEF Listening
    <2>2. \A p \in Pages : ~(p < 1)
      BY DEF Pages
    <2>3. QED
      BY <2>1, <2>2 DEF Mirror
  <1>3. PagerInv' /\ Tail'
    BY <1>0 DEF IInv, PagerInv, Tail, TypeOK
  <1>4. AttachInv'
    BY <1>0, RefreshedType DEF IInv, AttachInv
  <1>5. QED
    BY <1>1, <1>2, <1>3, <1>4 DEF IInv

LEMMA SourceWriteKeeps == IInv /\ SourceWrite => IInv'
  <1> SUFFICES ASSUME IInv, SourceWrite PROVE IInv'
    OBVIOUS
  <1> USE BackupAssumption DEF SourceWrite, destination
  <1>0. TypeOK
    BY DEF IInv
  <1>1. PICK m \in Pages : \E w \in Writes(m) :
               mem' = Written(w, m) /\ memSize' = m /\ dirty' = w
    OBVIOUS
  <1>2. PICK w \in Writes(m) : mem' = Written(w, m) /\ dirty' = w
    BY <1>1
  <1>3. w \subseteq 1 .. m /\ (size + 1) .. m \subseteq w
    BY DEF Writes
  <1>4. TypeOK'
    BY <1>0, <1>1, <1>2, <1>3, WrittenType, RefreshedType DEF TypeOK, Pages
  <1>5. Mirror'
    <2>1. SUFFICES ASSUME Listening', NEW p \in Pages, p < bk'.iNext, Settled(p)'
                   PROVE  image'[p] = file'[p]
      BY DEF Mirror
    <2>2. p <= size
      BY <1>0, <1>1, <1>2, <1>3, <2>1 DEF Settled, TypeOK, Pages
    <2>3. bk'.iNext # 1
      BY <1>0, <2>1, RefreshedType DEF Pages
    <2>4. seen = vers /\ bk' = bk
      BY <1>0, <2>1, <2>3, RefreshedType DEF Listening
    <2>5. QED
      BY <2>1, <2>2, <2>4 DEF IInv, Mirror, Listening, Settled
  <1>6. PagerInv'
    BY <1>0, <1>1, <1>2 DEF PagerInv, Written, TypeOK, Pages
  <1>7. Tail'
    BY <1>0, <1>1, <1>2 DEF IInv, Tail, Written, TypeOK, Pages
  <1>8. AttachInv'
    BY <1>0, RefreshedType DEF IInv, AttachInv
  <1>9. QED
    BY <1>4, <1>5, <1>6, <1>7, <1>8 DEF IInv

LEMMA SpillKeeps ==
  ASSUME IInv, NEW q \in Pages, Spill(q)
  PROVE  IInv'
  <1> USE BackupAssumption DEF Spill
  <1>0. TypeOK
    BY DEF IInv
  <1>1. mem \in Images /\ {q} \in SUBSET Pages
    BY <1>0 DEF TypeOK
  <1>2. TypeOK'
    BY <1>0, <1>1, UpdateType DEF TypeOK, Images
  <1>3. \A p \in Pages : file'[p] = IF p = q THEN mem[q] ELSE file[p]
    BY <1>0 DEF TypeOK, Images
  <1>4. Mirror'
    <2>1. SUFFICES ASSUME Listening', seen = vers, NEW p \in Pages,
                          p < bk'.iNext, Settled(p)'
                   PROVE  image'[p] = file'[p]
      BY DEF Mirror
    <2>2. /\ bk' = bk /\ Listening
          /\ image'[p] = IF p = q THEN mem[q] ELSE image[p]
      BY <1>0, <1>1, <2>1, UpdateCopies DEF Listening
    <2>3. CASE p = q
      BY <1>3, <2>2, <2>3
    <2>4. CASE p # q
      BY <1>3, <2>1, <2>2, <2>4 DEF IInv, Mirror, Settled
    <2>5. QED
      BY <2>3, <2>4
  <1>5. PagerInv'
    BY <1>0, <1>3 DEF IInv, PagerInv
  <1>6. Tail'
    BY DEF IInv, Tail
  <1>7. AttachInv'
    BY <1>0, <1>1, UpdateType DEF IInv, AttachInv, BackupUpdate, TypeOK
  <1>8. QED
    BY <1>2, <1>4, <1>5, <1>6, <1>7 DEF IInv

LEMMA SourceCommitKeeps == IInv /\ SourceCommit => IInv'
  <1> SUFFICES ASSUME IInv, SourceCommit PROVE IInv'
    OBVIOUS
  <1> USE BackupAssumption DEF SourceCommit
  <1>0. TypeOK
    BY DEF IInv
  <1>1. mem \in Images /\ dirty \in SUBSET Pages
    BY <1>0 DEF TypeOK
  <1>2. TypeOK'
    <2>1. image' \in Images /\ bk' \in Backups
      BY <1>0, <1>1, UpdateType DEF Backups
    <2>2. vers' \in Nat /\ seen' \in Nat /\ dirty' \subseteq Pages
      BY <1>0 DEF TypeOK
    <2>3. QED
      BY <1>0, <2>1, <2>2 DEF TypeOK, Backups
  <1>3. Mirror'
    <2>1. SUFFICES ASSUME Listening', NEW p \in Pages, p < bk'.iNext, p <= memSize
                   PROVE  image'[p] = mem[p]
      BY DEF Mirror, Settled
    <2>2. /\ bk' = bk /\ Listening
          /\ image'[p] = IF p \in dirty /\ p < bk.iNext THEN mem[p] ELSE image[p]
      BY <1>0, <1>1, <2>1, UpdateCopies DEF Listening
    <2>3. CASE p \in dirty
      BY <2>1, <2>2, <2>3
    <2>4. CASE p \notin dirty
      <3>1. image[p] = file[p]
        BY <2>1, <2>2, <2>4 DEF IInv, Mirror, PagerInv, Settled
      <3>2. mem[p] = file[p]
        BY <2>1, <2>4 DEF IInv, PagerInv
      <3>3. QED
        BY <2>2, <2>4, <3>1, <3>2
    <2>5. QED
      BY <2>3, <2>4
  <1>4. PagerInv' /\ Tail'
    BY <1>0 DEF IInv, PagerInv, Tail, TypeOK
  <1>5. AttachInv'
    BY <1>0, <1>1, UpdateType DEF IInv, AttachInv, BackupUpdate, TypeOK
  <1>6. QED
    BY <1>2, <1>3, <1>4, <1>5 DEF IInv

LEMMA SourceRollbackKeeps == IInv /\ SourceRollback => IInv'
  <1> SUFFICES ASSUME IInv, SourceRollback PROVE IInv'
    OBVIOUS
  <1> USE BackupAssumption DEF SourceRollback
  <1>0. TypeOK
    BY DEF IInv
  <1>1. journal \in Images /\ PlayedBack \in SUBSET Pages
    BY <1>0 DEF TypeOK, PlayedBack, Spilled
  <1>2. TypeOK'
    BY <1>0, <1>1, UpdateType DEF TypeOK
  <1>3. Mirror'
    <2>1. SUFFICES ASSUME Listening', NEW p \in Pages, p < bk'.iNext, p <= size,
                          seen = vers
                   PROVE  image'[p] = journal[p]
      BY DEF Mirror, Settled
    <2>2. /\ bk' = bk /\ Listening
          /\ image'[p] = IF p \in PlayedBack /\ p < bk.iNext THEN journal[p]
                         ELSE image[p]
      BY <1>0, <1>1, <2>1, UpdateCopies DEF Listening
    <2>3. image[p] = file[p]
      BY <2>1, <2>2 DEF IInv, Mirror, Settled
    <2>4. p \notin PlayedBack => file[p] = journal[p]
      BY <1>0, <2>1 DEF PlayedBack, Spilled, Pages, TypeOK
    <2>5. QED
      BY <2>1, <2>2, <2>3, <2>4
  <1>4. PagerInv' /\ Tail'
    BY <1>0 DEF IInv, PagerInv, Tail, TypeOK
  <1>5. AttachInv'
    BY <1>0, <1>1, UpdateType DEF IInv, AttachInv, BackupUpdate, TypeOK
  <1>6. QED
    BY <1>2, <1>3, <1>4, <1>5 DEF IInv

---------------------------------------------------------------------------
(* Steps of the backup.                                                    *)

LEMMA StepMoreKeeps ==
  ASSUME IInv, NEW n \in Steps, StepMore(n)
  PROVE  IInv'
  <1> DEFINE b == Refreshed(bk)
             next == NextAfter(b, n)
  <1> USE BackupAssumption DEF StepMore
  <1>0. TypeOK /\ n \in Nat
    BY DEF IInv
  <1>1. b.iNext \in 1 .. MaxPages + 1
    BY <1>0, RefreshedType
  <1>2. next \in 1 .. MaxPages + 1 /\ b.iNext <= next
    BY <1>0, <1>1, NextAfterRange
  <1>3. /\ image' \in Images
        /\ \A p \in Pages : p < next /\ p <= size => image'[p] = file[p]
    BY <1>2, CopyIsCurrent
  <1>4. bk' = [b EXCEPT !.iNext = next, !.attached = TRUE]
    OBVIOUS
  <1>5. TypeOK'
    BY <1>0, <1>2, <1>3, <1>4, RefreshedType DEF TypeOK
  <1>6. bk'.iNext = next /\ bk'.attached
    BY <1>0, <1>4, RefreshedType
  <1>7. Mirror'
    BY <1>3, <1>6 DEF Mirror, Settled, Stepping
  <1>8. PagerInv' /\ Tail' /\ AttachInv'
    BY <1>0, <1>6 DEF IInv, PagerInv, Tail, AttachInv, TypeOK, Stepping
  <1>9. QED
    BY <1>5, <1>7, <1>8 DEF IInv

\* The step that returns SQLITE_DONE leaves the committed source behind.
LEMMA StepDoneKeeps ==
  ASSUME IInv, NEW n \in Steps, StepDone(n)
  PROVE  IInv' /\ dest' = Committed
  <1> DEFINE b == Refreshed(bk)
             next == NextAfter(b, n)
  <1> USE BackupAssumption DEF StepDone
  <1>0. TypeOK /\ n \in Nat
    BY DEF IInv
  <1>1. b.iNext \in 1 .. MaxPages + 1
    BY <1>0, RefreshedType
  <1>2. next \in 1 .. MaxPages + 1 /\ b.iNext <= next
    BY <1>0, <1>1, NextAfterRange
  <1>3. /\ image' \in Images
        /\ \A p \in Pages : p < next /\ p <= size => image'[p] = file[p]
    BY <1>2, CopyIsCurrent
  <1>4. [p \in Pages |-> IF p <= size THEN image'[p] ELSE 0] = file
    <2>1. \A p \in Pages : (IF p <= size THEN image'[p] ELSE 0) = file[p]
      BY <1>0, <1>2, <1>3 DEF IInv, Tail, Stepping, TypeOK, Pages
    <2>2. file = [p \in Pages |-> file[p]]
      BY <1>0 DEF TypeOK, Images
    <2>3. QED
      BY <2>1, <2>2
  <1>5. dest' = [pages |-> file, size |-> size]
    BY <1>4
  <1>6. TypeOK'
    <2>1. dest' \in [pages : Images, size : 0 .. MaxPages]
      BY <1>0, <1>5 DEF TypeOK, Pages
    <2>2. bk' = [b EXCEPT !.iNext = next, !.rc = "done"]
      OBVIOUS
    <2>3. bk' \in Backups
      BY <1>0, <1>2, <2>2, RefreshedType DEF Backups
    <2>4. QED
      BY <1>0, <1>3, <2>1, <2>3 DEF TypeOK, Backups
  <1>7. Mirror' /\ PagerInv' /\ Tail' /\ AttachInv'
    BY <1>0, RefreshedType
    DEF IInv, Mirror, Listening, PagerInv, Tail, AttachInv, TypeOK, Stepping
  <1>8. QED
    BY <1>5, <1>6, <1>7 DEF IInv, Committed, Stepping

LEMMA StepFailsKeeps ==
  ASSUME IInv, NEW n \in Steps, StepFails(n)
  PROVE  IInv'
  <1> DEFINE b == Refreshed(bk)
  <1> USE BackupAssumption DEF StepFails
  <1>0. TypeOK /\ n \in Nat
    BY DEF IInv
  <1>1. b.iNext \in 1 .. MaxPages + 1
    BY <1>0, RefreshedType
  <1>2. PICK next \in b.iNext .. NextAfter(b, n) :
             CopyUpTo(b, next) /\ bk' = [b EXCEPT !.iNext = next, !.rc = "fatal"]
    OBVIOUS
  <1>3. next \in 1 .. MaxPages + 1 /\ b.iNext <= next
    BY <1>0, <1>1, NextAfterRange
  <1>4. image' \in Images
    BY <1>2, <1>3, CopyIsCurrent
  <1>5. TypeOK'
    BY <1>0, <1>2, <1>3, <1>4, RefreshedType DEF TypeOK
  <1>6. Mirror' /\ PagerInv' /\ Tail' /\ AttachInv'
    BY <1>0, <1>2, RefreshedType
    DEF IInv, Mirror, Listening, PagerInv, Tail, AttachInv, TypeOK, Stepping
  <1>7. QED
    BY <1>5, <1>6 DEF IInv

\* A backup begins or ends; the destination is as it is committed.
LEMMA InitFinishKeeps == IInv /\ (BackupInit \/ BackupFinish) => IInv'
  <1> SUFFICES ASSUME IInv, BackupInit \/ BackupFinish PROVE IInv'
    OBVIOUS
  <1> USE DEF BackupInit, BackupFinish, source
  <1>0. TypeOK
    BY DEF IInv
  <1>1. TypeOK'
    <2>1. bk' \in Backups /\ image' \in Images
      BY <1>0, NoBackupType, TypeParts
    <2>2. QED
      BY <1>0, <2>1 DEF TypeOK, Backups
  <1>2. Mirror' /\ AttachInv'
    BY DEF Mirror, Listening, AttachInv, NoBackup
  <1>3. PagerInv' /\ Tail'
    BY DEF IInv, PagerInv, Tail
  <1>4. QED
    BY <1>1, <1>2, <1>3 DEF IInv

LEMMA CrashKeeps == IInv /\ Crash => IInv'
  <1> SUFFICES ASSUME IInv, Crash PROVE IInv'
    OBVIOUS
  <1> USE DEF Crash, Committed
  <1>0. TypeOK
    BY DEF IInv
  <1>1. TypeOK'
    <2>1. bk' \in Backups /\ image' \in Images
      BY <1>0, NoBackupType, TypeParts
    <2>2. QED
      BY <1>0, <2>1 DEF TypeOK, Backups
  <1>2. Mirror' /\ AttachInv'
    BY DEF Mirror, Listening, AttachInv, NoBackup
  <1>3. PagerInv' /\ Tail'
    BY <1>0 DEF IInv, PagerInv, Tail
  <1>4. QED
    BY <1>1, <1>2, <1>3 DEF IInv

---------------------------------------------------------------------------

\* Every step keeps the invariant, and changes the destination only to the
\* committed source.
LEMMA NextKeepsIInv ==
  ASSUME IInv, [Next]_vars
  PROVE  IInv' /\ (dest' # dest => dest' = Committed)
  <1>1. CASE ExternalCommit
    BY <1>1, ExternalCommitKeeps DEF ExternalCommit, destination
  <1>2. CASE SourceRead
    BY <1>2, SourceReadKeeps DEF SourceRead, destination
  <1>3. CASE SourceWrite
    BY <1>3, SourceWriteKeeps DEF SourceWrite, destination
  <1>4. CASE SourceCommit
    BY <1>4, SourceCommitKeeps DEF SourceCommit
  <1>5. CASE SourceRollback
    BY <1>5, SourceRollbackKeeps DEF SourceRollback
  <1>6. ASSUME NEW p \in Pages, Spill(p)
        PROVE  IInv' /\ dest' = dest
    BY <1>6, SpillKeeps DEF Spill
  <1>7. CASE BackupInit \/ BackupFinish
    BY <1>7, InitFinishKeeps DEF BackupInit, BackupFinish
  <1>8. CASE Crash
    BY <1>8, CrashKeeps DEF Crash
  <1>9. ASSUME NEW n \in Steps, StepMore(n)
        PROVE  IInv' /\ dest' = dest
    BY <1>9, StepMoreKeeps DEF StepMore
  <1>10. ASSUME NEW n \in Steps, StepDone(n)
         PROVE  IInv' /\ dest' = Committed
    BY <1>10, StepDoneKeeps
  <1>11. ASSUME NEW n \in Steps, StepFails(n)
         PROVE  IInv' /\ dest' = dest
    BY <1>11, StepFailsKeeps DEF StepFails
  <1>12. CASE UNCHANGED vars
    BY <1>12 DEF vars, IInv, TypeOK, Mirror, Listening, Settled, PagerInv, Tail,
                 AttachInv
  <1>13. QED
    BY <1>1, <1>2, <1>3, <1>4, <1>5, <1>6, <1>7, <1>8, <1>9, <1>10, <1>11, <1>12
    DEF Next, Source, Step

\* The inductive invariant.
THEOREM Invariance == Spec => []IInv
  <1>1. IInv /\ [Next]_vars => IInv'
    BY NextKeepsIInv
  <1>2. QED
    BY InitIInv, <1>1, PTL DEF Spec

\* Every variable keeps its type, and iNext is at most one past the last page.
\* (sqlite3_backup_step, sqlite3BackupRestart)
THEOREM TypeCorrect == Spec => []TypeOK
  <1>1. IInv => TypeOK
    BY DEF IInv
  <1>2. QED
    BY <1>1, Invariance, PTL

\* What has been copied is what the source holds, through spills, commits,
\* rollbacks and restarts.  (sqlite3BackupUpdate, sqlite3BackupRestart)
THEOREM CopyIsFaithful == Spec => []CopiedIsCurrent
  <1>1. IInv => CopiedIsCurrent
    <2>1. SUFFICES ASSUME IInv, Listening /\ seen = vers, NEW p \in 1 .. size,
                          p < bk.iNext
                   PROVE  image[p] = file[p]
      BY DEF CopiedIsCurrent
    <2>2. p \in Pages /\ p <= size
      BY <2>1, BackupAssumption DEF IInv, TypeOK, Pages
    <2>3. QED
      BY <2>1, <2>2 DEF IInv, Mirror, Settled
  <1>2. QED
    BY <1>1, Invariance, PTL

\* The destination becomes, in one step, what the source has committed.
\* (sqlite3_backup_step)
THEOREM Snapshot == Spec => DestIsSnapshot
  <1>1. IInv /\ [Next]_vars => [dest' # dest => dest' = Committed]_vars
    BY NextKeepsIInv
  <1>2. QED
    BY <1>1, Invariance, PTL DEF Spec, DestIsSnapshot
=============================================================================
