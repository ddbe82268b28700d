------------------------------ MODULE UnixLocks ------------------------------
(***************************************************************************)
(* The locks of a rollback-mode database file on Unix: the protocol of     *)
(* fcntl() calls in os_unix.c, by which several connections of several     *)
(* processes share one file, and the part of the pager that drives it      *)
(* (reading, hot-journal recovery, writing, the error state).              *)
(*                                                                         *)
(* POSIX locks belong to a process: they do not keep two connections of    *)
(* one process apart, and closing any descriptor of a file drops all locks *)
(* of the process on it.  The unixInodeInfo object of a process makes up   *)
(* for both.  The threads of a process meet at pLockMutex, which one holds *)
(* across the fcntl() calls of one xLock or xUnlock; processes interleave  *)
(* between the calls.                                                      *)
(***************************************************************************)
EXTENDS Naturals, FiniteSets

CONSTANTS Procs,        \* processes
          Files,        \* unixFile objects, each with its pager
          Owner,        \* the process of each
          MaxFault,     \* bound: crashes and failed system calls for locks
          CloseRaces,   \* whether a lock may be taken while unixClose closes
          IgnoredErrors,\* whether an unlock whose result is not read may fail
          FstatFails    \* whether fstat() may fail when the process has other
                        \* descriptors of the file open

ASSUME OwnerAssumption == Owner \in [Files -> Procs]
ASSUME FilesAssumption == IsFiniteSet(Files)
ASSUME MaxFaultAssumption == MaxFault \in Nat

VARIABLES lock,         \* unixFile.eFileLock
          inode,        \* unixInodeInfo of each process
          posix,        \* the lock of each process on each byte range
          op,           \* the xLock or xUnlock that holds pLockMutex
          eLock,        \* Pager.eLock
          phase,        \* Pager.eState and the place in sqlite3PagerSharedLock
          journal,      \* the rollback journal exists
          torn,         \* the file holds part of an unfinished transaction
          faults

osVars    == <<lock, inode, posix, op>>
pagerVars == <<eLock, phase>>
fileVars  == <<journal, torn>>
vars      == <<osVars, pagerVars, fileVars, faults>>

NONE      == 0
SHARED    == 1
RESERVED  == 2
PENDING   == 3
EXCLUSIVE == 4
UNKNOWN   == 5                          \* UNKNOWN_LOCK of the pager

Ranges == {"PENDING_BYTE", "RESERVED_BYTE", "SHARED_RANGE"}
Modes  == {"none", "rd", "wr"}          \* F_UNLCK, F_RDLCK, F_WRLCK

Phases ==
    {"CLOSED", "OPEN", "ACCESS", "CHECK", "HOT", "GONE", "PLAYED", "READER",
     "WRITER", "MODIFIED", "DONE", "LEAVE", "ERROR", "CLOSING", "TEST", "DEFER", "SHUT"}

Steps == {"pending", "range", "drop", "refused", "demote", "release", "last"}
Idle  == [file |-> {}, want |-> NONE, at |-> "idle"]

FreshInode == [nShared |-> 0, nLock |-> 0, eFileLock |-> NONE, nUnused |-> 0]

TypeOK ==
    /\ lock \in [Files -> NONE..EXCLUSIVE]
    /\ inode \in [Procs -> [nShared : Nat, nLock : Nat,
                            eFileLock : NONE..EXCLUSIVE, nUnused : Nat]]
    /\ posix \in [Ranges -> [Procs -> Modes]]
    /\ op \in [Procs -> {Idle} \cup
                        [file : {{f} : f \in Files}, want : NONE..EXCLUSIVE,
                         at : Steps]]
    /\ eLock \in [Files -> NONE..UNKNOWN]
    /\ phase \in [Files -> Phases]
    /\ journal \in BOOLEAN /\ torn \in BOOLEAN
    /\ faults \in 0..MaxFault

Init ==
    /\ lock = [f \in Files |-> NONE]
    /\ inode = [p \in Procs |-> FreshInode]
    /\ posix = [b \in Ranges |-> [p \in Procs |-> "none"]]
    /\ op = [p \in Procs |-> Idle]
    /\ eLock = [f \in Files |-> NONE]
    /\ phase = [f \in Files |-> "CLOSED"]
    /\ journal = FALSE /\ torn = FALSE
    /\ faults = 0

-----------------------------------------------------------------------------
(* fcntl() *)

Node(f) == inode[Owner[f]]              \* pFile->pInode
Siblings(p) == {f \in Files : Owner[f] = p /\ phase[f] # "CLOSED"}

\* F_SETLK finds an incompatible lock of another process.
Conflict(p, b, mode) ==
    \E q \in Procs \ {p} :
        posix[b][q] = "wr" \/ (mode = "wr" /\ posix[b][q] = "rd")

\* What F_SETLK on ranges B leaves behind; it replaces p's own locks there.
Setlk(p, B, mode) ==
    posix' = [b \in Ranges |->
                IF b \in B THEN [posix[b] EXCEPT ![p] = mode] ELSE posix[b]]

\* close() of any descriptor drops every lock of the process on the file.
CloseFd(p) == Setlk(p, Ranges, "none")

Fault == faults < MaxFault /\ faults' = faults + 1
NoFault == UNCHANGED faults

\* unixCheckReservedLock: F_GETLK tells of other processes only.
ReservedSeen(f) ==
    \/ Node(f).eFileLock > SHARED
    \/ Conflict(Owner[f], "RESERVED_BYTE", "wr")

-----------------------------------------------------------------------------
(* The pager's answer to the result of a call: pagerLockDb and             *)
(* pagerUnlockDb, and what their callers do next.                          *)

Locking == [OPEN |-> SHARED, HOT |-> EXCLUSIVE, READER |-> RESERVED,
            WRITER |-> EXCLUSIVE, MODIFIED |-> EXCLUSIVE]
Unlocking == [LEAVE |-> NONE, ERROR |-> NONE, CLOSING |-> NONE,
              GONE |-> SHARED, PLAYED |-> SHARED, DONE |-> SHARED]

Mine(f) == op[Owner[f]].file = {f}      \* f's thread is inside xLock or xUnlock
Mutex(f) == op[Owner[f]] = Idle         \* pLockMutex is free
Request(f) == op[Owner[f]].want

\* f's pager calls xLock for the level `want`.
Asks(f, want) ==
    /\ phase[f] \in DOMAIN Locking /\ want = Locking[phase[f]]
    /\ eLock[f] < want \/ eLock[f] = UNKNOWN
    /\ ~Mine(f)

\* f's pager, or unixClose, calls xUnlock for the level `to`.
Drops(f, to) ==
    /\ phase[f] \in DOMAIN Unlocking /\ to = Unlocking[phase[f]]
    /\ ~Mine(f)

\* Mutant: the check for a hot journal is made after a failed unlock too.
MutantTrustedLock(f, want) ==
    /\ eLock' = [eLock EXCEPT ![f] = want]
    /\ phase' = [phase EXCEPT ![f] =
                    IF @ = "OPEN" THEN "ACCESS"
                    ELSE IF @ = "READER" THEN "WRITER" ELSE @]

Locked(f, want) ==
    /\ eLock' = [eLock EXCEPT ![f] =
                    IF @ # UNKNOWN \/ want = EXCLUSIVE THEN want ELSE @]
    /\ phase' = [phase EXCEPT ![f] =
                    IF @ = "OPEN"
                    THEN IF eLock[f] = UNKNOWN THEN "HOT" ELSE "ACCESS"
                    ELSE IF @ = "READER" THEN "WRITER" ELSE @]

NotLocked(f) ==
    /\ phase' = [phase EXCEPT ![f] = IF @ = "HOT" THEN "LEAVE" ELSE @]
    /\ UNCHANGED eLock

Unlocked(f, ok) ==
    /\ eLock' = [eLock EXCEPT ![f] =
                    IF phase[f] = "CLOSING" THEN NONE
                    ELSE IF phase[f] = "ERROR" /\ ~ok THEN UNKNOWN
                    ELSE IF @ = UNKNOWN THEN @ ELSE Unlocking[phase[f]]]
    /\ phase' = [phase EXCEPT ![f] =
                    IF @ = "CLOSING" THEN "TEST"
                    ELSE IF @ \in {"LEAVE", "ERROR"} THEN "OPEN"
                    ELSE IF ok \/ @ = "GONE" THEN "READER" ELSE "ERROR"]

-----------------------------------------------------------------------------
(* unixOpen and unixClose *)

BigLockFree(p) == \A f \in Siblings(p) : phase[f] \notin {"DEFER", "SHUT"}

\* A descriptor whose close was deferred is used again, or the file is opened.
Descriptor(p) ==
    inode' = [inode EXCEPT ![p].nUnused = IF @ = 0 THEN 0 ELSE @ - 1]

Open(f) ==
    /\ phase[f] = "CLOSED" /\ BigLockFree(Owner[f])
    /\ phase' = [phase EXCEPT ![f] = "OPEN"]
    /\ Descriptor(Owner[f])
    /\ UNCHANGED <<lock, posix, op, eLock, fileVars, faults>>

\* findInodeInfo fails and the descriptor is closed: for want of memory at a
\* first open only, in fstat() whatever else the process does with the file.
OpenFails(f) ==
    /\ phase[f] = "CLOSED" /\ BigLockFree(Owner[f])
    /\ FstatFails \/ Siblings(Owner[f]) = {}
    /\ Fault
    /\ Descriptor(Owner[f]) /\ CloseFd(Owner[f])
    /\ UNCHANGED <<lock, op, pagerVars, fileVars>>

StartClose(f) ==
    /\ phase[f] = "OPEN" /\ ~Mine(f)
    /\ phase' = [phase EXCEPT ![f] = "CLOSING"]
    /\ UNCHANGED <<osVars, eLock, fileVars, faults>>

\* Mutant: the descriptor is closed whatever locks the process holds.
MutantCloseNow(f) ==
    /\ phase[f] = "TEST" /\ Mutex(f) /\ BigLockFree(Owner[f])
    /\ phase' = [phase EXCEPT ![f] = "SHUT"]
    /\ UNCHANGED <<osVars, eLock, fileVars, faults>>

\* unixClose under both mutexes: with locks about, the close waits for them.
CloseTest(f) ==
    /\ phase[f] = "TEST" /\ Mutex(f) /\ BigLockFree(Owner[f])
    /\ IF Node(f).nLock > 0
       THEN /\ phase' = [phase EXCEPT ![f] = "DEFER"]
            /\ inode' = [inode EXCEPT ![Owner[f]].nUnused = @ + 1]
       ELSE phase' = [phase EXCEPT ![f] = "SHUT"] /\ UNCHANGED inode
    /\ UNCHANGED <<lock, posix, op, eLock, fileVars, faults>>

\* releaseInodeInfo and closeUnixFile, under unixBigLock alone.
CloseDone(f) ==
    LET p == Owner[f]
        last == Siblings(p) = {f}
    IN  /\ phase[f] \in {"DEFER", "SHUT"}
        /\ phase' = [phase EXCEPT ![f] = "CLOSED"]
        /\ lock' = [lock EXCEPT ![f] = NONE]
        /\ inode' = IF last THEN [inode EXCEPT ![p] = FreshInode] ELSE inode
        /\ IF phase[f] = "SHUT" \/ last THEN CloseFd(p) ELSE UNCHANGED posix
        /\ UNCHANGED <<op, eLock, fileVars, faults>>

-----------------------------------------------------------------------------
(* unixLock *)

\* The file holds the lock, or a stronger one, already.
AlreadyHeld(f) ==
    \E want \in SHARED..EXCLUSIVE :
        /\ Asks(f, want) /\ lock[f] >= want
        /\ Locked(f, want)
        /\ UNCHANGED <<osVars, fileVars, faults>>

\* Another connection of the process stands in the way.
Precluded(f, want) ==
    /\ lock[f] # Node(f).eFileLock
    /\ Node(f).eFileLock >= PENDING \/ want > SHARED

RefusedLocally(f) ==
    \E want \in SHARED..EXCLUSIVE :
        /\ Asks(f, want) /\ lock[f] < want /\ Mutex(f)
        /\ Precluded(f, want)
        /\ NotLocked(f)
        /\ UNCHANGED <<osVars, fileVars, faults>>

\* The process reads already: no system call is needed.
SharesLocally(f) == Node(f).eFileLock \in {SHARED, RESERVED}

ShareLocally(f) ==
    /\ Asks(f, SHARED) /\ lock[f] < SHARED /\ Mutex(f)
    /\ ~Precluded(f, SHARED) /\ SharesLocally(f)
    /\ lock' = [lock EXCEPT ![f] = SHARED]
    /\ inode' = [inode EXCEPT ![Owner[f]].nShared = @ + 1, ![Owner[f]].nLock = @ + 1]
    /\ Locked(f, SHARED)
    /\ UNCHANGED <<posix, op, fileVars, faults>>

\* unixClose does not keep the other threads out between its test and close().
NotClosing(f) ==
    CloseRaces \/ \A g \in Siblings(Owner[f]) : phase[g] # "SHUT"

BeginLock(f) ==
    \E want \in SHARED..EXCLUSIVE :
        /\ Asks(f, want) /\ lock[f] < want /\ Mutex(f) /\ NotClosing(f)
        /\ ~Precluded(f, want)
        /\ want = SHARED => ~SharesLocally(f)
        /\ op' = [op EXCEPT ![Owner[f]] =
                    [file |-> {f}, want |-> want,
                     at |-> IF \/ want = SHARED
                               \/ want = EXCLUSIVE /\ lock[f] = RESERVED
                            THEN "pending" ELSE "range"]]
        /\ UNCHANGED <<lock, inode, posix, pagerVars, fileVars, faults>>

At(f, step) == Mine(f) /\ op[Owner[f]].at = step
GoTo(f, step) == op' = [op EXCEPT ![Owner[f]].at = step]
Return(f) == op' = [op EXCEPT ![Owner[f]] = Idle]

\* F_SETLK fails: another process is in the way, or the call itself failed.
Fails(f, b, mode) == (Conflict(Owner[f], b, mode) /\ NoFault) \/ Fault

GiveUp(f) ==
    /\ Return(f) /\ NotLocked(f)
    /\ UNCHANGED <<lock, inode, posix, fileVars>>

SetPending(f) ==
    /\ lock' = [lock EXCEPT ![f] = PENDING]
    /\ inode' = [inode EXCEPT ![Owner[f]].eFileLock = PENDING]

\* Mutant: a writer marks itself pending without a lock of the system.
MutantNoPendingByte(f) ==
    /\ At(f, "pending")
    /\ \/ /\ ~Conflict(Owner[f], "PENDING_BYTE", "rd")
          /\ IF Request(f) = EXCLUSIVE
             THEN SetPending(f) /\ UNCHANGED posix
             ELSE Setlk(Owner[f], {"PENDING_BYTE"}, "rd") /\ UNCHANGED <<lock, inode>>
          /\ GoTo(f, "range")
          /\ UNCHANGED <<pagerVars, fileVars, faults>>
       \/ Fails(f, "PENDING_BYTE", "rd") /\ GiveUp(f)

\* The temporary lock of a reader, or the one with which a writer keeps
\* new readers out.
TakePending(f) ==
    LET mode == IF Request(f) = SHARED THEN "rd" ELSE "wr"
    IN  /\ At(f, "pending")
        /\ \/ /\ ~Conflict(Owner[f], "PENDING_BYTE", mode)
              /\ Setlk(Owner[f], {"PENDING_BYTE"}, mode)
              /\ IF Request(f) = EXCLUSIVE
                 THEN SetPending(f) ELSE UNCHANGED <<lock, inode>>
              /\ GoTo(f, "range")
              /\ UNCHANGED <<pagerVars, fileVars, faults>>
           \/ Fails(f, "PENDING_BYTE", mode) /\ GiveUp(f)

Granted(f, want) ==
    /\ lock' = [lock EXCEPT ![f] = want]
    /\ Locked(f, want)

\* SHARED: the range is read-locked under the temporary lock, which is then
\* dropped whether that worked or not.
TakeShared(f) ==
    /\ At(f, "range") /\ Request(f) = SHARED
    /\ \/ /\ ~Conflict(Owner[f], "SHARED_RANGE", "rd")
          /\ Setlk(Owner[f], {"SHARED_RANGE"}, "rd")
          /\ GoTo(f, "drop") /\ NoFault
       \/ /\ Fails(f, "SHARED_RANGE", "rd")
          /\ GoTo(f, "refused") /\ UNCHANGED posix
    /\ UNCHANGED <<lock, inode, pagerVars, fileVars>>

DropPending(f) ==
    /\ At(f, "drop") \/ At(f, "refused")
    /\ Return(f)
    /\ \/ Setlk(Owner[f], {"PENDING_BYTE"}, "none") /\ NoFault
       \/ Fault /\ UNCHANGED posix
    /\ IF At(f, "drop") /\ faults' = faults
       THEN /\ Granted(f, SHARED)
            /\ inode' = [inode EXCEPT ![Owner[f]].nShared = 1,
                                      ![Owner[f]].nLock = @ + 1,
                                      ![Owner[f]].eFileLock = SHARED]
       ELSE NotLocked(f) /\ UNCHANGED <<lock, inode>>
    /\ UNCHANGED fileVars

\* Mutant: the other connections of the process do not count.
MutantNotCrowded(f, want) == FALSE

\* Another connection of the process still reads.
Crowded(f, want) == want = EXCLUSIVE /\ Node(f).nShared > 1

\* RESERVED takes its byte, EXCLUSIVE the range that every reader locks.
TakeRange(f) ==
    LET want == Request(f)
        b == IF want = RESERVED THEN "RESERVED_BYTE" ELSE "SHARED_RANGE"
    IN  /\ At(f, "range") /\ want > SHARED
        /\ \/ /\ ~Crowded(f, want) /\ ~Conflict(Owner[f], b, "wr")
              /\ Setlk(Owner[f], {b}, "wr")
              /\ Granted(f, want)
              /\ inode' = [inode EXCEPT ![Owner[f]].eFileLock = want]
              /\ Return(f)
              /\ UNCHANGED <<fileVars, faults>>
           \/ Crowded(f, want) /\ GiveUp(f) /\ NoFault
           \/ ~Crowded(f, want) /\ Fails(f, b, "wr") /\ GiveUp(f)

-----------------------------------------------------------------------------
(* posixUnlock *)

AlreadyUnlocked(f) ==
    \E to \in {NONE, SHARED} :
        /\ Drops(f, to) /\ lock[f] <= to
        /\ Unlocked(f, TRUE)
        /\ UNCHANGED <<osVars, fileVars, faults>>

BeginUnlock(f) ==
    \E to \in {NONE, SHARED} :
        /\ Drops(f, to) /\ lock[f] > to /\ Mutex(f)
        /\ op' = [op EXCEPT ![Owner[f]] =
                    [file |-> {f}, want |-> to,
                     at |-> IF lock[f] = SHARED THEN "last"
                            ELSE IF to = SHARED THEN "demote" ELSE "release"]]
        /\ UNCHANGED <<lock, inode, posix, pagerVars, fileVars, faults>>

\* Nobody reads the result of the unlock after a journal that is gone.
MayFail(f) == IgnoredErrors \/ phase[f] # "GONE"

UnlockFails(f) ==
    /\ MayFail(f) /\ Return(f) /\ Unlocked(f, FALSE)
    /\ UNCHANGED <<lock, inode, posix>>

\* First the range is read-locked again ...
Demote(f) ==
    /\ At(f, "demote")
    /\ \/ /\ ~Conflict(Owner[f], "SHARED_RANGE", "rd")
          /\ Setlk(Owner[f], {"SHARED_RANGE"}, "rd")
          /\ GoTo(f, "release")
          /\ UNCHANGED <<lock, inode, pagerVars, faults>>
       \/ Fails(f, "SHARED_RANGE", "rd") /\ UnlockFails(f)
    /\ UNCHANGED fileVars

\* ... then the two bytes are released, in one call.
Release(f) ==
    /\ At(f, "release")
    /\ \/ /\ Setlk(Owner[f], {"PENDING_BYTE", "RESERVED_BYTE"}, "none")
          /\ inode' = [inode EXCEPT ![Owner[f]].eFileLock = SHARED]
          /\ IF Request(f) = NONE
             THEN GoTo(f, "last") /\ UNCHANGED <<lock, pagerVars>>
             ELSE /\ Return(f) /\ Unlocked(f, TRUE)
                  /\ lock' = [lock EXCEPT ![f] = SHARED]
          /\ NoFault
       \/ Fault /\ UnlockFails(f)
    /\ UNCHANGED fileVars

\* The last reader of the process unlocks the whole file, and with the last
\* lock of the process go the descriptors whose close was deferred.
LastReader(n) == n.nShared = 1
Deferred(n) == n.nLock = 1 /\ n.nUnused > 0

\* Mutant: the deferred descriptors wait for the end of the inode object.
MutantForgetUnused(f) ==
    LET p == Owner[f]
        n == inode[p]
    IN  /\ At(f, "last")
        /\ inode' = [inode EXCEPT ![p] =
                       [n EXCEPT !.nShared = @ - 1, !.nLock = @ - 1,
                                 !.eFileLock = IF LastReader(n) THEN NONE ELSE @]]
        /\ lock' = [lock EXCEPT ![f] = NONE]
        /\ Return(f)
        /\ IF LastReader(n) THEN CloseFd(p) ELSE UNCHANGED posix
        /\ Unlocked(f, TRUE)
        /\ UNCHANGED <<fileVars, faults>>

Last(f) ==
    LET p == Owner[f]
        n == inode[p]
    IN  /\ At(f, "last")
        /\ inode' = [inode EXCEPT ![p] =
                       [nShared |-> n.nShared - 1, nLock |-> n.nLock - 1,
                        eFileLock |-> IF LastReader(n) THEN NONE ELSE n.eFileLock,
                        nUnused |-> IF n.nLock = 1 THEN 0 ELSE n.nUnused]]
        /\ lock' = [lock EXCEPT ![f] = NONE]
        /\ Return(f)
        /\ \/ /\ IF LastReader(n) \/ Deferred(n) THEN CloseFd(p) ELSE UNCHANGED posix
              /\ Unlocked(f, TRUE) /\ NoFault
           \/ /\ LastReader(n) /\ Fault
              /\ IF Deferred(n) THEN CloseFd(p) ELSE UNCHANGED posix
              /\ Unlocked(f, FALSE)
        /\ UNCHANGED fileVars

-----------------------------------------------------------------------------
(* The pager between the calls *)

Moves(f, from, to) == phase[f] = from /\ ~Mine(f) /\ phase' = [phase EXCEPT ![f] = to]

\* hasHotJournal: is there a journal ...
Access(f) ==
    /\ Moves(f, "ACCESS", IF journal THEN "CHECK" ELSE "READER")
    /\ UNCHANGED <<osVars, eLock, fileVars, faults>>

\* ... and does nobody hold RESERVED?
CheckReserved(f) ==
    /\ Mutex(f)
    /\ Moves(f, "CHECK", IF ReservedSeen(f) THEN "READER" ELSE "HOT")
    /\ UNCHANGED <<osVars, eLock, fileVars, faults>>

\* An I/O error there ends in pager_unlock.
SharedLockFails(f) ==
    /\ Moves(f, "ACCESS", "LEAVE") \/ Moves(f, "CHECK", "LEAVE")
    /\ UNCHANGED <<osVars, eLock, fileVars, faults>>

\* Under EXCLUSIVE the journal is played back and deleted, or it is gone.
Playback(f) ==
    /\ eLock[f] = EXCLUSIVE
    /\ \/ ~journal /\ Moves(f, "HOT", "GONE") /\ UNCHANGED fileVars
       \/ /\ journal /\ Moves(f, "HOT", "PLAYED")
          /\ journal' = FALSE /\ torn' = FALSE
       \/ journal /\ Moves(f, "HOT", "ERROR") /\ UNCHANGED fileVars
    /\ UNCHANGED <<osVars, eLock, faults>>

OpenJournal(f) ==
    /\ Moves(f, "WRITER", "MODIFIED")
    /\ journal' = TRUE
    /\ UNCHANGED <<osVars, eLock, torn, faults>>

\* Pages of the file are written: a spill, or the commit.
Modify(f) ==
    /\ phase[f] = "MODIFIED" /\ ~Mine(f) /\ eLock[f] = EXCLUSIVE
    /\ torn' = TRUE
    /\ UNCHANGED <<osVars, pagerVars, journal, faults>>

\* pager_end_transaction after a commit or a rollback: the journal goes first.
EndTransaction(f) ==
    /\ \/ Moves(f, "WRITER", "DONE") /\ UNCHANGED fileVars
       \/ Moves(f, "MODIFIED", "DONE") /\ journal' = FALSE /\ torn' = FALSE
    /\ UNCHANGED <<osVars, eLock, faults>>

\* pager_error: the journal stays for whoever reads next.
WriteFails(f) ==
    /\ Moves(f, "WRITER", "ERROR") \/ Moves(f, "MODIFIED", "ERROR")
    /\ UNCHANGED <<osVars, eLock, fileVars, faults>>

StopReading(f) ==
    /\ Moves(f, "READER", "LEAVE")
    /\ UNCHANGED <<osVars, eLock, fileVars, faults>>

\* The process dies; the system closes its descriptors.
Crash(p) ==
    LET dead == Siblings(p)
    IN  /\ dead # {} /\ Fault
        /\ lock' = [f \in Files |-> IF f \in dead THEN NONE ELSE lock[f]]
        /\ eLock' = [f \in Files |-> IF f \in dead THEN NONE ELSE eLock[f]]
        /\ phase' = [f \in Files |-> IF f \in dead THEN "CLOSED" ELSE phase[f]]
        /\ inode' = [inode EXCEPT ![p] = FreshInode]
        /\ op' = [op EXCEPT ![p] = Idle]
        /\ CloseFd(p)
        /\ UNCHANGED fileVars

OpenClose(f) == Open(f) \/ OpenFails(f) \/ StartClose(f) \/ CloseTest(f) \/ CloseDone(f)
Lock(f) ==
    \/ AlreadyHeld(f) \/ RefusedLocally(f) \/ ShareLocally(f) \/ BeginLock(f)
    \/ TakePending(f) \/ TakeShared(f) \/ DropPending(f) \/ TakeRange(f)
Unlock(f) == AlreadyUnlocked(f) \/ BeginUnlock(f) \/ Demote(f) \/ Release(f) \/ Last(f)
PagerStep(f) ==
    \/ Access(f) \/ CheckReserved(f) \/ SharedLockFails(f) \/ Playback(f)
    \/ OpenJournal(f) \/ Modify(f) \/ EndTransaction(f) \/ WriteFails(f)
    \/ StopReading(f)

Next ==
    \/ \E f \in Files : OpenClose(f) \/ Lock(f) \/ Unlock(f) \/ PagerStep(f)
    \/ \E p \in Procs : Crash(p)

Spec == Init /\ [][Next]_vars

(* A call that has begun goes on, a connection that reads comes to its end *)
(* and one that must unlock, or waits with PENDING for EXCLUSIVE, comes to *)
(* its turn at pLockMutex: the busy handler sleeps between two attempts,   *)
(* and a connection that reads does not wait for RESERVED.                 *)
(* No transaction is obliged to start, to finish or to give up.            *)
GoesOn(f) ==
    \/ TakePending(f) \/ TakeShared(f) \/ DropPending(f) \/ TakeRange(f)
    \/ Demote(f) \/ Release(f) \/ Last(f) \/ AlreadyUnlocked(f)
    \/ Access(f) \/ Playback(f)

Retries(f) == lock[f] = PENDING \/ phase[f] = "HOT"

Enters(f) ==
    \/ BeginUnlock(f) \/ CheckReserved(f) \/ StopReading(f)
    \/ Retries(f) /\ (BeginLock(f) \/ RefusedLocally(f) \/ AlreadyHeld(f))

FairSpec ==
    /\ Spec
    /\ \A f \in Files : WF_vars(GoesOn(f)) /\ SF_vars(Enters(f))

-----------------------------------------------------------------------------
(* Properties *)

Unlocks(f) == Mine(f) /\ op[Owner[f]].at \in {"demote", "release", "last"}

\* The lock that f's pager relies on.
Entitled(f) ==
    LET own == IF eLock[f] = UNKNOWN THEN NONE ELSE eLock[f]
    IN  IF Unlocks(f) /\ own > Request(f) THEN Request(f) ELSE own

L == INSTANCE FileLocks WITH held <- [f \in Files |-> Entitled(f)]

(* Over all processes and connections the calls of unixLock, posixUnlock   *)
(* and unixClose give the pagers what FileLocks promises.                  *)
LockSpec == L!Spec

(* Whatever lock a pager relies on, its process holds it: no unixClose     *)
(* drops it, and a call that fails leaves Pager.eLock below the lock of    *)
(* the system, never above.  With a lock taken between the test of         *)
(* unixClose and its close() (CloseRaces), a failed unlock that nobody     *)
(* reads (IgnoredErrors) or an open that fails in fstat() beside open      *)
(* connections (FstatFails) it is false.                                   *)
BeliefIsBacked ==
    \A f \in Files :
        LET held(b) == posix[b][Owner[f]]
        IN  /\ Entitled(f) >= SHARED => held("SHARED_RANGE") # "none"
            /\ Entitled(f) = RESERVED => "wr" \in {held("RESERVED_BYTE"), held("SHARED_RANGE")}
            /\ Entitled(f) = EXCLUSIVE => held("SHARED_RANGE") = "wr"

(* A connection that reads never sees part of a transaction that another   *)
(* connection writes or left unfinished: hasHotJournal and the locks bring *)
(* it to roll the journal back first.                                      *)
ReadsWhole ==
    \A f \in Files :
        (torn /\ phase[f] \in {"READER", "WRITER", "MODIFIED"})
            => phase[f] = "MODIFIED" /\ Entitled(f) = EXCLUSIVE

(* A writer that holds PENDING gets its EXCLUSIVE lock without giving up   *)
(* or being given up, where every other process has one connection: a      *)
(* second one could join the lock of the first (ShareLocally), and the     *)
(* first the lock of the second, for ever.                                 *)
Alone(f) ==
    \A g, h \in Files :
        (Owner[g] = Owner[h] /\ Owner[g] # Owner[f]) => g = h

WriterGetsThrough ==
    \A f \in Files :
        Alone(f) => (lock[f] = PENDING /\ faults = 0
                        ~> lock[f] # PENDING \/ faults > 0)

(* A descriptor whose close was deferred waits for a lock of its process,  *)
(* so that it is closed at the latest when the last one is dropped.        *)
DeferredWaits ==
    \A p \in Procs : inode[p].nUnused > 0 => inode[p].nLock > 0
=============================================================================
