--------------------------- MODULE UnixLocksProofs ---------------------------
(***************************************************************************)
(* Proofs about UnixLocks, for any number of processes, connections and    *)
(* crashes, and for failed system calls as far as stated below: what a     *)
(* pager relies on is held by its process (BeliefIsBacked), the fcntl()    *)
(* protocol implements FileLocks (LockSpec), and no reader sees a torn     *)
(* file (ReadsWhole).                                                      *)
(*                                                                         *)
(* None of the three is inductive.  They rest on what the unixInodeInfo of *)
(* a process counts (NodeOK), on which locks of the system stand behind it *)
(* (RangeOK), on what the pager believes in each of its states (FileOK)    *)
(* and on how far a call has got (CallOK).                                 *)
(*                                                                         *)
(* The proofs assume that nobody takes a lock between the test of          *)
(* unixClose and its close() (CloseRaces = FALSE), that no unlock whose    *)
(* result is not read fails (IgnoredErrors = FALSE), that no open fails in *)
(* fstat() beside other descriptors of the process (FstatFails = FALSE)    *)
(* and that posixUnlock does not fail a second time on a range that its    *)
(* first failure has left read-locked (TriesOnce).  The code does not      *)
(* exclude any of the four: without one of them the theorems are false, as *)
(* UnixLocks_close, _ignored, _fstat and _twice.cfg show.                  *)
(***************************************************************************)
EXTENDS UnixLocks, FiniteSetTheorems, TLAPS

SharedRange(p)  == posix["SHARED_RANGE"][p]
ReservedByte(p) == posix["RESERVED_BYTE"][p]

\* The connections of a process that hold a lock, and whether unixInodeInfo
\* has a lock whose descriptor is closed: posixUnlock failed in unixClose.
Readers(p) == {f \in Files : Owner[f] = p /\ lock[f] >= SHARED}
Strong(f)  == lock[f] > SHARED
Orphaned(p) ==
    /\ inode[p].eFileLock > SHARED
    /\ \A f \in Files : Owner[f] = p => ~Strong(f)

\* posixUnlock to NONE has released the bytes, but not yet the range.
AtLast(f) == At(f, "last")

\* posixUnlock has read-locked the range again and failed to release the bytes.
HalfUnlocked(f) == phase[f] = "ERROR" /\ eLock[f] = SHARED

\* The assumption on failures: see above.
FailsTwice(f) ==
    /\ At(f, "release") /\ phase[f] = "ERROR"
    /\ lock[f] = EXCLUSIVE /\ SharedRange(Owner[f]) = "rd"
    /\ Fault /\ UnlockFails(f)
TriesOnce == \A f \in Files : ~FailsTwice(f)

---------------------------------------------------------------------------
(* The invariant.                                                          *)

\* Every call is that of one connection of the process.
OpOK(p) ==
    \/ op[p] = Idle
    \/ \E f \in Files : Owner[f] = p /\ op[p].file = {f}

\* What the pager believes (eLock) and what its unixFile has (lock).
FileOK(f) ==
    /\ phase[f] \in {"CLOSED", "SHUT"} => eLock[f] = NONE /\ lock[f] = NONE
    /\ phase[f] \in {"TEST", "DEFER"} => eLock[f] = NONE
    /\ phase[f] \in {"OPEN", "CLOSING"} =>
          eLock[f] = UNKNOWN \/ (eLock[f] = NONE /\ lock[f] = NONE)
    /\ phase[f] \in {"ACCESS", "CHECK", "READER"} => eLock[f] = SHARED /\ lock[f] = SHARED
    /\ phase[f] = "HOT" => \/ eLock[f] \in {SHARED, EXCLUSIVE} /\ lock[f] = eLock[f]
                           \/ eLock[f] = UNKNOWN /\ lock[f] >= SHARED
    /\ phase[f] = "LEAVE" => eLock[f] = UNKNOWN \/ (eLock[f] = SHARED /\ lock[f] = SHARED)
    /\ phase[f] \in {"GONE", "PLAYED"} => eLock[f] = EXCLUSIVE /\ lock[f] = EXCLUSIVE
    /\ phase[f] \in {"WRITER", "MODIFIED", "DONE"} => eLock[f] \in {RESERVED, EXCLUSIVE}
    /\ phase[f] = "ERROR" => eLock[f] \in {SHARED, RESERVED, EXCLUSIVE} /\ Strong(f)
    /\ eLock[f] = RESERVED => lock[f] \in {RESERVED, PENDING}
    /\ eLock[f] = EXCLUSIVE => lock[f] = EXCLUSIVE

\* How far a call has got.
CallOK(f) ==
    LET at == op[Owner[f]].at
        n  == inode[Owner[f]].eFileLock
    IN  /\ at \in {"pending", "range", "drop", "refused"} =>
              /\ phase[f] \in DOMAIN Locking /\ Request(f) = Locking[phase[f]]
              /\ eLock[f] < Request(f) \/ eLock[f] = UNKNOWN
              /\ Request(f) = SHARED => lock[f] = NONE /\ n = NONE
              /\ Request(f) > SHARED => lock[f] \in SHARED..PENDING /\ n = lock[f]
        /\ at = "pending" => \/ Request(f) = SHARED
                             \/ Request(f) = EXCLUSIVE /\ lock[f] = RESERVED
        /\ at \in {"drop", "refused"} => Request(f) = SHARED
        /\ at = "drop" => SharedRange(Owner[f]) = "rd"
        /\ at = "range" /\ lock[f] = RESERVED => FALSE
        /\ at \in {"demote", "release", "last"} =>
              phase[f] \in DOMAIN Unlocking /\ Request(f) = Unlocking[phase[f]]
        /\ at \in {"demote", "release"} => Strong(f) /\ n = lock[f]
        /\ at = "demote" => Request(f) = SHARED
        /\ at = "last" => /\ Request(f) = NONE /\ lock[f] >= SHARED
                          /\ Strong(f) => n = SHARED

\* The counters of unixInodeInfo, and its strongest lock.
NodeOK(p) ==
    LET n == inode[p]
    IN  /\ n.nLock = n.nShared
        /\ n.nShared >= Cardinality(Readers(p)) + (IF Orphaned(p) THEN 1 ELSE 0)
        /\ n.nShared = 0 <=> n.eFileLock = NONE
        /\ n.eFileLock = EXCLUSIVE => n.nShared = 1
        /\ n.nUnused > 0 => n.nLock > 0
        /\ Siblings(p) = {} => n = FreshInode
        /\ \A f \in Files : Owner[f] = p /\ Strong(f) => n.eFileLock = lock[f] \/ AtLast(f)
        /\ \A f, g \in Files :
              Owner[f] = p /\ Owner[g] = p /\ Strong(f) /\ Strong(g) => f = g
        /\ \A f \in Files : Owner[f] = p /\ phase[f] = "SHUT" => n.nShared = 0 /\ op[p] = Idle

\* The locks of the system that stand behind those of a process.
RangeOK(p) ==
    /\ inode[p].nShared > 0 => SharedRange(p) # "none"
    /\ ReservedByte(p) # "none" => ReservedByte(p) = "wr" /\ SharedRange(p) # "none"
    /\ \A f \in Files : Owner[f] = p =>
          /\ lock[f] \in {RESERVED, PENDING} => ReservedByte(p) = "wr" \/ AtLast(f)
          /\ lock[f] = EXCLUSIVE =>
                \/ SharedRange(p) = "wr"
                \/ At(f, "release") /\ Request(f) = SHARED
                \/ AtLast(f)
                \/ HalfUnlocked(f)

\* fcntl() grants no lock beside a write lock.
Compatible ==
    \A p, q \in Procs, b \in Ranges : p # q /\ posix[b][p] = "wr" => posix[b][q] = "none"

\* As long as the file is torn, only its writer or the connection that rolls
\* back could keep others from finding the journal hot: they hold EXCLUSIVE.
TornOK ==
    /\ torn =>
        /\ journal
        /\ \A p \in Procs : inode[p].eFileLock > SHARED \/ ReservedByte(p) = "wr"
              => inode[p].eFileLock = EXCLUSIVE /\ SharedRange(p) = "wr"
        /\ \A f \in Files :
              /\ phase[f] \notin {"READER", "WRITER", "DONE", "GONE", "PLAYED"}
              /\ phase[f] = "MODIFIED" => eLock[f] = EXCLUSIVE
    /\ \A f \in Files : phase[f] = "MODIFIED" => journal

IInv ==
    /\ TypeOK
    /\ \A p \in Procs : OpOK(p) /\ NodeOK(p) /\ RangeOK(p)
    /\ \A f \in Files : FileOK(f) /\ (Mine(f) => CallOK(f))
    /\ Compatible
    /\ TornOK

---------------------------------------------------------------------------
(* Types.                                                                  *)

Levels == NONE..EXCLUSIVE
Call   == [file : {{f} : f \in Files}, want : Levels, at : Steps]

\* The levels as numbers.
LEMMA LevelType ==
  /\ NONE = 0 /\ SHARED = 1 /\ RESERVED = 2 /\ PENDING = 3 /\ EXCLUSIVE = 4 /\ UNKNOWN = 5
  /\ Levels = 0..4
  BY DEF NONE, SHARED, RESERVED, PENDING, EXCLUSIVE, UNKNOWN, Levels

\* What pagerLockDb and pagerUnlockDb are called for.
LEMMA LevelTables ==
  /\ DOMAIN Locking = {"OPEN", "HOT", "READER", "WRITER", "MODIFIED"}
  /\ Locking["OPEN"] = SHARED /\ Locking["HOT"] = EXCLUSIVE /\ Locking["READER"] = RESERVED
  /\ Locking["WRITER"] = EXCLUSIVE /\ Locking["MODIFIED"] = EXCLUSIVE
  /\ DOMAIN Unlocking = {"LEAVE", "ERROR", "CLOSING", "GONE", "PLAYED", "DONE"}
  /\ Unlocking["LEAVE"] = NONE /\ Unlocking["ERROR"] = NONE /\ Unlocking["CLOSING"] = NONE
  /\ Unlocking["GONE"] = SHARED /\ Unlocking["PLAYED"] = SHARED /\ Unlocking["DONE"] = SHARED
  BY DEF Locking, Unlocking

\* The variables of one connection and its process, spelled out.
LEMMA TypeOf ==
  ASSUME TypeOK, NEW f \in Files
  PROVE  /\ Owner[f] \in Procs
         /\ lock[f] \in 0..4 /\ eLock[f] \in 0..5 /\ phase[f] \in Phases
         /\ Node(f) \in [nShared : Nat, nLock : Nat, eFileLock : 0..4, nUnused : Nat]
         /\ \A b \in Ranges : posix[b][Owner[f]] \in Modes
  BY OwnerAssumption DEF TypeOK, Node, NONE, EXCLUSIVE, UNKNOWN

\* A connection that is inside a call is the one whose call it is.
LEMMA MineType ==
  ASSUME TypeOK, NEW f \in Files, Mine(f)
  PROVE  /\ op[Owner[f]] = [file |-> {f}, want |-> Request(f), at |-> op[Owner[f]].at]
         /\ Request(f) \in 0..4 /\ op[Owner[f]].at \in Steps
         /\ \A g \in Files : Owner[g] = Owner[f] /\ Mine(g) => g = f
<1>1. op[Owner[f]] \in {Idle} \cup [file : {{g} : g \in Files}, want : NONE..EXCLUSIVE, at : Steps]
  BY OwnerAssumption DEF TypeOK
<1>2. op[Owner[f]] # Idle
  BY DEF Mine, Idle
<1>. QED BY <1>1, <1>2 DEF Mine, Request, NONE, EXCLUSIVE

\* The mode that fcntl() sets, on the ranges of the call and nowhere else.
LEMMA SetlkEffect ==
  ASSUME TypeOK, NEW p \in Procs, NEW B \in SUBSET Ranges, NEW mode \in Modes, Setlk(p, B, mode)
  PROVE  /\ posix' \in [Ranges -> [Procs -> Modes]]
         /\ \A b \in Ranges, q \in Procs :
               posix'[b][q] = IF b \in B /\ q = p THEN mode ELSE posix[b][q]
  BY DEF TypeOK, Setlk

LEMMA CloseFdEffect ==
  ASSUME TypeOK, NEW p \in Procs, CloseFd(p)
  PROVE  /\ posix' \in [Ranges -> [Procs -> Modes]]
         /\ \A b \in Ranges, q \in Procs : posix'[b][q] = IF q = p THEN "none" ELSE posix[b][q]
  BY SetlkEffect DEF CloseFd, Modes

LEMMA RangeNames ==
  Ranges = {"PENDING_BYTE", "RESERVED_BYTE", "SHARED_RANGE"} /\ Modes = {"none", "rd", "wr"}
  BY DEF Ranges, Modes

---------------------------------------------------------------------------
(* A step of one connection leaves the others alone, except for what they  *)
(* share in their process.                                                 *)

Local(f) ==
    /\ \A g \in Files \ {f} : lock'[g] = lock[g] /\ eLock'[g] = eLock[g] /\ phase'[g] = phase[g]
    /\ \A q \in Procs \ {Owner[f]} :
          inode'[q] = inode[q] /\ op'[q] = op[q] /\ \A b \in Ranges : posix'[b][q] = posix[b][q]

\* A call that another connection of the process has begun is as it was.
CallsKept(f) ==
    \A g \in Files \ {f} : Owner[g] = Owner[f] /\ Mine(g)' =>
        /\ op'[Owner[f]] = op[Owner[f]]
        /\ inode'[Owner[f]].eFileLock = inode[Owner[f]].eFileLock
        /\ SharedRange(Owner[f])' = SharedRange(Owner[f])

\* Another process keeps what it has.
LEMMA OtherNodes ==
  ASSUME NEW f \in Files, Local(f), NEW q \in Procs, q # Owner[f]
  PROVE  /\ OpOK(q) => OpOK(q)'
         /\ NodeOK(q) => NodeOK(q)'
         /\ RangeOK(q) => RangeOK(q)'
<1>1. \A g \in Files : Owner[g] = q =>
         /\ lock'[g] = lock[g] /\ eLock'[g] = eLock[g] /\ phase'[g] = phase[g]
  BY DEF Local
<1>2. inode'[q] = inode[q] /\ op'[q] = op[q] /\ \A b \in Ranges : posix'[b][q] = posix[b][q]
  BY DEF Local
<1>3. OpOK(q) => OpOK(q)'
  BY <1>2 DEF OpOK, Idle
<1>4. Readers(q)' = Readers(q) /\ Siblings(q)' = Siblings(q)
  BY <1>1 DEF Readers, Siblings
<1>5. \A g \in Files : Owner[g] = q =>
         /\ Strong(g)' = Strong(g) /\ Mine(g)' = Mine(g) /\ Request(g)' = Request(g)
         /\ AtLast(g)' = AtLast(g) /\ At(g, "release")' = At(g, "release")
         /\ HalfUnlocked(g)' = HalfUnlocked(g)
  BY <1>1, <1>2 DEF Strong, Mine, Request, AtLast, At, HalfUnlocked
<1>6. Orphaned(q)' = Orphaned(q)
  BY <1>2, <1>5 DEF Orphaned
<1>7. NodeOK(q) => NodeOK(q)'
  BY <1>1, <1>2, <1>4, <1>5, <1>6 DEF NodeOK, FreshInode, Idle
<1>8. SharedRange(q)' = SharedRange(q) /\ ReservedByte(q)' = ReservedByte(q)
  BY <1>2 DEF SharedRange, ReservedByte, Ranges
<1>9. RangeOK(q) => RangeOK(q)'
  BY <1>1, <1>2, <1>5, <1>8 DEF RangeOK
<1>. QED BY <1>3, <1>7, <1>9

\* Another connection keeps what it has.
LEMMA OtherFiles ==
  ASSUME TypeOK, NEW f \in Files, Local(f), CallsKept(f), NEW g \in Files, g # f
  PROVE  /\ FileOK(g) => FileOK(g)'
         /\ (Mine(g) => CallOK(g)) => (Mine(g)' => CallOK(g)')
<1>1. lock'[g] = lock[g] /\ eLock'[g] = eLock[g] /\ phase'[g] = phase[g]
  BY DEF Local
<1>2. FileOK(g) => FileOK(g)'
  BY <1>1 DEF FileOK, Strong
<1>3. ASSUME Mine(g)', Mine(g) => CallOK(g) PROVE CallOK(g)'
  <2>1. /\ op'[Owner[g]] = op[Owner[g]]
        /\ inode'[Owner[g]].eFileLock = inode[Owner[g]].eFileLock
        /\ SharedRange(Owner[g])' = SharedRange(Owner[g])
    BY <1>3, OwnerAssumption DEF Local, CallsKept, SharedRange, Ranges
  <2>2. Mine(g) /\ Request(g)' = Request(g)
    BY <1>3, <2>1 DEF Mine, Request
  <2>. QED BY <1>1, <1>3, <2>1, <2>2 DEF CallOK, Strong
<1>. QED BY <1>2, <1>3

\* What is left to show for a step of f.
LEMMA LocalKeeps ==
  ASSUME IInv, TypeOK', NEW f \in Files, Local(f), CallsKept(f),
         OpOK(Owner[f])', NodeOK(Owner[f])', RangeOK(Owner[f])',
         FileOK(f)', Mine(f)' => CallOK(f)', Compatible', TornOK'
  PROVE  IInv'
<1>1. \A p \in Procs : OpOK(p)' /\ NodeOK(p)' /\ RangeOK(p)'
  BY OtherNodes DEF IInv
<1>2. \A g \in Files : FileOK(g)' /\ (Mine(g)' => CallOK(g)')
  <2> TAKE g \in Files
  <2>1. CASE g = f
    BY <2>1
  <2>2. CASE g # f
    BY <2>2, OtherFiles DEF IInv
  <2>. QED BY <2>1, <2>2
<1>. QED BY <1>1, <1>2 DEF IInv

---------------------------------------------------------------------------
(* What the counters and the locks of the system say about the others.     *)

LEMMA ReadersFinite ==
  ASSUME NEW p
  PROVE  IsFiniteSet(Readers(p)) /\ Cardinality(Readers(p)) \in Nat
<1>1. Readers(p) \subseteq Files
  BY DEF Readers
<1>. QED BY <1>1, FilesAssumption, FS_Subset, FS_CardinalityType

\* A connection that holds a lock is counted.
LEMMA ReaderCounts ==
  ASSUME TypeOK, NEW f \in Files, NodeOK(Owner[f]), lock[f] >= SHARED
  PROVE  /\ Node(f).nShared >= 1 /\ Node(f).eFileLock >= SHARED
         /\ Orphaned(Owner[f]) => Node(f).nShared >= 2
         /\ \A g \in Files \ {f} : Owner[g] = Owner[f] /\ lock[g] >= SHARED => Node(f).nShared >= 2
<1> DEFINE R == Readers(Owner[f])
<1>1. f \in R
  BY DEF Readers
<1>2. /\ Node(f).nShared \in Nat /\ Node(f).eFileLock \in 0..4
      /\ Cardinality(R) \in Nat /\ IsFiniteSet(R)
  BY TypeOf, ReadersFinite
<1>3. Cardinality(R) >= 1
  BY <1>1, <1>2, FS_EmptySet
<1>4. Node(f).nShared >= Cardinality(R) + (IF Orphaned(Owner[f]) THEN 1 ELSE 0)
  BY DEF NodeOK, Node
<1>5. Node(f).nShared >= 1
  BY <1>2, <1>3, <1>4
<1>6. Node(f).eFileLock >= SHARED
  BY <1>2, <1>5 DEF NodeOK, Node, NONE, SHARED
<1>7. ASSUME NEW g \in Files \ {f}, Owner[g] = Owner[f], lock[g] >= SHARED
      PROVE  Node(f).nShared >= 2
  <2>1. {f, g} \subseteq R
    BY <1>1, <1>7 DEF Readers
  <2>2. Cardinality(R \ {g}) = Cardinality(R) - 1 /\ IsFiniteSet(R \ {g})
    BY <1>2, <2>1, FS_RemoveElement
  <2>3. f \in R \ {g}
    BY <2>1
  <2>4. Cardinality(R \ {g}) # 0
    <3> DEFINE Q == R \ {g}
    <3>1. IsFiniteSet(Q) /\ Q # {}
      BY <2>2, <2>3
    <3> HIDE DEF Q
    <3>2. Cardinality(Q) # 0
      BY <3>1, FS_EmptySet
    <3>. QED BY <3>2 DEF Q
  <2>5. Cardinality(R) >= 2
    BY <1>2, <1>3, <2>2, <2>4
  <2> HIDE DEF R
  <2>. QED BY <1>2, <1>4, <2>5
<1>. QED BY <1>2, <1>3, <1>4, <1>5, <1>6, <1>7

\* A lock above NONE is one of the process.
LEMMA LockBacked ==
  ASSUME IInv, NEW f \in Files, lock[f] >= SHARED
  PROVE  SharedRange(Owner[f]) # "none" /\ Node(f).nShared >= 1
<1>1. Owner[f] \in Procs /\ Node(f).nShared >= 1 /\ Node(f).nShared \in Nat
  BY TypeOf, ReaderCounts DEF IInv
<1>. QED BY <1>1 DEF IInv, RangeOK, Node

\* No other process has any lock where one has write-locked the range.
LEMMA RangeExcludes ==
  ASSUME IInv, NEW p \in Procs, SharedRange(p) = "wr", NEW q \in Procs, q # p
  PROVE  /\ SharedRange(q) = "none" /\ ReservedByte(q) = "none"
         /\ inode[q].nShared = 0 /\ inode[q].eFileLock = NONE
         /\ \A g \in Files : Owner[g] = q => lock[g] = NONE
<1>1. SharedRange(q) = "none"
  BY RangeNames DEF IInv, Compatible, SharedRange
<1>2. ReservedByte(q) = "none" /\ ~(inode[q].nShared > 0)
  BY <1>1 DEF IInv, RangeOK
<1>3. inode[q].nShared = 0
  BY <1>2 DEF IInv, TypeOK
<1>4. inode[q].eFileLock = NONE
  BY <1>3 DEF IInv, NodeOK
<1>5. ASSUME NEW g \in Files, Owner[g] = q PROVE lock[g] = NONE
  <2>1. ~(lock[g] >= SHARED)
    BY <1>1, <1>5, LockBacked
  <2>. QED BY <2>1, TypeOf DEF IInv, NONE, SHARED
<1>. QED BY <1>1, <1>2, <1>3, <1>4, <1>5

\* In the process of an EXCLUSIVE lock nobody else has one.
LEMMA ExclusiveAlone ==
  ASSUME TypeOK, NEW f \in Files, NodeOK(Owner[f]), lock[f] >= SHARED, Node(f).nShared = 1,
         NEW g \in Files, g # f, Owner[g] = Owner[f]
  PROVE  lock[g] = NONE
<1>1. ~(lock[g] >= SHARED)
  BY ReaderCounts
<1>. QED BY <1>1, TypeOf DEF NONE, SHARED

\* A pager that relies on EXCLUSIVE is alone, and its lock is that of the system.
LEMMA WriterAlone ==
  ASSUME IInv, NEW f \in Files, eLock[f] = EXCLUSIVE, ~Unlocks(f)
  PROVE  /\ lock[f] = EXCLUSIVE /\ Node(f).eFileLock = EXCLUSIVE
         /\ SharedRange(Owner[f]) = "wr"
         /\ \A g \in Files \ {f} : lock[g] = NONE
         /\ \A q \in Procs \ {Owner[f]} : inode[q].eFileLock = NONE /\ ReservedByte(q) = "none"
<1>1. lock[f] = EXCLUSIVE /\ Owner[f] \in Procs /\ Strong(f)
  BY TypeOf DEF IInv, FileOK, Strong, SHARED, EXCLUSIVE
<1>2. ~AtLast(f) /\ ~At(f, "release") /\ ~HalfUnlocked(f)
  BY DEF Unlocks, AtLast, At, HalfUnlocked, SHARED, EXCLUSIVE
<1>3. Node(f).eFileLock = EXCLUSIVE
  BY <1>1, <1>2 DEF IInv, NodeOK, Node
<1>4. SharedRange(Owner[f]) = "wr"
  BY <1>1, <1>2 DEF IInv, RangeOK
<1>5. Node(f).nShared = 1
  BY <1>1, <1>3 DEF IInv, NodeOK, Node
<1>6. ASSUME NEW g \in Files \ {f} PROVE lock[g] = NONE
  <2>1. CASE Owner[g] = Owner[f]
    BY <1>1, <1>5, <2>1, ExclusiveAlone DEF IInv, SHARED, EXCLUSIVE
  <2>2. CASE Owner[g] # Owner[f]
    BY <1>1, <1>4, <2>2, RangeExcludes, TypeOf DEF IInv
  <2>. QED BY <2>1, <2>2
<1>7. \A q \in Procs \ {Owner[f]} : inode[q].eFileLock = NONE /\ ReservedByte(q) = "none"
  BY <1>1, <1>4, RangeExcludes
<1>. QED BY <1>1, <1>3, <1>4, <1>6, <1>7

\* Two pagers never both rely on RESERVED.
LEMMA OneReserves ==
  ASSUME IInv, NEW f \in Files, NEW g \in Files, ~Unlocks(f), ~Unlocks(g),
         eLock[f] \in {RESERVED, EXCLUSIVE}, eLock[g] \in {RESERVED, EXCLUSIVE}
  PROVE  f = g
<1>1. ASSUME NEW h \in Files, ~Unlocks(h), eLock[h] \in {RESERVED, EXCLUSIVE}
      PROVE  Strong(h) /\ lock[h] # NONE /\ ~AtLast(h) /\ lock[h] \in {RESERVED, PENDING, EXCLUSIVE}
  BY <1>1 DEF IInv, FileOK, Strong, Unlocks, AtLast, At, NONE, SHARED, RESERVED, PENDING, EXCLUSIVE
<1>2. CASE Owner[f] = Owner[g]
  BY <1>1, <1>2, TypeOf DEF IInv, NodeOK
<1>3. CASE Owner[f] # Owner[g] /\ eLock[f] = EXCLUSIVE
  BY <1>1, <1>3, WriterAlone
<1>4. CASE Owner[f] # Owner[g] /\ eLock[g] = EXCLUSIVE
  BY <1>1, <1>4, WriterAlone
<1>5. CASE Owner[f] # Owner[g] /\ eLock[f] = RESERVED /\ eLock[g] = RESERVED
  <2>1. lock[f] \in {RESERVED, PENDING} /\ lock[g] \in {RESERVED, PENDING}
    BY <1>5 DEF IInv, FileOK
  <2>2. ReservedByte(Owner[f]) = "wr" /\ ReservedByte(Owner[g]) = "wr"
    BY <1>1, <2>1, TypeOf DEF IInv, RangeOK
  <2>. QED BY <1>5, <2>2, TypeOf, RangeNames DEF IInv, Compatible, ReservedByte
<1>. QED BY <1>2, <1>3, <1>4, <1>5

---------------------------------------------------------------------------
(* Steps of a pager that make no call.                                     *)

\* Only what the pager believes changes, and not by opening or closing.
PagerOnly(f) ==
    /\ UNCHANGED osVars /\ ~Mine(f)
    /\ phase[f] \notin {"CLOSED", "SHUT", "ERROR"}
    /\ \A g \in Files \ {f} : eLock'[g] = eLock[g] /\ phase'[g] = phase[g]
    /\ phase'[f] \notin {"CLOSED", "SHUT"}

LEMMA PagerOnlyKeeps ==
  ASSUME IInv, TypeOK', NEW f \in Files, PagerOnly(f), FileOK(f)', TornOK'
  PROVE  IInv'
<1> DEFINE p == Owner[f]
<1>1. lock' = lock /\ inode' = inode /\ posix' = posix /\ op' = op /\ p \in Procs
  BY TypeOf DEF PagerOnly, osVars, IInv
<1>2. Local(f) /\ CallsKept(f)
  BY <1>1 DEF PagerOnly, Local, CallsKept, SharedRange
<1>3. OpOK(p)' /\ Compatible'
  BY <1>1 DEF IInv, OpOK, Compatible, Idle
<1>4. ~Mine(f)'
  BY <1>1 DEF PagerOnly, Mine
<1>5. Readers(p)' = Readers(p) /\ Siblings(p)' = Siblings(p)
  BY <1>1 DEF PagerOnly, Readers, Siblings
<1>6. \A g \in Files : Strong(g)' = Strong(g) /\ AtLast(g)' = AtLast(g) /\ Request(g)' = Request(g)
                       /\ At(g, "release")' = At(g, "release")
  BY <1>1 DEF Strong, AtLast, At, Mine, Request
<1>7. NodeOK(p)'
  <2>1. NodeOK(p) /\ Orphaned(p)' = Orphaned(p)
    BY <1>1, <1>6 DEF IInv, Orphaned
  <2>2. \A g \in Files : phase'[g] = "SHUT" => phase[g] = "SHUT"
    BY DEF PagerOnly
  <2>. QED BY <1>1, <1>5, <1>6, <2>1, <2>2 DEF NodeOK, FreshInode, Idle
<1>8. RangeOK(p)'
  <2>1. \A g \in Files : HalfUnlocked(g) => HalfUnlocked(g)'
    BY DEF PagerOnly, HalfUnlocked
  <2>2. RangeOK(p) /\ SharedRange(p)' = SharedRange(p) /\ ReservedByte(p)' = ReservedByte(p)
    BY <1>1 DEF IInv, SharedRange, ReservedByte
  <2>. QED BY <1>1, <1>6, <2>1, <2>2 DEF RangeOK
<1>. QED BY <1>2, <1>3, <1>4, <1>7, <1>8, LocalKeeps

\* The torn file, when only one pager's view changes.
LEMMA TornKept ==
  ASSUME IInv, NEW f \in Files, UNCHANGED <<inode, posix, journal, torn>>,
         \A g \in Files \ {f} : eLock'[g] = eLock[g] /\ phase'[g] = phase[g],
         torn => phase'[f] \notin {"READER", "WRITER", "DONE", "GONE", "PLAYED"},
         phase'[f] = "MODIFIED" => phase[f] = "MODIFIED" /\ eLock'[f] \in {eLock[f], EXCLUSIVE}
  PROVE  TornOK'
  BY DEF IInv, TornOK, SharedRange, ReservedByte

\* The phases that follow each other within the pager.
LEMMA PhaseNames ==
  Phases = {"CLOSED", "OPEN", "ACCESS", "CHECK", "HOT", "GONE", "PLAYED", "READER",
            "WRITER", "MODIFIED", "DONE", "LEAVE", "ERROR", "CLOSING", "TEST", "DEFER", "SHUT"}
  BY DEF Phases

\* unixLock finds the lock already held, perhaps since an unlock failed.
LEMMA AlreadyHeldKeeps == ASSUME IInv, NEW f \in Files, AlreadyHeld(f) PROVE IInv'
<1>1. PICK want \in SHARED..EXCLUSIVE :
        Asks(f, want) /\ lock[f] >= want /\ Locked(f, want) /\ UNCHANGED <<osVars, fileVars, faults>>
  BY DEF AlreadyHeld
<1>2. want \in 1..4 /\ eLock[f] \in 0..5 /\ lock[f] \in 0..4 /\ FileOK(f)
  BY TypeOf DEF IInv, SHARED, EXCLUSIVE
<1>3. /\ phase[f] \in {"OPEN", "HOT", "READER", "WRITER", "MODIFIED"} /\ ~Mine(f)
      /\ want = Locking[phase[f]] /\ (eLock[f] < want \/ eLock[f] = UNKNOWN)
  BY <1>1, LevelTables DEF Asks
<1>4. /\ \A g \in Files \ {f} : eLock'[g] = eLock[g] /\ phase'[g] = phase[g]
      /\ eLock'[f] = IF eLock[f] # UNKNOWN \/ want = EXCLUSIVE THEN want ELSE UNKNOWN
      /\ phase'[f] = IF phase[f] = "OPEN" THEN IF eLock[f] = UNKNOWN THEN "HOT" ELSE "ACCESS"
                     ELSE IF phase[f] = "READER" THEN "WRITER" ELSE phase[f]
  BY <1>1, <1>2 DEF IInv, TypeOK, Locked
<1>5. \/ phase[f] = "OPEN" /\ want = SHARED /\ eLock[f] = UNKNOWN
      \/ phase[f] = "HOT" /\ want = EXCLUSIVE /\ lock[f] = EXCLUSIVE
  BY <1>1, <1>2, <1>3, LevelTables DEF FileOK, NONE, SHARED, RESERVED, PENDING, EXCLUSIVE, UNKNOWN
<1>6. TypeOK'
  BY <1>1, <1>4, <1>5, PhaseNames DEF IInv, TypeOK, Locked, osVars, fileVars, NONE, SHARED, EXCLUSIVE, UNKNOWN
<1>7. PagerOnly(f)
  BY <1>1, <1>3, <1>4, <1>5 DEF PagerOnly
<1>8. lock'[f] = lock[f]
  BY <1>1 DEF osVars
<1>9. FileOK(f)'
  BY <1>1, <1>2, <1>4, <1>5, <1>8 DEF FileOK, Strong, NONE, SHARED, RESERVED, PENDING, EXCLUSIVE, UNKNOWN
<1>10. TornOK'
  BY <1>1, <1>4, <1>5, TornKept DEF osVars, fileVars
<1>. QED BY <1>6, <1>7, <1>9, <1>10, PagerOnlyKeeps

\* unixLock is refused by the lock of another connection of the process.
LEMMA RefusedLocallyKeeps == ASSUME IInv, NEW f \in Files, RefusedLocally(f) PROVE IInv'
<1>1. PICK want \in SHARED..EXCLUSIVE :
        Asks(f, want) /\ lock[f] < want /\ NotLocked(f) /\ UNCHANGED <<osVars, fileVars, faults>>
  BY DEF RefusedLocally
<1>2. eLock[f] \in 0..5 /\ lock[f] \in 0..4 /\ FileOK(f)
  BY TypeOf DEF IInv
<1>3. /\ phase[f] \in {"OPEN", "HOT", "READER", "WRITER", "MODIFIED"} /\ ~Mine(f)
      /\ want = Locking[phase[f]]
  BY <1>1, LevelTables DEF Asks
<1>4. /\ \A g \in Files : eLock'[g] = eLock[g]
      /\ \A g \in Files \ {f} : phase'[g] = phase[g]
      /\ phase'[f] = IF phase[f] = "HOT" THEN "LEAVE" ELSE phase[f]
  BY <1>1 DEF IInv, TypeOK, NotLocked
<1>5. TypeOK'
  BY <1>1, <1>4, PhaseNames DEF IInv, TypeOK, NotLocked, osVars, fileVars
<1>6. PagerOnly(f)
  BY <1>1, <1>3, <1>4 DEF PagerOnly
<1>7. lock'[f] = lock[f]
  BY <1>1 DEF osVars
<1>8. FileOK(f)'
  BY <1>1, <1>2, <1>3, <1>4, <1>7, LevelTables DEF FileOK, Strong, NONE, SHARED, RESERVED, PENDING, EXCLUSIVE, UNKNOWN
<1>9. TornOK'
  BY <1>1, <1>3, <1>4, TornKept DEF osVars, fileVars, IInv, TornOK
<1>. QED BY <1>5, <1>6, <1>8, <1>9, PagerOnlyKeeps

\* What pagerUnlockDb and its callers make of the result of xUnlock.
LEMMA UnlockedEffect ==
  ASSUME IInv, NEW f \in Files, NEW ok \in BOOLEAN, Unlocked(f, ok), phase[f] \in DOMAIN Unlocking
  PROVE  /\ eLock' \in [Files -> NONE..UNKNOWN] /\ phase' \in [Files -> Phases]
         /\ \A g \in Files \ {f} : eLock'[g] = eLock[g] /\ phase'[g] = phase[g]
         /\ eLock'[f] = IF phase[f] = "CLOSING" THEN NONE
                        ELSE IF phase[f] = "ERROR" /\ ~ok THEN UNKNOWN
                        ELSE IF eLock[f] = UNKNOWN THEN UNKNOWN ELSE Unlocking[phase[f]]
         /\ phase'[f] = IF phase[f] = "CLOSING" THEN "TEST"
                        ELSE IF phase[f] \in {"LEAVE", "ERROR"} THEN "OPEN"
                        ELSE IF ok \/ phase[f] = "GONE" THEN "READER" ELSE "ERROR"
  BY LevelTables, PhaseNames DEF IInv, TypeOK, Unlocked, NONE, SHARED, UNKNOWN

\* posixUnlock has nothing to do.
LEMMA AlreadyUnlockedKeeps == ASSUME IInv, NEW f \in Files, AlreadyUnlocked(f) PROVE IInv'
<1>1. PICK to \in {NONE, SHARED} :
        Drops(f, to) /\ lock[f] <= to /\ Unlocked(f, TRUE) /\ UNCHANGED <<osVars, fileVars, faults>>
  BY DEF AlreadyUnlocked
<1>2. eLock[f] \in 0..5 /\ lock[f] \in 0..4 /\ FileOK(f)
  BY TypeOf DEF IInv
<1>3. phase[f] \in DOMAIN Unlocking /\ ~Mine(f) /\ to = Unlocking[phase[f]]
  BY <1>1 DEF Drops
<1>4. /\ phase[f] \in {"LEAVE", "CLOSING"} /\ lock[f] = NONE
      /\ eLock[f] = UNKNOWN \/ phase[f] = "CLOSING"
  BY <1>1, <1>2, <1>3, LevelTables DEF FileOK, Strong, NONE, SHARED, RESERVED, PENDING, EXCLUSIVE, UNKNOWN
<1>5. /\ \A g \in Files \ {f} : eLock'[g] = eLock[g] /\ phase'[g] = phase[g]
      /\ eLock'[f] = IF phase[f] = "CLOSING" THEN NONE ELSE UNKNOWN
      /\ phase'[f] = IF phase[f] = "CLOSING" THEN "TEST" ELSE "OPEN"
  BY <1>1, <1>3, <1>4, UnlockedEffect
<1>6. TypeOK'
  BY <1>1, <1>3, UnlockedEffect DEF IInv, TypeOK, osVars, fileVars
<1>7. PagerOnly(f)
  BY <1>1, <1>3, <1>4, <1>5 DEF PagerOnly
<1>8. lock'[f] = lock[f]
  BY <1>1 DEF osVars
<1>9. FileOK(f)'
  BY <1>4, <1>5, <1>8 DEF FileOK, Strong, NONE, SHARED, RESERVED, PENDING, EXCLUSIVE, UNKNOWN
<1>10. TornOK'
  BY <1>1, <1>4, <1>5, TornKept DEF osVars, fileVars
<1>. QED BY <1>6, <1>7, <1>9, <1>10, PagerOnlyKeeps

\* The pager goes on from one of its states to another.
LEMMA MoveEffect ==
  ASSUME IInv, NEW f \in Files, NEW from, NEW to \in Phases, Moves(f, from, to)
  PROVE  /\ phase' \in [Files -> Phases] /\ phase[f] = from /\ phase'[f] = to /\ ~Mine(f)
         /\ \A g \in Files \ {f} : phase'[g] = phase[g]
  BY DEF IInv, TypeOK, Moves

\* What is left to show for such a step.
LEMMA MoveKeeps ==
  ASSUME IInv, NEW f \in Files, NEW from, from \notin {"CLOSED", "SHUT", "ERROR"},
         NEW to \in Phases \ {"CLOSED", "SHUT"}, Moves(f, from, to),
         UNCHANGED <<osVars, eLock, faults>>, journal' \in BOOLEAN, torn' \in BOOLEAN,
         FileOK(f)', TornOK'
  PROVE  IInv'
<1>1. TypeOK'
  BY MoveEffect DEF IInv, TypeOK, osVars
<1>2. PagerOnly(f)
  BY MoveEffect DEF PagerOnly, osVars
<1>. QED BY <1>1, <1>2, PagerOnlyKeeps

\* unixClose begins.
LEMMA StartCloseKeeps == ASSUME IInv, NEW f \in Files, StartClose(f) PROVE IInv'
<1>1. /\ Moves(f, "OPEN", "CLOSING") /\ UNCHANGED <<osVars, eLock, fileVars, faults>>
  BY DEF StartClose, Moves
<1>2. /\ phase[f] = "OPEN" /\ phase'[f] = "CLOSING" /\ lock'[f] = lock[f] /\ eLock'[f] = eLock[f]
      /\ \A g \in Files \ {f} : eLock'[g] = eLock[g] /\ phase'[g] = phase[g]
  BY <1>1, MoveEffect, PhaseNames DEF osVars
<1>3. FileOK(f)'
  BY <1>2 DEF IInv, FileOK
<1>4. TornOK'
  BY <1>1, <1>2, TornKept DEF osVars, fileVars
<1>. QED BY <1>1, <1>3, <1>4, MoveKeeps, PhaseNames DEF fileVars, IInv, TypeOK

\* hasHotJournal looks for the journal: a torn file has one.
LEMMA AccessKeeps == ASSUME IInv, NEW f \in Files, Access(f) PROVE IInv'
<1> DEFINE to == IF journal THEN "CHECK" ELSE "READER"
<1>1. /\ Moves(f, "ACCESS", to) /\ UNCHANGED <<osVars, eLock, fileVars, faults>>
      /\ to \in {"CHECK", "READER"}
  BY DEF Access
<1>2. /\ phase[f] = "ACCESS" /\ phase'[f] = to /\ lock'[f] = lock[f] /\ eLock'[f] = eLock[f]
      /\ \A g \in Files \ {f} : eLock'[g] = eLock[g] /\ phase'[g] = phase[g]
  BY <1>1, MoveEffect, PhaseNames DEF osVars
<1>3. FileOK(f)'
  BY <1>1, <1>2 DEF IInv, FileOK
<1>4. torn => to = "CHECK"
  BY DEF IInv, TornOK
<1>5. TornOK'
  BY <1>1, <1>2, <1>4, TornKept DEF osVars, fileVars
<1>. QED BY <1>1, <1>3, <1>5, MoveKeeps, PhaseNames DEF fileVars, IInv, TypeOK

\* A reader of a torn file sees no RESERVED lock: whoever has one has EXCLUSIVE.
LEMMA TornIsHot ==
  ASSUME IInv, torn, NEW f \in Files, lock[f] = SHARED
  PROVE  ~ReservedSeen(f)
<1> DEFINE p == Owner[f]
<1>1. p \in Procs /\ lock[f] >= SHARED
  BY TypeOf DEF IInv, SHARED
<1>2. ASSUME Node(f).eFileLock > SHARED PROVE FALSE
  <2>1. Node(f).eFileLock = EXCLUSIVE
    BY <1>1, <1>2 DEF IInv, TornOK, Node
  <2>2. Node(f).nShared = 1 /\ NodeOK(p)
    BY <1>1, <2>1 DEF IInv, NodeOK, Node
  <2>3. ~Orphaned(p)
    BY <1>1, <2>2, ReaderCounts DEF IInv
  <2>4. PICK g \in Files : Owner[g] = p /\ lock[g] > SHARED
    BY <1>2, <2>3 DEF Orphaned, Node, Strong
  <2>5. g # f
    BY <2>4 DEF SHARED
  <2>. QED BY <1>1, <2>2, <2>4, <2>5, ExclusiveAlone DEF IInv, NONE, SHARED
<1>3. ASSUME Conflict(p, "RESERVED_BYTE", "wr") PROVE FALSE
  <2>1. PICK q \in Procs \ {p} : ReservedByte(q) \in {"wr", "rd"}
    BY <1>3 DEF Conflict, ReservedByte
  <2>2. ReservedByte(q) = "wr"
    BY <2>1 DEF IInv, RangeOK
  <2>3. SharedRange(q) = "wr"
    BY <2>2 DEF IInv, TornOK
  <2>4. lock[f] = NONE
    BY <1>1, <2>3, RangeExcludes
  <2>. QED BY <2>4 DEF NONE, SHARED
<1>. QED BY <1>2, <1>3 DEF ReservedSeen

\* hasHotJournal asks whether anybody holds RESERVED.
LEMMA CheckReservedKeeps == ASSUME IInv, NEW f \in Files, CheckReserved(f) PROVE IInv'
<1> DEFINE to == IF ReservedSeen(f) THEN "READER" ELSE "HOT"
<1>1. /\ Moves(f, "CHECK", to) /\ UNCHANGED <<osVars, eLock, fileVars, faults>>
      /\ to \in {"READER", "HOT"}
  BY DEF CheckReserved
<1>2. /\ phase[f] = "CHECK" /\ phase'[f] = to /\ lock'[f] = lock[f] /\ eLock'[f] = eLock[f]
      /\ \A g \in Files \ {f} : eLock'[g] = eLock[g] /\ phase'[g] = phase[g]
  BY <1>1, MoveEffect, PhaseNames DEF osVars
<1>3. lock[f] = SHARED /\ eLock[f] = SHARED
  BY <1>2 DEF IInv, FileOK
<1>4. FileOK(f)'
  BY <1>1, <1>2, <1>3 DEF FileOK, SHARED, RESERVED, EXCLUSIVE
<1>5. torn => to = "HOT"
  BY <1>3, TornIsHot
<1>6. TornOK'
  BY <1>1, <1>2, <1>5, TornKept DEF osVars, fileVars
<1>. QED BY <1>1, <1>4, <1>6, MoveKeeps, PhaseNames DEF fileVars, IInv, TypeOK

\* An error in hasHotJournal.
LEMMA SharedLockFailsKeeps == ASSUME IInv, NEW f \in Files, SharedLockFails(f) PROVE IInv'
<1>1. PICK from \in {"ACCESS", "CHECK"} :
        Moves(f, from, "LEAVE") /\ UNCHANGED <<osVars, eLock, fileVars, faults>>
  BY DEF SharedLockFails
<1>2. /\ phase[f] = from /\ phase'[f] = "LEAVE" /\ lock'[f] = lock[f] /\ eLock'[f] = eLock[f]
      /\ \A g \in Files \ {f} : eLock'[g] = eLock[g] /\ phase'[g] = phase[g]
  BY <1>1, MoveEffect, PhaseNames DEF osVars
<1>3. FileOK(f)'
  BY <1>1, <1>2 DEF IInv, FileOK
<1>4. TornOK'
  BY <1>1, <1>2, TornKept DEF osVars, fileVars
<1>. QED BY <1>1, <1>3, <1>4, MoveKeeps, PhaseNames DEF fileVars, IInv, TypeOK

\* A pager that stops reading.
LEMMA StopReadingKeeps == ASSUME IInv, NEW f \in Files, StopReading(f) PROVE IInv'
<1>1. Moves(f, "READER", "LEAVE") /\ UNCHANGED <<osVars, eLock, fileVars, faults>>
  BY DEF StopReading
<1>2. /\ phase[f] = "READER" /\ phase'[f] = "LEAVE" /\ lock'[f] = lock[f] /\ eLock'[f] = eLock[f]
      /\ \A g \in Files \ {f} : eLock'[g] = eLock[g] /\ phase'[g] = phase[g]
  BY <1>1, MoveEffect, PhaseNames DEF osVars
<1>3. FileOK(f)'
  BY <1>2 DEF IInv, FileOK
<1>4. TornOK'
  BY <1>1, <1>2, TornKept DEF osVars, fileVars
<1>. QED BY <1>1, <1>3, <1>4, MoveKeeps, PhaseNames DEF fileVars, IInv, TypeOK

\* pager_error: the lock stays, and so does the journal.
LEMMA WriteFailsKeeps == ASSUME IInv, NEW f \in Files, WriteFails(f) PROVE IInv'
<1>1. PICK from \in {"WRITER", "MODIFIED"} :
        Moves(f, from, "ERROR") /\ UNCHANGED <<osVars, eLock, fileVars, faults>>
  BY DEF WriteFails
<1>2. /\ phase[f] = from /\ phase'[f] = "ERROR" /\ lock'[f] = lock[f] /\ eLock'[f] = eLock[f]
      /\ \A g \in Files \ {f} : eLock'[g] = eLock[g] /\ phase'[g] = phase[g]
  BY <1>1, MoveEffect, PhaseNames DEF osVars
<1>3. eLock[f] \in {RESERVED, EXCLUSIVE} /\ Strong(f) /\ FileOK(f)
  BY <1>1, <1>2 DEF IInv, FileOK, Strong, SHARED, RESERVED, PENDING, EXCLUSIVE
<1>4. FileOK(f)'
  BY <1>1, <1>2, <1>3 DEF FileOK, Strong
<1>5. TornOK'
  BY <1>1, <1>2, TornKept DEF osVars, fileVars
<1>. QED BY <1>1, <1>4, <1>5, MoveKeeps, PhaseNames DEF fileVars, IInv, TypeOK

\* No other pager has a transaction beside one that relies on EXCLUSIVE.
LEMMA NobodyElse ==
  ASSUME IInv, NEW f \in Files, eLock[f] = EXCLUSIVE, ~Unlocks(f), NEW g \in Files \ {f}
  PROVE  phase[g] \notin {"READER", "WRITER", "MODIFIED", "DONE", "GONE", "PLAYED"}
<1>1. lock[g] = NONE /\ FileOK(g)
  BY WriterAlone DEF IInv
<1>. QED BY <1>1 DEF FileOK, NONE, SHARED, RESERVED, PENDING, EXCLUSIVE

\* pagerPlayback under EXCLUSIVE, or the journal is gone, or it cannot be read.
LEMMA PlaybackKeeps == ASSUME IInv, NEW f \in Files, Playback(f) PROVE IInv'
<1>1. PICK to \in {"GONE", "PLAYED", "ERROR"} :
        /\ Moves(f, "HOT", to) /\ eLock[f] = EXCLUSIVE
        /\ UNCHANGED <<osVars, eLock, faults>>
        /\ IF to = "PLAYED" THEN journal' = FALSE /\ torn' = FALSE ELSE UNCHANGED fileVars
        /\ to = "GONE" => ~journal
  BY DEF Playback
<1>2. /\ phase[f] = "HOT" /\ phase'[f] = to /\ lock'[f] = lock[f] /\ eLock'[f] = eLock[f] /\ ~Mine(f)
      /\ \A g \in Files \ {f} : eLock'[g] = eLock[g] /\ phase'[g] = phase[g]
  BY <1>1, MoveEffect, PhaseNames DEF osVars
<1>3. lock[f] = EXCLUSIVE
  BY <1>1 DEF IInv, FileOK
<1>4. FileOK(f)'
  BY <1>1, <1>2, <1>3 DEF FileOK, Strong, SHARED, RESERVED, EXCLUSIVE
<1>5. TornOK'
  <2>1. CASE to = "PLAYED"
    <3>1. \A g \in Files \ {f} : phase[g] # "MODIFIED"
      BY <1>1, <1>2, NobodyElse DEF Unlocks
    <3>. QED BY <1>1, <1>2, <2>1, <3>1 DEF TornOK
  <2>2. CASE to # "PLAYED"
    <3>1. torn => to = "ERROR"
      BY <1>1, <2>2 DEF IInv, TornOK
    <3>. QED BY <1>1, <1>2, <2>2, <3>1, TornKept DEF osVars, fileVars
  <2>. QED BY <2>1, <2>2
<1>. QED BY <1>1, <1>4, <1>5, MoveKeeps, PhaseNames DEF fileVars, IInv, TypeOK

\* The journal is there before anything else.
LEMMA OpenJournalKeeps == ASSUME IInv, NEW f \in Files, OpenJournal(f) PROVE IInv'
<1>1. Moves(f, "WRITER", "MODIFIED") /\ journal' = TRUE /\ UNCHANGED <<osVars, eLock, torn, faults>>
  BY DEF OpenJournal
<1>2. /\ phase[f] = "WRITER" /\ phase'[f] = "MODIFIED" /\ lock'[f] = lock[f] /\ eLock'[f] = eLock[f]
      /\ \A g \in Files \ {f} : eLock'[g] = eLock[g] /\ phase'[g] = phase[g]
  BY <1>1, MoveEffect, PhaseNames DEF osVars
<1>3. FileOK(f)'
  BY <1>2 DEF IInv, FileOK
<1>4. ~torn
  BY <1>2 DEF IInv, TornOK
<1>5. TornOK'
  BY <1>1, <1>4 DEF TornOK
<1>. QED BY <1>1, <1>3, <1>5, MoveKeeps, PhaseNames DEF IInv, TypeOK

\* Pages are written under EXCLUSIVE only, when nobody else reads.
LEMMA ModifyKeeps == ASSUME IInv, NEW f \in Files, Modify(f) PROVE IInv'
<1>1. /\ phase[f] = "MODIFIED" /\ ~Mine(f) /\ eLock[f] = EXCLUSIVE /\ torn' = TRUE
      /\ lock' = lock /\ inode' = inode /\ posix' = posix /\ op' = op /\ eLock' = eLock
      /\ phase' = phase /\ journal' = journal /\ faults' = faults
  BY DEF Modify, osVars, pagerVars
<1>2. TypeOK'
  BY <1>1 DEF IInv, TypeOK
<1>3. PagerOnly(f)
  BY <1>1 DEF PagerOnly, osVars
<1>4. FileOK(f)'
  BY <1>1 DEF IInv, FileOK, Strong
<1>5. ~Unlocks(f) /\ Owner[f] \in Procs
  BY <1>1, TypeOf DEF Unlocks, IInv
<1>6. \A p \in Procs : inode[p].eFileLock > SHARED \/ ReservedByte(p) = "wr"
        => inode[p].eFileLock = EXCLUSIVE /\ SharedRange(p) = "wr"
  <2> TAKE p \in Procs
  <2>1. CASE p = Owner[f]
    BY <1>1, <1>5, <2>1, WriterAlone DEF Node
  <2>2. CASE p # Owner[f]
    BY <1>1, <1>5, <2>2, WriterAlone DEF NONE, SHARED
  <2>. QED BY <2>1, <2>2
<1>7. \A g \in Files \ {f} : phase[g] \notin {"READER", "WRITER", "MODIFIED", "DONE", "GONE", "PLAYED"}
  BY <1>1, <1>5, NobodyElse
<1>8. journal
  BY <1>1 DEF IInv, TornOK
<1>9. TornOK'
  <2>1. \A p \in Procs : SharedRange(p)' = SharedRange(p) /\ ReservedByte(p)' = ReservedByte(p)
    BY <1>1 DEF SharedRange, ReservedByte
  <2>. QED BY <1>1, <1>6, <1>7, <1>8, <2>1 DEF TornOK
<1>. QED BY <1>2, <1>3, <1>4, <1>9, PagerOnlyKeeps

\* pager_end_transaction: nobody else has a journal to lose.
LEMMA EndTransactionKeeps == ASSUME IInv, NEW f \in Files, EndTransaction(f) PROVE IInv'
<1>1. PICK from \in {"WRITER", "MODIFIED"} :
        /\ Moves(f, from, "DONE") /\ UNCHANGED <<osVars, eLock, faults>>
        /\ IF from = "MODIFIED" THEN journal' = FALSE /\ torn' = FALSE ELSE UNCHANGED fileVars
  BY DEF EndTransaction
<1>2. /\ phase[f] = from /\ phase'[f] = "DONE" /\ lock'[f] = lock[f] /\ eLock'[f] = eLock[f] /\ ~Mine(f)
      /\ \A g \in Files \ {f} : eLock'[g] = eLock[g] /\ phase'[g] = phase[g]
  BY <1>1, MoveEffect, PhaseNames DEF osVars
<1>3. FileOK(f)'
  BY <1>1, <1>2 DEF IInv, FileOK
<1>4. TornOK'
  <2>1. CASE from = "WRITER"
    <3>1. ~torn
      BY <1>2, <2>1 DEF IInv, TornOK
    <3>. QED BY <1>1, <1>2, <2>1, <3>1, TornKept DEF osVars, fileVars
  <2>2. CASE from = "MODIFIED"
    <3>1. ASSUME NEW g \in Files \ {f}, phase[g] = "MODIFIED" PROVE FALSE
      <4>1. eLock[f] \in {RESERVED, EXCLUSIVE} /\ eLock[g] \in {RESERVED, EXCLUSIVE}
        BY <1>2, <2>2, <3>1 DEF IInv, FileOK
      <4>2. ~Unlocks(f)
        BY <1>2 DEF Unlocks
      <4>3. ~Unlocks(g)
        BY <3>1, LevelTables DEF IInv, CallOK, Unlocks
      <4>. QED BY <4>1, <4>2, <4>3, OneReserves
    <3>. QED BY <1>1, <1>2, <2>2, <3>1 DEF TornOK
  <2>. QED BY <2>1, <2>2
<1>. QED BY <1>1, <1>3, <1>4, MoveKeeps, PhaseNames DEF fileVars, IInv, TypeOK

---------------------------------------------------------------------------
(* unixLock and posixUnlock, call by call.                                 *)

\* While a connection is inside a call, it is the only one of its process.
LEMMA InCall ==
  ASSUME IInv, NEW f \in Files, Mine(f)
  PROVE  /\ CallOK(f) /\ op[Owner[f]].at \in Steps
         /\ phase[f] \in DOMAIN Locking \cup DOMAIN Unlocking
         /\ \A g \in Files : Owner[g] = Owner[f] => phase[g] # "SHUT"
         /\ \A g \in Files \ {f} : Owner[g] = Owner[f] =>
               ~Mine(g) /\ ~AtLast(g) /\ ~At(g, "release")
         /\ Owner[f] \in Procs /\ Siblings(Owner[f]) # {}
<1>1. CallOK(f) /\ op[Owner[f]].at \in Steps /\ Owner[f] \in Procs
  BY MineType, TypeOf DEF IInv
<1>2. phase[f] \in DOMAIN Locking \cup DOMAIN Unlocking
  BY <1>1 DEF CallOK, Steps
<1>3. op[Owner[f]] # Idle
  BY DEF Mine, Idle
<1>4. \A g \in Files : Owner[g] = Owner[f] => phase[g] # "SHUT"
  BY <1>1, <1>3 DEF IInv, NodeOK
<1>5. \A g \in Files \ {f} : Owner[g] = Owner[f] => ~Mine(g) /\ ~AtLast(g) /\ ~At(g, "release")
  BY MineType DEF IInv, AtLast, At
<1>6. f \in Siblings(Owner[f])
  BY <1>2, LevelTables DEF Siblings
<1>. QED BY <1>1, <1>2, <1>4, <1>5, <1>6

\* Nor has another one begun a call where the mutex was free.
LEMMA CallIsKept ==
  ASSUME NEW f \in Files, op'[Owner[f]].file \in {{}, {f}}
  PROVE  CallsKept(f)
  BY DEF CallsKept, Mine

\* Nothing but the state of the call changes.
LEMMA CallOnlyKeeps ==
  ASSUME IInv, NEW f \in Files, NEW c \in Call, c.file = {f},
         UNCHANGED <<lock, inode, posix, eLock, phase, journal, torn>>, faults' \in 0..MaxFault,
         op' = [op EXCEPT ![Owner[f]] = c],
         op[Owner[f]] = Idle \/ (Mine(f) /\ op[Owner[f]].at \notin {"release", "last"}),
         \A g \in Files : Owner[g] = Owner[f] => phase[g] # "SHUT",
         CallOK(f)'
  PROVE  IInv'
<1> DEFINE p == Owner[f]
<1>1. p \in Procs /\ op'[p] = c /\ \A q \in Procs \ {p} : op'[q] = op[q]
  BY TypeOf DEF IInv, TypeOK
<1>2. TypeOK'
  BY <1>1 DEF IInv, TypeOK, Call, Levels
<1>3. Local(f) /\ CallsKept(f)
  BY <1>1, CallIsKept DEF Local
<1>4. OpOK(p)' /\ Compatible'
  BY <1>1 DEF OpOK, IInv, Compatible
<1>5. Readers(p)' = Readers(p) /\ Siblings(p)' = Siblings(p) /\ Orphaned(p)' = Orphaned(p)
  BY DEF Readers, Siblings, Orphaned, Strong
<1>6. \A g \in Files : Owner[g] = p => ~AtLast(g) /\ ~At(g, "release")
  BY DEF AtLast, At, Mine, Idle
<1>7. NodeOK(p)'
  BY <1>1, <1>5, <1>6 DEF IInv, NodeOK, Strong, FreshInode
<1>8. RangeOK(p)'
  <2>1. \A g \in Files : HalfUnlocked(g)' = HalfUnlocked(g)
    BY DEF HalfUnlocked
  <2>2. SharedRange(p)' = SharedRange(p) /\ ReservedByte(p)' = ReservedByte(p)
    BY DEF SharedRange, ReservedByte
  <2>. QED BY <1>1, <1>6, <2>1, <2>2 DEF IInv, RangeOK
<1>9. FileOK(f)' /\ TornOK'
  BY DEF IInv, FileOK, TornOK, Strong, SharedRange, ReservedByte
<1>. QED BY <1>2, <1>3, <1>4, <1>7, <1>8, <1>9, LocalKeeps

\* unixLock goes to the system: for SHARED the process has no lock yet, for
\* more the lock of this connection is the strongest of its process.
LEMMA BeginLockKeeps == ASSUME IInv, CloseRaces = FALSE, NEW f \in Files, BeginLock(f) PROVE IInv'
<1> DEFINE p == Owner[f]
<1>1. PICK want \in SHARED..EXCLUSIVE :
        /\ Asks(f, want) /\ lock[f] < want /\ Mutex(f) /\ NotClosing(f)
        /\ ~Precluded(f, want)
        /\ want = SHARED => ~SharesLocally(f)
        /\ op' = [op EXCEPT ![p] =
                    [file |-> {f}, want |-> want,
                     at |-> IF \/ want = SHARED
                               \/ want = EXCLUSIVE /\ lock[f] = RESERVED
                            THEN "pending" ELSE "range"]]
        /\ UNCHANGED <<lock, inode, posix, pagerVars, fileVars, faults>>
  BY DEF BeginLock
<1> DEFINE step == IF want = SHARED \/ (want = EXCLUSIVE /\ lock[f] = RESERVED)
                   THEN "pending" ELSE "range"
           c == [file |-> {f}, want |-> want, at |-> step]
<1>2. c \in Call /\ op' = [op EXCEPT ![p] = c] /\ want \in 1..4 /\ p \in Procs
  BY <1>1, TypeOf DEF Call, Levels, Steps, NONE, SHARED, EXCLUSIVE, IInv
<1>3. eLock[f] \in 0..5 /\ lock[f] \in 0..4 /\ FileOK(f) /\ Node(f).eFileLock \in 0..4
  BY TypeOf DEF IInv
<1>4. /\ phase[f] \in DOMAIN Locking /\ want = Locking[phase[f]]
      /\ phase[f] \in {"OPEN", "HOT", "READER", "WRITER", "MODIFIED"}
      /\ eLock[f] < want \/ eLock[f] = UNKNOWN
  BY <1>1, LevelTables DEF Asks
<1>5. want = SHARED => lock[f] = NONE /\ Node(f).eFileLock = NONE
  BY <1>1, <1>2, <1>3 DEF Precluded, SharesLocally, NONE, SHARED, RESERVED, PENDING, EXCLUSIVE
<1>6. want > SHARED => Node(f).eFileLock = lock[f]
  BY <1>1, <1>2, <1>3 DEF Precluded, NONE, SHARED, RESERVED, PENDING, EXCLUSIVE
<1>7. want > SHARED => lock[f] \in SHARED..PENDING
  BY <1>1, <1>2, <1>3, <1>4, LevelTables
     DEF FileOK, NONE, SHARED, RESERVED, PENDING, EXCLUSIVE, UNKNOWN
<1>8. \A g \in Files : Owner[g] = p => phase[g] # "SHUT"
  BY <1>1 DEF NotClosing, Siblings
<1>9. /\ lock' = lock /\ inode' = inode /\ posix' = posix /\ eLock' = eLock /\ phase' = phase
      /\ journal' = journal /\ torn' = torn /\ faults' = faults /\ op'[p] = c /\ op[p] = Idle
  BY <1>1, <1>2 DEF pagerVars, fileVars, IInv, TypeOK, Mutex
<1>10. CallOK(f)'
  <2>1. Request(f)' = want /\ op'[p].at = step
    BY <1>9 DEF Request
  <2>2. step \in {"pending", "range"} /\ (step = "range" => want # SHARED /\ (lock[f] = RESERVED => want # EXCLUSIVE))
    BY DEF SHARED
  <2>3. step = "range" /\ lock[f] = RESERVED => FALSE
    BY <1>1, <1>2, <1>3, <1>4, <2>2, LevelTables DEF NONE, SHARED, RESERVED, PENDING, EXCLUSIVE
  <2>4. step = "pending" => want = SHARED \/ (want = EXCLUSIVE /\ lock[f] = RESERVED)
    OBVIOUS
  <2> HIDE DEF step
  <2>. QED BY <1>4, <1>5, <1>6, <1>7, <1>9, <2>1, <2>2, <2>3, <2>4 DEF CallOK, Node
<1> HIDE DEF c
<1>11. c.file = {f} /\ faults' \in 0..MaxFault
  BY <1>9 DEF c, IInv, TypeOK
<1>. QED BY <1>2, <1>8, <1>9, <1>10, <1>11, CallOnlyKeeps

\* posixUnlock goes to the system.
LEMMA BeginUnlockKeeps == ASSUME IInv, NEW f \in Files, BeginUnlock(f) PROVE IInv'
<1> DEFINE p == Owner[f]
<1>1. PICK to \in {NONE, SHARED} :
        /\ Drops(f, to) /\ lock[f] > to /\ Mutex(f)
        /\ op' = [op EXCEPT ![p] =
                    [file |-> {f}, want |-> to,
                     at |-> IF lock[f] = SHARED THEN "last"
                            ELSE IF to = SHARED THEN "demote" ELSE "release"]]
        /\ UNCHANGED <<lock, inode, posix, pagerVars, fileVars, faults>>
  BY DEF BeginUnlock
<1> DEFINE step == IF lock[f] = SHARED THEN "last"
                   ELSE IF to = SHARED THEN "demote" ELSE "release"
           c == [file |-> {f}, want |-> to, at |-> step]
<1>2. c \in Call /\ op' = [op EXCEPT ![p] = c] /\ p \in Procs
  BY <1>1, TypeOf DEF Call, Levels, Steps, NONE, SHARED, EXCLUSIVE, IInv
<1>3. lock[f] \in 1..4 /\ (to = NONE \/ lock[f] > SHARED) /\ to \in 0..1
  BY <1>1, TypeOf DEF IInv, NONE, SHARED
<1>4. phase[f] \in DOMAIN Unlocking /\ to = Unlocking[phase[f]]
  BY <1>1 DEF Drops
<1>5. /\ lock' = lock /\ inode' = inode /\ posix' = posix /\ eLock' = eLock /\ phase' = phase
      /\ journal' = journal /\ torn' = torn /\ faults' = faults /\ op'[p] = c /\ op[p] = Idle
  BY <1>1, <1>2 DEF pagerVars, fileVars, IInv, TypeOK, Mutex
<1>6. Strong(f) => Node(f).eFileLock = lock[f]
  BY <1>2, <1>5 DEF IInv, NodeOK, Node, AtLast, At, Mine, Idle
<1>7. \A g \in Files : Owner[g] = p => phase[g] # "SHUT"
  <2>1. Node(f).nShared >= 1
    BY <1>2, <1>3, ReaderCounts DEF IInv, SHARED
  <2>. QED BY <1>2, <2>1 DEF IInv, NodeOK, Node
<1>8. CallOK(f)'
  <2>1. Request(f)' = to /\ op'[p].at = step
    BY <1>5 DEF Request
  <2>2. \/ step = "last" /\ lock[f] = SHARED /\ to = NONE
        \/ step = "demote" /\ to = SHARED /\ lock[f] > SHARED
        \/ step = "release" /\ to = NONE /\ lock[f] > SHARED
    BY <1>1, <1>3 DEF NONE, SHARED
  <2>3. lock[f] >= SHARED
    BY <1>3 DEF SHARED
  <2> HIDE DEF step
  <2>. QED BY <1>3, <1>4, <1>5, <1>6, <2>1, <2>2, <2>3 DEF CallOK, Node, Strong, NONE, SHARED
<1> HIDE DEF c
<1>9. c.file = {f} /\ faults' \in 0..MaxFault
  BY <1>5 DEF c, IInv, TypeOK
<1>. QED BY <1>2, <1>5, <1>7, <1>8, <1>9, CallOnlyKeeps

\* How a step of f changes the number of the connections that hold a lock.
LEMMA ReadersChange ==
  ASSUME IInv, NEW f \in Files, Local(f)
  PROVE  LET R == Readers(Owner[f])
         IN  /\ lock'[f] >= SHARED /\ lock[f] >= SHARED => R' = R
             /\ ~(lock'[f] >= SHARED) /\ ~(lock[f] >= SHARED) => R' = R
             /\ lock'[f] >= SHARED /\ ~(lock[f] >= SHARED) => Cardinality(R') = Cardinality(R) + 1
             /\ ~(lock'[f] >= SHARED) /\ lock[f] >= SHARED => Cardinality(R') = Cardinality(R) - 1
<1> DEFINE R == Readers(Owner[f])
<1>1. IsFiniteSet(R) /\ Cardinality(R) \in Nat
  BY ReadersFinite
<1>2. \A g \in Files \ {f} : lock'[g] = lock[g]
  BY DEF Local
<1>3. lock'[f] >= SHARED /\ lock[f] >= SHARED => R' = R
  BY <1>2 DEF Readers
<1>4. ~(lock'[f] >= SHARED) /\ ~(lock[f] >= SHARED) => R' = R
  BY <1>2 DEF Readers
<1>5. ASSUME lock'[f] >= SHARED, ~(lock[f] >= SHARED) PROVE Cardinality(R') = Cardinality(R) + 1
  <2>1. R' = R \cup {f} /\ f \notin R
    BY <1>2, <1>5 DEF Readers
  <2>. QED BY <1>1, <2>1, FS_AddElement
<1>6. ASSUME ~(lock'[f] >= SHARED), lock[f] >= SHARED PROVE Cardinality(R') = Cardinality(R) - 1
  <2>1. R' = R \ {f} /\ f \in R
    BY <1>2, <1>6 DEF Readers
  <2>. QED BY <1>1, <2>1, FS_RemoveElement
<1>. QED BY <1>3, <1>4, <1>5, <1>6

\* Whoever could hide the hot journal of a torn file, when one process changes.
LEMMA TornEvidence ==
  ASSUME IInv, NEW f \in Files, Local(f), UNCHANGED <<journal, torn>>,
         torn => (Node(f).eFileLock' > SHARED \/ ReservedByte(Owner[f])' = "wr"
                    => Node(f).eFileLock' = EXCLUSIVE /\ SharedRange(Owner[f])' = "wr"),
         torn => phase'[f] \notin {"READER", "WRITER", "DONE", "GONE", "PLAYED"},
         phase'[f] = "MODIFIED" => phase[f] = "MODIFIED" /\ eLock'[f] \in {eLock[f], EXCLUSIVE}
  PROVE  TornOK'
<1>1. \A q \in Procs \ {Owner[f]} :
         /\ inode'[q] = inode[q] /\ SharedRange(q)' = SharedRange(q)
         /\ ReservedByte(q)' = ReservedByte(q)
  BY DEF Local, SharedRange, ReservedByte, Ranges
<1>2. \A g \in Files \ {f} : eLock'[g] = eLock[g] /\ phase'[g] = phase[g]
  BY DEF Local
<1>3. torn' => \A q \in Procs : (inode[q].eFileLock)' > SHARED \/ ReservedByte(q)' = "wr"
                  => (inode[q].eFileLock)' = EXCLUSIVE /\ SharedRange(q)' = "wr"
  BY <1>1 DEF IInv, TornOK, Node
<1>. QED BY <1>2, <1>3 DEF IInv, TornOK

\* A connection whose process reads already shares its lock.
LEMMA ShareLocallyKeeps == ASSUME IInv, NEW f \in Files, ShareLocally(f) PROVE IInv'
<1> DEFINE p == Owner[f]
           n == inode[p]
<1>1. /\ Asks(f, SHARED) /\ lock[f] < SHARED /\ op[p] = Idle /\ SharesLocally(f)
      /\ lock' = [lock EXCEPT ![f] = SHARED]
      /\ inode' = [inode EXCEPT ![p].nShared = @ + 1, ![p].nLock = @ + 1]
      /\ Locked(f, SHARED) /\ posix' = posix /\ op' = op
      /\ journal' = journal /\ torn' = torn /\ faults' = faults
  BY DEF ShareLocally, Mutex, fileVars
<1>2. /\ p \in Procs /\ lock[f] \in 0..4 /\ eLock[f] \in 0..5 /\ FileOK(f) /\ NodeOK(p) /\ RangeOK(p)
      /\ n \in [nShared : Nat, nLock : Nat, eFileLock : 0..4, nUnused : Nat]
  BY TypeOf DEF IInv, Node
<1>3. /\ phase[f] = "OPEN" /\ lock[f] = NONE /\ eLock[f] \in {NONE, UNKNOWN}
      /\ ~(lock[f] >= SHARED) /\ ~Strong(f)
  BY <1>1, <1>2, LevelTables DEF Asks, FileOK, Strong, NONE, SHARED, RESERVED, EXCLUSIVE
<1>4. /\ lock' \in [Files -> 0..4] /\ lock'[f] = SHARED
      /\ \A g \in Files \ {f} : lock'[g] = lock[g] /\ eLock'[g] = eLock[g] /\ phase'[g] = phase[g]
      /\ eLock'[f] = IF eLock[f] = UNKNOWN THEN UNKNOWN ELSE SHARED
      /\ phase'[f] = IF eLock[f] = UNKNOWN THEN "HOT" ELSE "ACCESS"
      /\ eLock' \in [Files -> 0..5] /\ phase' \in [Files -> Phases]
  BY <1>1, <1>2, <1>3, PhaseNames, LevelType DEF IInv, TypeOK, Locked
<1> DEFINE NodeType == [nShared : Nat, nLock : Nat, eFileLock : 0..4, nUnused : Nat]
           m == [nShared |-> n.nShared + 1, nLock |-> n.nLock + 1,
                 eFileLock |-> n.eFileLock, nUnused |-> n.nUnused]
<1>5. inode' \in [Procs -> NodeType] /\ inode'[p] = m /\ \A q \in Procs \ {p} : inode'[q] = inode[q]
  <2>1. inode \in [Procs -> NodeType] /\ m \in NodeType
    BY <1>2, LevelType DEF IInv, TypeOK
  <2>2. inode' = [inode EXCEPT ![p] = m]
    BY <1>1, <1>2, <2>1
  <2> HIDE DEF m, NodeType
  <2>. QED BY <1>2, <2>1, <2>2
<1>6. /\ inode'[p].nShared = n.nShared + 1 /\ inode'[p].nLock = n.nLock + 1
      /\ inode'[p].eFileLock = n.eFileLock /\ inode'[p].nUnused = n.nUnused
  BY <1>5
<1>7. TypeOK'
  BY <1>1, <1>4, <1>5, LevelType DEF IInv, TypeOK
<1>8. Local(f) /\ CallsKept(f)
  BY <1>1, <1>2, <1>4, <1>5, CallIsKept DEF Local, Idle
<1>9. OpOK(p)' /\ Compatible'
  BY <1>1 DEF OpOK, IInv, Compatible, Idle
<1>10. n.eFileLock \in {SHARED, RESERVED} /\ n.nShared > 0
  BY <1>1, <1>2 DEF SharesLocally, Node, NodeOK, NONE, SHARED, RESERVED
<1>11. \A g \in Files : Owner[g] = p =>
          Strong(g)' = Strong(g) /\ ~AtLast(g) /\ ~AtLast(g)' /\ ~At(g, "release")
  BY <1>1, <1>3, <1>4 DEF Strong, AtLast, At, Mine, Idle, SHARED
<1>12. \A g \in Files : Owner[g] = p /\ Strong(g) => g # f /\ lock'[g] = lock[g]
  BY <1>3, <1>4
<1>13. NodeOK(p)'
  <2>1. Orphaned(p)' = Orphaned(p)
    BY <1>6, <1>11 DEF Orphaned
  <2>2. Cardinality(Readers(p)') = Cardinality(Readers(p)) + 1 /\ Cardinality(Readers(p)) \in Nat
    BY <1>3, <1>4, <1>8, ReadersChange, ReadersFinite DEF SHARED
  <2>3. inode'[p].nShared >= Cardinality(Readers(p)') + (IF Orphaned(p)' THEN 1 ELSE 0)
    BY <1>2, <1>6, <2>1, <2>2 DEF NodeOK
  <2>4. Siblings(p)' # {}
    BY <1>4 DEF Siblings
  <2>5. \A g \in Files : Owner[g] = p => phase'[g] # "SHUT"
    BY <1>2, <1>4, <1>10 DEF NodeOK
  <2>. QED BY <1>2, <1>6, <1>10, <1>11, <1>12, <2>3, <2>4, <2>5
           DEF NodeOK, NONE, SHARED, RESERVED, EXCLUSIVE
<1>14. RangeOK(p)'
  <2>1. SharedRange(p)' = SharedRange(p) /\ ReservedByte(p)' = ReservedByte(p)
    BY <1>1 DEF SharedRange, ReservedByte
  <2>2. \A g \in Files \ {f} : HalfUnlocked(g)' = HalfUnlocked(g)
    BY <1>4 DEF HalfUnlocked
  <2>. QED BY <1>2, <1>4, <1>6, <1>10, <1>11, <2>1, <2>2
           DEF RangeOK, SHARED, RESERVED, PENDING, EXCLUSIVE
<1>15. FileOK(f)'
  BY <1>3, <1>4 DEF FileOK, Strong, NONE, SHARED, RESERVED, PENDING, EXCLUSIVE, UNKNOWN
<1>16. ~Mine(f)'
  BY <1>1 DEF Mine, Idle
<1>17. TornOK'
  <2>1. SharedRange(p)' = SharedRange(p) /\ ReservedByte(p)' = ReservedByte(p)
    BY <1>1 DEF SharedRange, ReservedByte
  <2>2. Node(f).eFileLock' = n.eFileLock
    BY <1>6 DEF Node
  <2>. QED BY <1>1, <1>2, <1>4, <1>8, <2>1, <2>2, TornEvidence DEF IInv, TornOK
<1>. QED BY <1>7, <1>8, <1>9, <1>13, <1>14, <1>15, <1>16, <1>17, LocalKeeps

\* A connection outside its calls: whatever its pager does, nothing of it
\* stands in the call of another.
LEMMA Outside ==
  ASSUME IInv, NEW f \in Files, phase[f] \in {"CLOSED", "TEST", "DEFER", "SHUT"}
  PROVE  ~Mine(f) /\ ~AtLast(f) /\ ~At(f, "release")
  BY InCall, LevelTables DEF AtLast, At

\* unixOpen: a new descriptor, or one whose close was deferred.
LEMMA OpenKeeps == ASSUME IInv, NEW f \in Files, Open(f) PROVE IInv'
<1> DEFINE p == Owner[f]
           n == inode[p]
<1>1. /\ phase[f] = "CLOSED" /\ phase' = [phase EXCEPT ![f] = "OPEN"]
      /\ inode' = [inode EXCEPT ![p].nUnused = IF @ = 0 THEN 0 ELSE @ - 1]
      /\ lock' = lock /\ posix' = posix /\ op' = op /\ eLock' = eLock
      /\ journal' = journal /\ torn' = torn /\ faults' = faults
  BY DEF Open, Descriptor, fileVars
<1>2. /\ p \in Procs /\ FileOK(f) /\ NodeOK(p) /\ RangeOK(p)
      /\ n \in [nShared : Nat, nLock : Nat, eFileLock : 0..4, nUnused : Nat]
  BY TypeOf DEF IInv, Node
<1>3. /\ inode' \in [Procs -> [nShared : Nat, nLock : Nat, eFileLock : 0..4, nUnused : Nat]]
      /\ inode'[p].nShared = n.nShared /\ inode'[p].nLock = n.nLock
      /\ inode'[p].eFileLock = n.eFileLock
      /\ inode'[p].nUnused = IF n.nUnused = 0 THEN 0 ELSE n.nUnused - 1
      /\ \A q \in Procs \ {p} : inode'[q] = inode[q]
  BY <1>1, <1>2, LevelType DEF IInv, TypeOK
<1>4. /\ phase' \in [Files -> Phases] /\ phase'[f] = "OPEN"
      /\ \A g \in Files \ {f} : phase'[g] = phase[g]
  BY <1>1, PhaseNames DEF IInv, TypeOK
<1>5. TypeOK'
  BY <1>1, <1>3, <1>4, LevelType DEF IInv, TypeOK
<1>6. ~Mine(f) /\ ~Mine(f)'
  BY <1>1, Outside DEF Mine
<1>7. Local(f) /\ CallsKept(f)
  BY <1>1, <1>3, <1>4 DEF Local, CallsKept, SharedRange
<1>8. OpOK(p)' /\ Compatible'
  <2>1. OpOK(p) /\ Compatible
    BY <1>2 DEF IInv
  <2>2. OpOK(p)'
    BY <1>1, <2>1 DEF OpOK, Idle
  <2>3. Compatible'
    BY <1>1, <2>1 DEF Compatible
  <2>. QED BY <2>2, <2>3
<1>9. NodeOK(p)'
  <2>1. Readers(p)' = Readers(p) /\ Orphaned(p)' = Orphaned(p) /\ \A g \in Files : AtLast(g)' = AtLast(g)
    BY <1>1, <1>3 DEF Readers, Orphaned, Strong, AtLast, At, Mine
  <2>2. Siblings(p)' # {}
    BY <1>4 DEF Siblings
  <2>3. \A g \in Files : Strong(g)' = Strong(g) /\ (phase'[g] = "SHUT" => phase[g] = "SHUT")
    BY <1>1, <1>4 DEF Strong
  <2>4. inode'[p].nUnused > 0 => inode'[p].nLock > 0
    BY <1>2, <1>3 DEF NodeOK
  <2>. QED BY <1>1, <1>2, <1>3, <2>1, <2>2, <2>3, <2>4 DEF NodeOK, Idle
<1>10. RangeOK(p)'
  <2>1. SharedRange(p)' = SharedRange(p) /\ ReservedByte(p)' = ReservedByte(p)
    BY <1>1 DEF SharedRange, ReservedByte
  <2>2. \A g \in Files \ {f} : HalfUnlocked(g)' = HalfUnlocked(g)
    BY <1>1, <1>4 DEF HalfUnlocked
  <2>3. \A g \in Files : AtLast(g)' = AtLast(g) /\ At(g, "release")' = At(g, "release") /\ Request(g)' = Request(g)
    BY <1>1 DEF AtLast, At, Mine, Request
  <2>4. lock[f] = NONE
    BY <1>1, <1>2 DEF FileOK
  <2>. QED BY <1>1, <1>2, <1>3, <2>1, <2>2, <2>3, <2>4 DEF RangeOK, NONE, RESERVED, PENDING, EXCLUSIVE
<1>11. FileOK(f)'
  BY <1>1, <1>2, <1>4 DEF FileOK, NONE, RESERVED, EXCLUSIVE
<1>12. TornOK'
  <2>1. SharedRange(p)' = SharedRange(p) /\ ReservedByte(p)' = ReservedByte(p)
    BY <1>1 DEF SharedRange, ReservedByte
  <2>2. Node(f).eFileLock' = n.eFileLock
    BY <1>3 DEF Node
  <2>. QED BY <1>1, <1>2, <1>4, <1>7, <2>1, <2>2, TornEvidence DEF IInv, TornOK
<1>. QED BY <1>5, <1>6, <1>7, <1>8, <1>9, <1>10, <1>11, <1>12, LocalKeeps

\* The first unixOpen of a process fails: close() drops locks it does not have.
LEMMA OpenFailsKeeps ==
  ASSUME IInv, FstatFails = FALSE, NEW f \in Files, OpenFails(f)
  PROVE  IInv'
<1> DEFINE p == Owner[f]
<1>0. p \in Procs /\ FileOK(f) /\ NodeOK(p) /\ OpOK(p)
  BY TypeOf DEF IInv, Node
<1>1. /\ Siblings(p) = {} /\ CloseFd(p) /\ faults < MaxFault /\ faults' = faults + 1
      /\ lock' = lock /\ inode' = inode /\ op' = op /\ eLock' = eLock /\ phase' = phase
      /\ journal' = journal /\ torn' = torn
  <2>1. Siblings(p) = {} /\ inode' = [inode EXCEPT ![p].nUnused = IF @ = 0 THEN 0 ELSE @ - 1]
    BY DEF OpenFails, Descriptor
  <2>2. inode[p].nUnused = 0
    BY <1>0, <2>1 DEF NodeOK, FreshInode
  <2>3. inode' = inode
    <3>1. inode \in [Procs -> [nShared : Nat, nLock : Nat, eFileLock : NONE..EXCLUSIVE,
                               nUnused : Nat]]
      BY DEF IInv, TypeOK
    <3>. QED BY <1>0, <2>1, <2>2, <3>1
  <2>. QED BY <2>1, <2>3 DEF OpenFails, Fault, pagerVars, fileVars
<1>2. p \in Procs /\ FileOK(f) /\ NodeOK(p) /\ OpOK(p)
  BY <1>0
<1>3. /\ posix' \in [Ranges -> [Procs -> Modes]]
      /\ \A b \in Ranges, q \in Procs : posix'[b][q] = IF q = p THEN "none" ELSE posix[b][q]
  BY <1>1, <1>2, CloseFdEffect DEF IInv
<1>4. TypeOK'
  BY <1>1, <1>3, MaxFaultAssumption DEF IInv, TypeOK
<1>5. \A g \in Files : Owner[g] = p => phase[g] = "CLOSED"
  BY <1>1 DEF Siblings
<1>6. \A g \in Files : Owner[g] = p => lock[g] = NONE /\ ~Mine(g)
  BY <1>5, Outside DEF IInv, FileOK
<1>7. inode[p] = FreshInode
  BY <1>1, <1>2 DEF NodeOK
<1>8. Local(f) /\ CallsKept(f)
  BY <1>1, <1>3, <1>6 DEF Local, CallsKept, Mine
<1>9. OpOK(p)' /\ Compatible'
  <2>1. OpOK(p)'
    BY <1>1, <1>2 DEF OpOK, Idle
  <2>2. Compatible'
    BY <1>3 DEF IInv, Compatible
  <2>. QED BY <2>1, <2>2
<1>10. NodeOK(p)'
  <2>1. /\ Readers(p)' = Readers(p) /\ Orphaned(p)' = Orphaned(p) /\ Siblings(p)' = Siblings(p)
        /\ \A g \in Files : AtLast(g)' = AtLast(g) /\ Strong(g)' = Strong(g)
    BY <1>1 DEF Readers, Orphaned, Strong, AtLast, At, Mine, Siblings
  <2>. QED BY <1>1, <1>2, <2>1 DEF NodeOK, Idle, FreshInode
<1>11. SharedRange(p)' = "none" /\ ReservedByte(p)' = "none"
  BY <1>2, <1>3, RangeNames DEF SharedRange, ReservedByte
<1>12. RangeOK(p)'
  BY <1>1, <1>6, <1>7, <1>11 DEF RangeOK, FreshInode, NONE, RESERVED, PENDING, EXCLUSIVE
<1>13. FileOK(f)' /\ ~Mine(f)'
  BY <1>1, <1>2, <1>6 DEF FileOK, Strong, Mine
<1>14. Node(f).eFileLock' = NONE
  BY <1>1, <1>7 DEF Node, FreshInode
<1>15. TornOK'
  BY <1>1, <1>8, <1>11, <1>14, TornEvidence DEF IInv, TornOK, NONE, SHARED
<1>. QED BY <1>4, <1>8, <1>9, <1>10, <1>12, <1>13, <1>15, LocalKeeps

\* unixClose finds locks of the process and defers its close(), or none.
LEMMA CloseTestKeeps == ASSUME IInv, NEW f \in Files, CloseTest(f) PROVE IInv'
<1> DEFINE p == Owner[f]
           n == inode[p]
<1>1. /\ phase[f] = "TEST" /\ op[p] = Idle
      /\ \/ /\ n.nLock > 0 /\ phase' = [phase EXCEPT ![f] = "DEFER"]
            /\ inode' = [inode EXCEPT ![p].nUnused = @ + 1]
         \/ ~(n.nLock > 0) /\ phase' = [phase EXCEPT ![f] = "SHUT"] /\ inode' = inode
      /\ lock' = lock /\ posix' = posix /\ op' = op /\ eLock' = eLock
      /\ journal' = journal /\ torn' = torn /\ faults' = faults
  BY DEF CloseTest, Mutex, Node, fileVars
<1>2. /\ p \in Procs /\ FileOK(f) /\ NodeOK(p) /\ RangeOK(p) /\ OpOK(p) /\ lock[f] \in 0..4
      /\ n \in [nShared : Nat, nLock : Nat, eFileLock : 0..4, nUnused : Nat]
  BY TypeOf DEF IInv, Node
<1>3. /\ inode' \in [Procs -> [nShared : Nat, nLock : Nat, eFileLock : 0..4, nUnused : Nat]]
      /\ inode'[p].nShared = n.nShared /\ inode'[p].nLock = n.nLock
      /\ inode'[p].eFileLock = n.eFileLock
      /\ n.nLock > 0 \/ inode'[p].nUnused = n.nUnused
      /\ \A q \in Procs \ {p} : inode'[q] = inode[q]
  <2> DEFINE NodeType == [nShared : Nat, nLock : Nat, eFileLock : 0..4, nUnused : Nat]
             m == [n EXCEPT !.nUnused = @ + 1]
  <2>1. inode \in [Procs -> NodeType]
    BY LevelType DEF IInv, TypeOK
  <2>2. /\ m \in NodeType /\ m.nShared = n.nShared /\ m.nLock = n.nLock
        /\ m.eFileLock = n.eFileLock
    BY <1>2
  <2>3. \/ n.nLock > 0 /\ inode' = [inode EXCEPT ![p] = m]
        \/ ~(n.nLock > 0) /\ inode' = inode
    BY <1>1
  <2> HIDE DEF m
  <2>4. CASE n.nLock > 0 /\ inode' = [inode EXCEPT ![p] = m]
    <3>1. inode' \in [Procs -> NodeType] /\ inode'[p] = m /\ \A q \in Procs \ {p} : inode'[q] = inode[q]
      BY <1>2, <2>1, <2>2, <2>4
    <3>. QED BY <2>2, <2>4, <3>1
  <2>. QED BY <2>1, <2>3, <2>4
<1>4. /\ phase' \in [Files -> Phases] /\ phase'[f] = IF n.nLock > 0 THEN "DEFER" ELSE "SHUT"
      /\ \A g \in Files \ {f} : phase'[g] = phase[g]
  BY <1>1, PhaseNames DEF IInv, TypeOK
<1>5. TypeOK'
  BY <1>1, <1>3, <1>4, LevelType DEF IInv, TypeOK
<1>6. ~Mine(f) /\ ~Mine(f)'
  BY <1>1, Outside DEF Mine
<1>7. Local(f) /\ CallsKept(f)
  BY <1>1, <1>3, <1>4 DEF Local, CallsKept, SharedRange
<1>8. OpOK(p)' /\ Compatible'
  <2>1. OpOK(p)'
    BY <1>1, <1>2 DEF OpOK, Idle
  <2>2. Compatible'
    BY <1>1 DEF IInv, Compatible
  <2>. QED BY <2>1, <2>2
<1>9. \A g \in Files : /\ AtLast(g)' = AtLast(g) /\ Strong(g)' = Strong(g) /\ Request(g)' = Request(g)
                       /\ At(g, "release")' = At(g, "release")
  BY <1>1 DEF Strong, AtLast, At, Mine, Request
<1>10. NodeOK(p)'
  <2>1. Readers(p)' = Readers(p) /\ Orphaned(p)' = Orphaned(p)
    BY <1>1, <1>3, <1>9 DEF Readers, Orphaned
  <2>2. Siblings(p)' # {}
    BY <1>4 DEF Siblings
  <2>3. inode'[p].nUnused > 0 => inode'[p].nLock > 0
    BY <1>2, <1>3 DEF NodeOK
  <2>4. \A g \in Files : Owner[g] = p /\ phase'[g] = "SHUT" => inode'[p].nShared = 0 /\ op'[p] = Idle
    <3>1. ~(n.nLock > 0) => n.nShared = 0
      BY <1>2 DEF NodeOK
    <3>. QED BY <1>1, <1>2, <1>3, <1>4, <3>1 DEF NodeOK
  <2>. QED BY <1>1, <1>2, <1>3, <1>9, <2>1, <2>2, <2>3, <2>4 DEF NodeOK, Idle
<1>11. SharedRange(p)' = SharedRange(p) /\ ReservedByte(p)' = ReservedByte(p)
  BY <1>1 DEF SharedRange, ReservedByte
<1>12. RangeOK(p)'
  <2>1. \A g \in Files : HalfUnlocked(g) => HalfUnlocked(g)'
    BY <1>1, <1>4 DEF HalfUnlocked
  <2>. QED BY <1>1, <1>2, <1>3, <1>9, <1>11, <2>1 DEF RangeOK
<1>13. FileOK(f)'
  <2>1. ~(n.nLock > 0) => lock[f] = NONE
    <3>1. ~(n.nLock > 0) => ~(Node(f).nShared >= 1)
      BY <1>2 DEF NodeOK, Node
    <3>. QED BY <1>2, <3>1, ReaderCounts DEF IInv, NONE, SHARED
  <2>2. eLock[f] = NONE
    BY <1>1, <1>2 DEF FileOK
  <2>. QED BY <1>1, <1>2, <1>4, <2>1, <2>2 DEF FileOK, NONE, RESERVED, EXCLUSIVE
<1>14. TornOK'
  <2>1. Node(f).eFileLock' = n.eFileLock
    BY <1>3 DEF Node
  <2>. QED BY <1>1, <1>2, <1>4, <1>7, <1>11, <2>1, TornEvidence DEF IInv, TornOK
<1>. QED BY <1>5, <1>6, <1>7, <1>8, <1>10, <1>12, <1>13, <1>14, LocalKeeps

\* The descriptor is gone; with the last one of the process goes the inode
\* object.  A lock that posixUnlock failed to drop stays counted there.
LEMMA CloseDoneKeeps == ASSUME IInv, NEW f \in Files, CloseDone(f) PROVE IInv'
<1> DEFINE p == Owner[f]
           n == inode[p]
           last == Siblings(p) = {f}
<1>1. /\ phase[f] \in {"DEFER", "SHUT"}
      /\ phase' = [phase EXCEPT ![f] = "CLOSED"] /\ lock' = [lock EXCEPT ![f] = NONE]
      /\ inode' = IF last THEN [inode EXCEPT ![p] = FreshInode] ELSE inode
      /\ IF phase[f] = "SHUT" \/ last THEN CloseFd(p) ELSE posix' = posix
      /\ op' = op /\ eLock' = eLock /\ journal' = journal /\ torn' = torn /\ faults' = faults
  BY DEF CloseDone, fileVars
<1> DEFINE closes == phase[f] = "SHUT" \/ last
<1>2. /\ p \in Procs /\ FileOK(f) /\ NodeOK(p) /\ RangeOK(p) /\ OpOK(p) /\ lock[f] \in 0..4
      /\ n \in [nShared : Nat, nLock : Nat, eFileLock : 0..4, nUnused : Nat]
  BY TypeOf DEF IInv, Node
<1>3. /\ posix' \in [Ranges -> [Procs -> Modes]]
      /\ \A b \in Ranges, q \in Procs :
            posix'[b][q] = IF closes /\ q = p THEN "none" ELSE posix[b][q]
  <2>1. CASE closes
    BY <1>1, <1>2, <2>1, CloseFdEffect DEF IInv
  <2>2. CASE ~closes
    BY <1>1, <2>2 DEF IInv, TypeOK
  <2>. QED BY <2>1, <2>2
<1>4. /\ phase' \in [Files -> Phases] /\ phase'[f] = "CLOSED" /\ lock' \in [Files -> 0..4] /\ lock'[f] = NONE
      /\ \A g \in Files \ {f} : phase'[g] = phase[g] /\ lock'[g] = lock[g]
  BY <1>1, PhaseNames, LevelType DEF IInv, TypeOK
<1>5. /\ inode' \in [Procs -> [nShared : Nat, nLock : Nat, eFileLock : 0..4, nUnused : Nat]]
      /\ inode'[p] = IF last THEN FreshInode ELSE n
      /\ \A q \in Procs \ {p} : inode'[q] = inode[q]
  <2>1. FreshInode \in [nShared : Nat, nLock : Nat, eFileLock : 0..4, nUnused : Nat]
    BY DEF FreshInode, NONE
  <2>. QED BY <1>1, <1>2, <2>1, LevelType DEF IInv, TypeOK
<1>6. TypeOK'
  BY <1>1, <1>3, <1>4, <1>5, LevelType DEF IInv, TypeOK
<1>7. ~Mine(f) /\ ~Mine(f)' /\ ~AtLast(f)
  BY <1>1, Outside DEF Mine
<1>8. ASSUME last, NEW g \in Files, Owner[g] = p, g # f
      PROVE  phase[g] = "CLOSED" /\ lock[g] = NONE /\ ~Mine(g) /\ ~Mine(g)'
  <2>1. phase[g] = "CLOSED"
    BY <1>8 DEF Siblings
  <2>2. ~Mine(g) /\ lock[g] = NONE
    BY <2>1, Outside DEF IInv, FileOK
  <2>. QED BY <1>1, <2>1, <2>2 DEF Mine
<1>9. ASSUME phase[f] = "SHUT"
      PROVE  /\ n.nShared = 0 /\ n.eFileLock = NONE /\ op[p] = Idle
             /\ \A g \in Files : Owner[g] = p => lock[g] = NONE /\ ~Mine(g)'
  <2>1. n.nShared = 0 /\ op[p] = Idle /\ n.eFileLock = NONE
    BY <1>2, <1>9 DEF NodeOK
  <2>2. \A g \in Files : Owner[g] = p => lock[g] = NONE
    <3> SUFFICES ASSUME NEW g \in Files, Owner[g] = p PROVE lock[g] = NONE
      OBVIOUS
    <3>1. ~(Node(g).nShared >= 1) /\ lock[g] \in 0..4
      BY <2>1, TypeOf DEF Node, IInv
    <3>. QED BY <1>2, <3>1, ReaderCounts DEF IInv, NONE, SHARED
  <2>. QED BY <1>1, <2>1, <2>2 DEF Mine, Idle
<1>10. Local(f)
  BY <1>1, <1>3, <1>4, <1>5 DEF Local
<1>11. CallsKept(f)
  <2>1. CASE closes
    BY <1>8, <1>9, <2>1 DEF CallsKept
  <2>2. CASE ~closes
    BY <1>1, <1>3, <1>5, <2>2 DEF CallsKept, SharedRange
  <2>. QED BY <2>1, <2>2
<1>12. OpOK(p)' /\ Compatible'
  <2>1. OpOK(p)'
    BY <1>1, <1>2 DEF OpOK, Idle
  <2>2. Compatible'
    BY <1>3 DEF IInv, Compatible
  <2>. QED BY <2>1, <2>2
<1>13. \A g \in Files : /\ AtLast(g)' = AtLast(g) /\ Request(g)' = Request(g)
                        /\ At(g, "release")' = At(g, "release")
                        /\ (g # f => Strong(g)' = Strong(g) /\ HalfUnlocked(g)' = HalfUnlocked(g))
  BY <1>1, <1>4 DEF Strong, AtLast, At, Mine, Request, HalfUnlocked
<1>14. ~Strong(f)'
  BY <1>4 DEF Strong, NONE, SHARED
<1>15. NodeOK(p)'
  <2>1. CASE last
    <3>1. \A g \in Files : Owner[g] = p => lock'[g] = NONE /\ phase'[g] = "CLOSED"
      BY <1>4, <1>8, <2>1
    <3>2. Readers(p)' = {} /\ ~Orphaned(p)'
      BY <1>5, <2>1, <3>1 DEF Readers, Orphaned, NONE, SHARED, FreshInode
    <3>3. Cardinality(Readers(p)') = 0
      BY <3>2, FS_EmptySet
    <3>. QED BY <1>5, <2>1, <3>1, <3>2, <3>3 DEF NodeOK, FreshInode, Strong, NONE, SHARED, EXCLUSIVE
  <2>2. CASE ~last
    <3>1. inode'[p] = n /\ op'[p] = op[p]
      BY <1>1, <1>5, <2>2
    <3>2. Siblings(p)' # {}
      BY <1>1, <1>4, <2>2 DEF Siblings
    <3>3. n.nShared >= Cardinality(Readers(p)') + (IF Orphaned(p)' THEN 1 ELSE 0)
      <4>1. n.nShared >= Cardinality(Readers(p)) + (IF Orphaned(p) THEN 1 ELSE 0)
            /\ Cardinality(Readers(p)) \in Nat
        BY <1>2, ReadersFinite DEF NodeOK
      <4>2. CASE lock[f] >= SHARED
        BY <1>2, <1>4, <1>10, <4>1, <4>2, ReadersChange DEF NONE, SHARED
      <4>3. CASE ~(lock[f] >= SHARED)
        <5>1. Readers(p)' = Readers(p)
          BY <1>2, <1>4, <1>10, <4>3, ReadersChange DEF NONE, SHARED
        <5>2. ~Strong(f)
          BY <1>2, <4>3 DEF Strong, SHARED
        <5>3. Orphaned(p)' = Orphaned(p)
          BY <1>13, <1>14, <3>1, <5>2 DEF Orphaned
        <5>. QED BY <4>1, <5>1, <5>3
      <4>. QED BY <4>2, <4>3
    <3>4. \A g \in Files : Strong(g)' => g # f /\ Strong(g) /\ lock'[g] = lock[g]
      BY <1>4, <1>13, <1>14
    <3>5. \A g \in Files : phase'[g] = "SHUT" => phase[g] = "SHUT"
      BY <1>4
    <3>. QED BY <1>2, <1>13, <3>1, <3>2, <3>3, <3>4, <3>5 DEF NodeOK, Idle
  <2>. QED BY <2>1, <2>2
<1>16. /\ SharedRange(p)' = IF closes THEN "none" ELSE SharedRange(p)
       /\ ReservedByte(p)' = IF closes THEN "none" ELSE ReservedByte(p)
  BY <1>2, <1>3, RangeNames DEF SharedRange, ReservedByte
<1>17. closes => inode'[p].eFileLock = NONE /\ inode'[p].nShared = 0
  BY <1>5, <1>9 DEF FreshInode
<1>18. RangeOK(p)'
  <2>1. CASE closes
    <3>1. \A g \in Files : Owner[g] = p => lock'[g] = NONE
      BY <1>4, <1>8, <1>9, <2>1
    <3>. QED BY <1>16, <1>17, <2>1, <3>1 DEF RangeOK, NONE, RESERVED, PENDING, EXCLUSIVE
  <2>2. CASE ~closes
    BY <1>2, <1>4, <1>5, <1>13, <1>16, <2>2 DEF RangeOK, NONE, RESERVED, PENDING, EXCLUSIVE
  <2>. QED BY <2>1, <2>2
<1>19. FileOK(f)'
  BY <1>1, <1>2, <1>4 DEF FileOK, Strong, NONE, SHARED, RESERVED, EXCLUSIVE
<1>20. TornOK'
  <2>1. closes => Node(f).eFileLock' = NONE
    BY <1>17 DEF Node
  <2>2. ~closes => Node(f).eFileLock' = n.eFileLock
    BY <1>5 DEF Node
  <2>3. torn => (n.eFileLock > SHARED \/ ReservedByte(p) = "wr"
                    => n.eFileLock = EXCLUSIVE /\ SharedRange(p) = "wr")
    BY <1>2 DEF IInv, TornOK
  <2>. QED BY <1>1, <1>4, <1>10, <1>16, <2>1, <2>2, <2>3, TornEvidence DEF NONE, SHARED
<1>. QED BY <1>6, <1>7, <1>10, <1>11, <1>12, <1>15, <1>18, <1>19, <1>20, LocalKeeps

\* A call goes on: nobody else's call is touched.
LEMMA GoToEffect ==
  ASSUME IInv, NEW f \in Files, Mine(f), NEW step \in Steps, GoTo(f, step)
  PROVE  LET p == Owner[f]
         IN  /\ op' \in [Procs -> {Idle} \cup [file : {{g} : g \in Files}, want : NONE..EXCLUSIVE, at : Steps]]
             /\ op'[p] = [file |-> {f}, want |-> Request(f), at |-> step]
             /\ Mine(f)' /\ Request(f)' = Request(f)
             /\ \A q \in Procs \ {p} : op'[q] = op[q]
             /\ CallsKept(f) /\ OpOK(p)'
             /\ \A g \in Files \ {f} : Owner[g] = p =>
                   /\ ~AtLast(g) /\ ~At(g, "release") /\ ~AtLast(g)' /\ ~At(g, "release")'
<1> DEFINE p == Owner[f]
           c == [file |-> {f}, want |-> Request(f), at |-> step]
<1>1. /\ p \in Procs /\ op[p] = [file |-> {f}, want |-> Request(f), at |-> op[p].at]
      /\ Request(f) \in 0..4
  BY TypeOf, MineType DEF IInv
<1>2. op \in [Procs -> {Idle} \cup [file : {{g} : g \in Files}, want : NONE..EXCLUSIVE, at : Steps]]
  BY DEF IInv, TypeOK
<1>3. [op[p] EXCEPT !.at = step] = c
  BY <1>1
<1>4. op' = [op EXCEPT ![p] = c]
  BY <1>3 DEF GoTo
<1>5. c \in [file : {{g} : g \in Files}, want : NONE..EXCLUSIVE, at : Steps]
  BY <1>1, LevelType DEF Levels
<1>6. op'[p] = c /\ \A q \in Procs \ {p} : op'[q] = op[q]
  BY <1>1, <1>2, <1>4
<1>7. op' \in [Procs -> {Idle} \cup [file : {{g} : g \in Files}, want : NONE..EXCLUSIVE, at : Steps]]
  <2> HIDE DEF c
  <2>. QED BY <1>2, <1>4, <1>5
<1>8. Mine(f)' /\ Request(f)' = Request(f) /\ OpOK(p)'
  BY <1>6 DEF Mine, Request, OpOK
<1>9. CallsKept(f)
  BY <1>6, CallIsKept
<1>10. \A g \in Files \ {f} : Owner[g] = p => ~Mine(g)'
  BY <1>6 DEF Mine
<1>. QED BY <1>6, <1>7, <1>8, <1>9, <1>10, InCall DEF AtLast, At

\* A call returns, and pLockMutex is free.
LEMMA ReturnEffect ==
  ASSUME IInv, NEW f \in Files, Mine(f), Return(f)
  PROVE  LET p == Owner[f]
         IN  /\ op' \in [Procs -> {Idle} \cup [file : {{g} : g \in Files}, want : NONE..EXCLUSIVE, at : Steps]]
             /\ op'[p] = Idle /\ ~Mine(f)'
             /\ \A q \in Procs \ {p} : op'[q] = op[q]
             /\ CallsKept(f) /\ OpOK(p)'
             /\ \A g \in Files \ {f} : Owner[g] = p => ~AtLast(g) /\ ~At(g, "release")
             /\ \A g \in Files : Owner[g] = p => ~AtLast(g)' /\ ~At(g, "release")'
<1> DEFINE p == Owner[f]
<1>1. p \in Procs
  BY TypeOf DEF IInv
<1>2. /\ op' \in [Procs -> {Idle} \cup [file : {{g} : g \in Files}, want : NONE..EXCLUSIVE, at : Steps]]
      /\ op'[p] = Idle /\ \A q \in Procs \ {p} : op'[q] = op[q]
  BY <1>1 DEF IInv, TypeOK, Return
<1>3. CallsKept(f) /\ OpOK(p)'
  BY <1>2, CallIsKept DEF Idle, OpOK
<1>4. \A g \in Files : Owner[g] = p => ~Mine(g)'
  BY <1>2 DEF Mine, Idle
<1>. QED BY <1>2, <1>3, <1>4, InCall DEF AtLast, At

\* fcntl() grants what no other process stands in the way of.
LEMMA SetlkCompatible ==
  ASSUME IInv, NEW p \in Procs, NEW B \in SUBSET Ranges, NEW mode \in Modes, Setlk(p, B, mode),
         mode = "none" \/ \A b \in B : ~Conflict(p, b, mode)
  PROVE  Compatible'
<1>1. \A b \in Ranges, q \in Procs :
         posix'[b][q] = IF b \in B /\ q = p THEN mode ELSE posix[b][q]
  <2>1. TypeOK
    BY DEF IInv
  <2>. QED BY <2>1 DEF Setlk, TypeOK
<1>2. SUFFICES ASSUME NEW q \in Procs, NEW r \in Procs, NEW b \in Ranges, q # r, posix'[b][q] = "wr"
               PROVE  posix'[b][r] = "none"
  BY DEF Compatible
<1>3. CASE b \notin B \/ (q # p /\ r # p)
  BY <1>1, <1>2, <1>3 DEF IInv, Compatible
<1>4. CASE b \in B /\ q = p
  <2>1. mode = "wr" /\ ~Conflict(p, b, mode)
    BY <1>1, <1>2, <1>4
  <2>2. posix[b][r] \notin {"wr", "rd"} /\ posix[b][r] \in Modes
    BY <1>2, <1>4, <2>1 DEF Conflict, IInv, TypeOK
  <2>. QED BY <1>1, <1>2, <1>4, <2>2, RangeNames
<1>5. CASE b \in B /\ r = p
  <2>1. posix[b][q] = "wr"
    BY <1>1, <1>2, <1>5
  <2>2. mode = "none"
    BY <1>2, <1>5, <2>1 DEF Conflict
  <2>. QED BY <1>1, <1>5, <2>2
<1>. QED BY <1>3, <1>4, <1>5

\* xLock ends without a lock; it may have touched the PENDING byte.
LEMMA NoLockKeeps ==
  ASSUME IInv, NEW f \in Files, Mine(f), op[Owner[f]].at \in {"pending", "range", "drop", "refused"},
         Return(f), NotLocked(f), UNCHANGED <<lock, inode, journal, torn>>,
         posix' = posix \/ Setlk(Owner[f], {"PENDING_BYTE"}, "none"), faults' \in 0..MaxFault
  PROVE  IInv'
<1> DEFINE p == Owner[f]
<1>1. /\ p \in Procs /\ FileOK(f) /\ NodeOK(p) /\ RangeOK(p) /\ CallOK(f)
      /\ lock[f] \in 0..4 /\ eLock[f] \in 0..5
  BY TypeOf DEF IInv
<1>2. /\ op' \in [Procs -> {Idle} \cup [file : {{g} : g \in Files}, want : NONE..EXCLUSIVE, at : Steps]]
      /\ op'[p] = Idle /\ ~Mine(f)' /\ CallsKept(f) /\ OpOK(p)'
      /\ \A q \in Procs \ {p} : op'[q] = op[q]
      /\ \A g \in Files : Owner[g] = p => ~AtLast(g) /\ ~At(g, "release")
  BY ReturnEffect DEF AtLast, At
<1>3. /\ posix' \in [Ranges -> [Procs -> Modes]] /\ Compatible'
      /\ \A b \in Ranges, q \in Procs : posix'[b][q] = posix[b][q] \/ (b = "PENDING_BYTE" /\ q = p)
  <2>1. CASE posix' = posix
    BY <2>1 DEF IInv, TypeOK, Compatible
  <2>2. CASE Setlk(p, {"PENDING_BYTE"}, "none")
    <3>1. {"PENDING_BYTE"} \in SUBSET Ranges /\ "none" \in Modes
      BY RangeNames
    <3>2. TypeOK
      BY DEF IInv
    <3>3. Compatible'
      BY <1>1, <2>2, <3>1, SetlkCompatible
    <3>4. /\ posix' \in [Ranges -> [Procs -> Modes]]
          /\ \A b \in Ranges, q \in Procs :
                posix'[b][q] = IF b \in {"PENDING_BYTE"} /\ q = p THEN "none" ELSE posix[b][q]
      BY <1>1, <2>2, <3>1, <3>2 DEF Setlk, TypeOK
    <3>. QED BY <3>3, <3>4
  <2>. QED BY <2>1, <2>2
<1>4. /\ phase' \in [Files -> Phases] /\ eLock' = eLock
      /\ phase'[f] = IF phase[f] = "HOT" THEN "LEAVE" ELSE phase[f]
      /\ \A g \in Files \ {f} : phase'[g] = phase[g]
  BY PhaseNames DEF IInv, TypeOK, NotLocked
<1>5. TypeOK'
  BY <1>2, <1>3, <1>4 DEF IInv, TypeOK
<1>6. Local(f)
  BY <1>1, <1>2, <1>3, <1>4 DEF Local
<1>7. /\ phase[f] \in {"OPEN", "HOT", "READER", "WRITER", "MODIFIED"}
      /\ eLock[f] < Locking[phase[f]] \/ eLock[f] = UNKNOWN
  BY <1>1, LevelTables DEF CallOK
<1>8. \A g \in Files : Strong(g)' = Strong(g) /\ HalfUnlocked(g)' = HalfUnlocked(g)
  BY <1>4, <1>7 DEF Strong, HalfUnlocked
<1>9. NodeOK(p)'
  <2>1. Readers(p)' = Readers(p) /\ Orphaned(p)' = Orphaned(p)
    BY <1>8 DEF Readers, Orphaned
  <2>2. Siblings(p)' # {} /\ \A g \in Files : Owner[g] = p => phase'[g] # "SHUT"
    BY <1>4, <1>7, InCall DEF Siblings
  <2>. QED BY <1>1, <1>2, <1>8, <2>1, <2>2 DEF NodeOK
<1>10. SharedRange(p)' = SharedRange(p) /\ ReservedByte(p)' = ReservedByte(p)
  BY <1>1, <1>3, RangeNames DEF SharedRange, ReservedByte
<1>11. RangeOK(p)'
  BY <1>1, <1>2, <1>8, <1>10 DEF RangeOK
<1>12. FileOK(f)'
  BY <1>1, <1>4, <1>7, LevelTables DEF FileOK, Strong, NONE, SHARED, RESERVED, PENDING, EXCLUSIVE, UNKNOWN
<1>13. TornOK'
  <2>1. Node(f).eFileLock' = Node(f).eFileLock
    BY DEF Node
  <2>. QED BY <1>1, <1>4, <1>6, <1>7, <1>10, <2>1, TornEvidence DEF IInv, TornOK, Node
<1>. QED BY <1>2, <1>3, <1>5, <1>6, <1>9, <1>11, <1>12, <1>13, LocalKeeps

\* Failures are bounded.
LEMMA FaultType ==
  ASSUME IInv, Fault \/ NoFault
  PROVE  faults' \in 0..MaxFault
  BY MaxFaultAssumption DEF IInv, TypeOK, Fault, NoFault

\* unixLock gives up.
LEMMA GiveUpKeeps ==
  ASSUME IInv, NEW f \in Files, Mine(f), op[Owner[f]].at \in {"pending", "range"},
         GiveUp(f), Fault \/ NoFault
  PROVE  IInv'
<1>1. Return(f) /\ NotLocked(f) /\ UNCHANGED <<lock, inode, posix, journal, torn>>
  BY DEF GiveUp, fileVars
<1>. QED BY <1>1, FaultType, NoLockKeeps

\* The names of the steps of a call.
LEMMA StepNames ==
  Steps = {"pending", "range", "drop", "refused", "demote", "release", "last"}
  BY DEF Steps

\* The lock on the PENDING byte: a reader's is temporary, a writer's keeps
\* new readers out.
LEMMA TakePendingKeeps == ASSUME IInv, NEW f \in Files, TakePending(f) PROVE IInv'
<1> DEFINE p == Owner[f]
           n == inode[p]
           mode == IF Request(f) = SHARED THEN "rd" ELSE "wr"
<1>1. Mine(f) /\ op[p].at = "pending"
  BY DEF TakePending, At
<1>2. CASE Fails(f, "PENDING_BYTE", mode) /\ GiveUp(f)
  BY <1>1, <1>2, GiveUpKeeps DEF Fails
<1>3. CASE /\ ~Conflict(p, "PENDING_BYTE", mode) /\ Setlk(p, {"PENDING_BYTE"}, mode)
           /\ IF Request(f) = EXCLUSIVE THEN SetPending(f) ELSE UNCHANGED <<lock, inode>>
           /\ GoTo(f, "range") /\ UNCHANGED <<pagerVars, fileVars, faults>>
  <2>1. /\ p \in Procs /\ FileOK(f) /\ NodeOK(p) /\ RangeOK(p) /\ CallOK(f) /\ TypeOK
        /\ lock[f] \in 0..4 /\ eLock[f] \in 0..5
        /\ n \in [nShared : Nat, nLock : Nat, eFileLock : 0..4, nUnused : Nat]
    BY <1>1, TypeOf DEF IInv, Node
  <2>2. /\ mode \in Modes /\ {"PENDING_BYTE"} \in SUBSET Ranges /\ "range" \in Steps
    BY RangeNames, StepNames
  <2>3. /\ op' \in [Procs -> {Idle} \cup [file : {{g} : g \in Files}, want : NONE..EXCLUSIVE, at : Steps]]
        /\ op'[p] = [file |-> {f}, want |-> Request(f), at |-> "range"]
        /\ Mine(f)' /\ Request(f)' = Request(f) /\ ~AtLast(f) /\ ~AtLast(f)' /\ ~At(f, "release")
        /\ \A q \in Procs \ {p} : op'[q] = op[q]
        /\ CallsKept(f) /\ OpOK(p)'
        /\ \A g \in Files \ {f} : Owner[g] = p =>
              /\ ~AtLast(g) /\ ~At(g, "release") /\ ~AtLast(g)' /\ ~At(g, "release")'
    BY <1>1, <1>3, <2>2, GoToEffect DEF AtLast, At
  <2>4. /\ posix' \in [Ranges -> [Procs -> Modes]]
        /\ \A b \in Ranges, q \in Procs :
              posix'[b][q] = IF b \in {"PENDING_BYTE"} /\ q = p THEN mode ELSE posix[b][q]
    BY <1>3, <2>1, <2>2 DEF Setlk, TypeOK
  <2>5. Compatible'
    BY <1>3, <2>1, <2>2, SetlkCompatible
  <2>6. SharedRange(p)' = SharedRange(p) /\ ReservedByte(p)' = ReservedByte(p)
    BY <2>1, <2>4, RangeNames DEF SharedRange, ReservedByte
  <2>7. /\ eLock' = eLock /\ phase' = phase /\ journal' = journal /\ torn' = torn /\ faults' = faults
    BY <1>3 DEF pagerVars, fileVars
  <2>8. \/ /\ Request(f) = SHARED /\ lock[f] = NONE /\ n.eFileLock = NONE
           /\ lock' = lock /\ inode' = inode
        \/ /\ Request(f) = EXCLUSIVE /\ lock[f] = RESERVED /\ n.eFileLock = RESERVED
           /\ lock' = [lock EXCEPT ![f] = PENDING]
           /\ inode' = [inode EXCEPT ![p].eFileLock = PENDING]
    BY <1>1, <1>3, <2>1 DEF CallOK, SetPending, SHARED, EXCLUSIVE
  <2>9. CASE Request(f) = SHARED /\ lock[f] = NONE /\ n.eFileLock = NONE /\ lock' = lock /\ inode' = inode
    <3>1. TypeOK'
      BY <2>1, <2>3, <2>4, <2>7, <2>9 DEF TypeOK
    <3>2. Local(f)
      BY <2>1, <2>3, <2>4, <2>7, <2>9 DEF Local
    <3>3. \A g \in Files : Strong(g)' = Strong(g) /\ HalfUnlocked(g)' = HalfUnlocked(g)
      BY <2>7, <2>9 DEF Strong, HalfUnlocked
    <3>4. NodeOK(p)'
      <4>1. Readers(p)' = Readers(p) /\ Orphaned(p)' = Orphaned(p)
        BY <2>9, <3>3 DEF Readers, Orphaned
      <4>2. Siblings(p)' # {} /\ \A g \in Files : Owner[g] = p => phase'[g] # "SHUT"
        BY <1>1, <2>7, InCall DEF Siblings
      <4>. QED BY <2>1, <2>3, <2>9, <3>3, <4>1, <4>2 DEF NodeOK
    <3>5. RangeOK(p)'
      BY <2>1, <2>3, <2>6, <2>9, <3>3 DEF RangeOK
    <3>6. FileOK(f)'
      BY <2>1, <2>7, <2>9 DEF FileOK, Strong
    <3>7. CallOK(f)'
      BY <1>1, <2>1, <2>3, <2>7, <2>9 DEF CallOK, NONE, SHARED, RESERVED
    <3>8. TornOK'
      <4>1. Node(f).eFileLock' = n.eFileLock
        BY <2>9 DEF Node
      <4>. QED BY <2>1, <2>6, <2>7, <3>2, <4>1, TornEvidence DEF IInv, TornOK
    <3>. QED BY <2>3, <2>5, <3>1, <3>2, <3>4, <3>5, <3>6, <3>7, <3>8, LocalKeeps
  <2>10. CASE /\ Request(f) = EXCLUSIVE /\ lock[f] = RESERVED /\ n.eFileLock = RESERVED
              /\ lock' = [lock EXCEPT ![f] = PENDING]
              /\ inode' = [inode EXCEPT ![p].eFileLock = PENDING]
    <3>1. /\ lock' \in [Files -> NONE..EXCLUSIVE] /\ lock'[f] = PENDING
          /\ \A g \in Files \ {f} : lock'[g] = lock[g]
      BY <2>1, <2>10 DEF TypeOK, NONE, PENDING, EXCLUSIVE
    <3>2. /\ inode' \in [Procs -> [nShared : Nat, nLock : Nat, eFileLock : NONE..EXCLUSIVE, nUnused : Nat]]
          /\ inode'[p].nShared = n.nShared /\ inode'[p].nLock = n.nLock
          /\ inode'[p].eFileLock = PENDING /\ inode'[p].nUnused = n.nUnused
          /\ \A q \in Procs \ {p} : inode'[q] = inode[q]
      BY <2>1, <2>10 DEF TypeOK, NONE, PENDING, EXCLUSIVE
    <3>3. TypeOK'
      BY <2>1, <2>3, <2>4, <2>7, <3>1, <3>2 DEF TypeOK
    <3>4. Local(f)
      BY <2>1, <2>3, <2>4, <2>7, <3>1, <3>2 DEF Local
    <3>5. /\ Strong(f) /\ Strong(f)'
          /\ \A g \in Files : Strong(g)' = Strong(g) /\ HalfUnlocked(g)' = HalfUnlocked(g)
      BY <2>7, <2>10, <3>1 DEF Strong, HalfUnlocked, SHARED, RESERVED, PENDING
    <3>6. \A g \in Files \ {f} : Owner[g] = p => ~Strong(g)
      BY <2>1, <3>5 DEF NodeOK
    <3>7. NodeOK(p)'
      <4>1. Readers(p)' = Readers(p)
        BY <2>10, <3>1, <3>4, ReadersChange DEF SHARED, RESERVED, PENDING
      <4>2. ~Orphaned(p) /\ ~Orphaned(p)'
        BY <3>5 DEF Orphaned
      <4>3. Siblings(p)' # {} /\ \A g \in Files : Owner[g] = p => phase'[g] # "SHUT"
        BY <1>1, <2>7, InCall DEF Siblings
      <4>4. \A g \in Files : Owner[g] = p /\ Strong(g)' => g = f
        BY <3>5, <3>6
      <4>. QED BY <2>1, <2>10, <3>1, <3>2, <4>1, <4>2, <4>3, <4>4
               DEF NodeOK, NONE, RESERVED, PENDING, EXCLUSIVE
    <3>8. RangeOK(p)'
      BY <2>1, <2>3, <2>6, <2>10, <3>1, <3>2, <3>5 DEF RangeOK, RESERVED, PENDING, EXCLUSIVE
    <3>9. FileOK(f)'
      BY <1>1, <2>1, <2>7, <2>10, <3>1, LevelTables
         DEF FileOK, CallOK, Strong, NONE, SHARED, RESERVED, PENDING, EXCLUSIVE, UNKNOWN
    <3>10. CallOK(f)'
      BY <1>1, <2>1, <2>3, <2>7, <2>10, <3>1, <3>2 DEF CallOK, NONE, SHARED, RESERVED, PENDING, EXCLUSIVE
    <3>11. ~torn
      BY <2>1, <2>10 DEF IInv, TornOK, SHARED, RESERVED, EXCLUSIVE
    <3>12. TornOK'
      BY <2>1, <2>7, <3>4, <3>11, TornEvidence
    <3>. QED BY <2>3, <2>5, <3>3, <3>4, <3>7, <3>8, <3>9, <3>10, <3>12, LocalKeeps
  <2>. QED BY <2>8, <2>9, <2>10
<1>. QED BY <1>1, <1>2, <1>3 DEF TakePending

\* A reader of a process without locks gets its range, or not.
LEMMA TakeSharedKeeps == ASSUME IInv, NEW f \in Files, TakeShared(f) PROVE IInv'
<1> DEFINE p == Owner[f]
           n == inode[p]
<1>1. /\ Mine(f) /\ op[p].at = "range" /\ Request(f) = SHARED
      /\ lock' = lock /\ inode' = inode /\ eLock' = eLock /\ phase' = phase
      /\ journal' = journal /\ torn' = torn
  BY DEF TakeShared, At, pagerVars, fileVars
<1>2. /\ p \in Procs /\ FileOK(f) /\ NodeOK(p) /\ RangeOK(p) /\ CallOK(f) /\ TypeOK
      /\ n \in [nShared : Nat, nLock : Nat, eFileLock : 0..4, nUnused : Nat]
  BY <1>1, TypeOf DEF IInv, Node
<1>3. PICK step \in {"drop", "refused"} :
        /\ GoTo(f, step) /\ (Fault \/ NoFault)
        /\ \/ /\ step = "drop" /\ ~Conflict(p, "SHARED_RANGE", "rd")
              /\ Setlk(p, {"SHARED_RANGE"}, "rd")
           \/ step = "refused" /\ posix' = posix
  BY DEF TakeShared, Fails
<1>4. /\ op' \in [Procs -> {Idle} \cup [file : {{g} : g \in Files}, want : NONE..EXCLUSIVE, at : Steps]]
      /\ op'[p] = [file |-> {f}, want |-> Request(f), at |-> step]
      /\ Mine(f)' /\ Request(f)' = Request(f) /\ ~AtLast(f) /\ ~AtLast(f)' /\ ~At(f, "release")
      /\ \A q \in Procs \ {p} : op'[q] = op[q]
      /\ CallsKept(f) /\ OpOK(p)'
      /\ \A g \in Files \ {f} : Owner[g] = p =>
            /\ ~AtLast(g) /\ ~At(g, "release") /\ ~AtLast(g)' /\ ~At(g, "release")'
  <2>1. step \in Steps
    BY StepNames
  <2>2. /\ op' \in [Procs -> {Idle} \cup [file : {{g} : g \in Files}, want : NONE..EXCLUSIVE, at : Steps]]
        /\ op'[p] = [file |-> {f}, want |-> Request(f), at |-> step]
        /\ Mine(f)' /\ Request(f)' = Request(f)
        /\ \A q \in Procs \ {p} : op'[q] = op[q]
        /\ CallsKept(f) /\ OpOK(p)'
        /\ \A g \in Files \ {f} : Owner[g] = p =>
              /\ ~AtLast(g) /\ ~At(g, "release") /\ ~AtLast(g)' /\ ~At(g, "release")'
    BY <1>1, <1>3, <2>1, GoToEffect
  <2>3. op'[p].at = step /\ step # "last" /\ op[p].at # "last" /\ op[p].at # "release"
    BY <1>1, <2>2
  <2>. QED BY <2>2, <2>3 DEF AtLast, At
<1>5. {"SHARED_RANGE"} \in SUBSET Ranges /\ "rd" \in Modes
  BY RangeNames
<1>6. /\ posix' \in [Ranges -> [Procs -> Modes]]
      /\ \A b \in Ranges, q \in Procs :
            posix'[b][q] = posix[b][q] \/ (b = "SHARED_RANGE" /\ q = p /\ posix'[b][q] = "rd")
      /\ step = "drop" => posix'["SHARED_RANGE"][p] = "rd"
  <2>1. CASE step = "drop" /\ Setlk(p, {"SHARED_RANGE"}, "rd")
    BY <1>2, <1>5, <2>1 DEF Setlk, TypeOK
  <2>2. CASE step = "refused" /\ posix' = posix
    BY <1>2, <2>2 DEF TypeOK
  <2>. QED BY <1>3, <2>1, <2>2
<1>7. Compatible'
  <2>1. CASE Setlk(p, {"SHARED_RANGE"}, "rd") /\ ~Conflict(p, "SHARED_RANGE", "rd")
    BY <1>2, <1>5, <2>1, SetlkCompatible
  <2>2. CASE posix' = posix
    BY <2>2 DEF IInv, Compatible
  <2>. QED BY <1>3, <2>1, <2>2
<1>8. /\ ReservedByte(p)' = ReservedByte(p)
      /\ SharedRange(p)' = SharedRange(p) \/ SharedRange(p)' = "rd"
      /\ step = "drop" => SharedRange(p)' = "rd"
  BY <1>2, <1>6, RangeNames DEF SharedRange, ReservedByte
<1>9. lock[f] = NONE /\ n.eFileLock = NONE /\ n.nShared = 0
  BY <1>1, <1>2 DEF CallOK, NodeOK
<1>10. \A g \in Files : Owner[g] = p => lock[g] = NONE
  <2> SUFFICES ASSUME NEW g \in Files, Owner[g] = p PROVE lock[g] = NONE
    OBVIOUS
  <2>1. ~(Node(g).nShared >= 1) /\ lock[g] \in 0..4
    BY <1>2, <1>9, TypeOf DEF Node
  <2>. QED BY <1>2, <2>1, ReaderCounts DEF NONE, SHARED
<1>11. TypeOK'
  BY <1>1, <1>2, <1>3, <1>4, <1>6, FaultType DEF TypeOK
<1>12. Local(f)
  BY <1>1, <1>2, <1>4, <1>6 DEF Local
<1>13. NodeOK(p)'
  <2>1. Readers(p)' = Readers(p) /\ Orphaned(p)' = Orphaned(p) /\ \A g \in Files : Strong(g)' = Strong(g)
    BY <1>1 DEF Readers, Orphaned, Strong
  <2>2. Siblings(p)' # {} /\ \A g \in Files : Owner[g] = p => phase'[g] # "SHUT"
    BY <1>1, InCall DEF Siblings
  <2>. QED BY <1>1, <1>2, <1>4, <2>1, <2>2 DEF NodeOK
<1>14. RangeOK(p)'
  BY <1>1, <1>2, <1>8, <1>9, <1>10 DEF RangeOK, NONE, RESERVED, PENDING, EXCLUSIVE
<1>15. FileOK(f)' /\ CallOK(f)'
  <2>1. FileOK(f)'
    BY <1>1, <1>2 DEF FileOK, Strong
  <2>2. CallOK(f)'
    BY <1>1, <1>2, <1>3, <1>4, <1>8, <1>9 DEF CallOK, NONE, SHARED
  <2>. QED BY <2>1, <2>2
<1>16. TornOK'
  <2>1. Node(f).eFileLock' = NONE
    BY <1>1, <1>9 DEF Node
  <2>2. torn => ReservedByte(p) # "wr"
    BY <1>2, <1>9 DEF IInv, TornOK, NONE, EXCLUSIVE
  <2>. QED BY <1>1, <1>8, <1>12, <2>1, <2>2, TornEvidence DEF IInv, TornOK, NONE, SHARED
<1>. QED BY <1>4, <1>7, <1>11, <1>12, <1>13, <1>14, <1>15, <1>16, LocalKeeps

\* Only OPEN asks for SHARED, only READER for RESERVED.
LEMMA WhoAsks ==
  ASSUME NEW f \in Files, phase[f] \in DOMAIN Locking, NEW want, want = Locking[phase[f]]
  PROVE  /\ want \in {SHARED, RESERVED, EXCLUSIVE}
         /\ want = SHARED => phase[f] = "OPEN"
         /\ want = RESERVED => phase[f] = "READER"
         /\ want = EXCLUSIVE => phase[f] \in {"HOT", "WRITER", "MODIFIED"}
  BY LevelTables DEF SHARED, RESERVED, EXCLUSIVE

\* The temporary lock is dropped; the reader has its SHARED lock, or not.
LEMMA DropPendingKeeps == ASSUME IInv, NEW f \in Files, DropPending(f) PROVE IInv'
<1> DEFINE p == Owner[f]
           n == inode[p]
<1>1. /\ Mine(f) /\ op[p].at \in {"drop", "refused"} /\ Return(f)
      /\ (posix' = posix \/ Setlk(p, {"PENDING_BYTE"}, "none")) /\ journal' = journal /\ torn' = torn
      /\ Fault \/ NoFault
  BY DEF DropPending, At, fileVars
<1>2. CASE ~(At(f, "drop") /\ faults' = faults)
  <2>1. NotLocked(f) /\ UNCHANGED <<lock, inode>>
    BY <1>2 DEF DropPending
  <2>. QED BY <1>1, <2>1, FaultType, NoLockKeeps
<1>3. CASE At(f, "drop") /\ faults' = faults
  <2>1. /\ p \in Procs /\ FileOK(f) /\ NodeOK(p) /\ RangeOK(p) /\ CallOK(f) /\ TypeOK
        /\ lock[f] \in 0..4 /\ eLock[f] \in 0..5
        /\ n \in [nShared : Nat, nLock : Nat, eFileLock : 0..4, nUnused : Nat]
    BY <1>1, TypeOf DEF IInv, Node
  <2>2. /\ lock' = [lock EXCEPT ![f] = SHARED] /\ Locked(f, SHARED)
        /\ inode' = [inode EXCEPT ![p].nShared = 1, ![p].nLock = @ + 1, ![p].eFileLock = SHARED]
    BY <1>3 DEF DropPending, Granted
  <2>3. /\ op' \in [Procs -> {Idle} \cup [file : {{g} : g \in Files}, want : NONE..EXCLUSIVE, at : Steps]]
        /\ op'[p] = Idle /\ ~Mine(f)' /\ CallsKept(f) /\ OpOK(p)'
        /\ \A q \in Procs \ {p} : op'[q] = op[q]
        /\ \A g \in Files : Owner[g] = p => ~AtLast(g)' /\ ~At(g, "release")'
    BY <1>1, ReturnEffect
  <2>4. /\ posix' \in [Ranges -> [Procs -> Modes]] /\ Compatible'
        /\ \A b \in Ranges, q \in Procs : posix'[b][q] = posix[b][q] \/ (b = "PENDING_BYTE" /\ q = p)
    <3>1. CASE posix' = posix
      BY <2>1, <3>1 DEF IInv, TypeOK, Compatible
    <3>2. CASE Setlk(p, {"PENDING_BYTE"}, "none")
      <4>1. {"PENDING_BYTE"} \in SUBSET Ranges /\ "none" \in Modes
        BY RangeNames
      <4>2. Compatible'
        BY <2>1, <3>2, <4>1, SetlkCompatible
      <4>3. /\ posix' \in [Ranges -> [Procs -> Modes]]
            /\ \A b \in Ranges, q \in Procs :
                  posix'[b][q] = IF b \in {"PENDING_BYTE"} /\ q = p THEN "none" ELSE posix[b][q]
        BY <2>1, <3>2, <4>1 DEF Setlk, TypeOK
      <4>. QED BY <4>2, <4>3
    <3>. QED BY <1>1, <3>1, <3>2
  <2>5. SharedRange(p)' = "rd" /\ ReservedByte(p)' = ReservedByte(p)
    BY <1>1, <1>3, <2>1, <2>4, RangeNames DEF SharedRange, ReservedByte, CallOK, At
  <2>6. /\ phase[f] = "OPEN" /\ lock[f] = NONE /\ n.eFileLock = NONE /\ n.nShared = 0 /\ n.nLock = 0
        /\ eLock[f] \in {NONE, UNKNOWN}
    <3>1. Request(f) = SHARED /\ phase[f] \in DOMAIN Locking /\ Request(f) = Locking[phase[f]]
      BY <1>1, <2>1 DEF CallOK
    <3>2. phase[f] = "OPEN" /\ lock[f] = NONE /\ n.eFileLock = NONE
      BY <1>1, <2>1, <3>1, WhoAsks DEF CallOK
    <3>. QED BY <2>1, <3>2 DEF FileOK, NodeOK
  <2>7. \A g \in Files : Owner[g] = p => lock[g] = NONE
    <3> SUFFICES ASSUME NEW g \in Files, Owner[g] = p PROVE lock[g] = NONE
      OBVIOUS
    <3>1. ~(Node(g).nShared >= 1) /\ lock[g] \in 0..4
      BY <2>1, <2>6, TypeOf DEF Node
    <3>. QED BY <2>1, <3>1, ReaderCounts DEF NONE, SHARED
  <2>8. /\ lock' \in [Files -> NONE..EXCLUSIVE] /\ lock'[f] = SHARED
        /\ \A g \in Files \ {f} : lock'[g] = lock[g] /\ eLock'[g] = eLock[g] /\ phase'[g] = phase[g]
        /\ eLock'[f] = IF eLock[f] = UNKNOWN THEN UNKNOWN ELSE SHARED
        /\ phase'[f] = IF eLock[f] = UNKNOWN THEN "HOT" ELSE "ACCESS"
        /\ eLock' \in [Files -> NONE..UNKNOWN] /\ phase' \in [Files -> Phases]
    BY <2>1, <2>2, <2>6, PhaseNames DEF TypeOK, Locked, NONE, SHARED, EXCLUSIVE, UNKNOWN
  <2> DEFINE NodeType == [nShared : Nat, nLock : Nat, eFileLock : NONE..EXCLUSIVE, nUnused : Nat]
             m == [nShared |-> 1, nLock |-> n.nLock + 1, eFileLock |-> SHARED, nUnused |-> n.nUnused]
  <2>9. inode' \in [Procs -> NodeType] /\ inode'[p] = m /\ \A q \in Procs \ {p} : inode'[q] = inode[q]
    <3>1. inode \in [Procs -> NodeType] /\ m \in NodeType
      BY <2>1 DEF TypeOK, NONE, SHARED, EXCLUSIVE
    <3>2. inode' = [inode EXCEPT ![p] = m]
      BY <2>1, <2>2, <3>1
    <3> HIDE DEF m, NodeType
    <3>. QED BY <2>1, <3>1, <3>2
  <2>10. TypeOK'
    BY <2>1, <1>1, <1>3, <2>3, <2>4, <2>8, <2>9 DEF TypeOK
  <2>11. Local(f)
    BY <2>1, <2>3, <2>4, <2>8, <2>9 DEF Local
  <2>12. \A g \in Files : Owner[g] = p => ~Strong(g)' /\ (g # f => lock'[g] = NONE)
    BY <2>7, <2>8 DEF Strong, NONE, SHARED
  <2>13. NodeOK(p)'
    <3>1. ~Orphaned(p)'
      BY <2>9 DEF Orphaned, SHARED
    <3>2. Readers(p)' = {f}
      BY <2>8, <2>12 DEF Readers, NONE, SHARED
    <3>3. Cardinality(Readers(p)') = 1
      BY <3>2, FS_Singleton
    <3>4. Siblings(p)' # {} /\ \A g \in Files : Owner[g] = p => phase'[g] # "SHUT"
      BY <1>1, <2>8, InCall DEF Siblings
    <3>. QED BY <2>6, <2>9, <2>12, <3>1, <3>3, <3>4 DEF NodeOK, NONE, SHARED, EXCLUSIVE
  <2>14. RangeOK(p)'
    BY <2>1, <2>5, <2>8, <2>9, <2>12 DEF RangeOK, NONE, SHARED, RESERVED, PENDING, EXCLUSIVE
  <2>15. FileOK(f)'
    BY <2>6, <2>8 DEF FileOK, Strong, NONE, SHARED, RESERVED, PENDING, EXCLUSIVE, UNKNOWN
  <2>16. TornOK'
    <3>1. Node(f).eFileLock' = SHARED
      BY <2>9 DEF Node
    <3>2. torn => ReservedByte(p) # "wr"
      BY <2>1, <2>6 DEF IInv, TornOK, NONE, EXCLUSIVE
    <3>. QED BY <1>1, <2>5, <2>8, <2>11, <3>1, <3>2, TornEvidence DEF SHARED
  <2>. QED BY <2>3, <2>4, <2>10, <2>11, <2>13, <2>14, <2>15, <2>16, LocalKeeps
<1>. QED BY <1>2, <1>3

\* RESERVED: no other connection of the process has more than SHARED.
\* EXCLUSIVE: no other connection of the process has any lock.
LEMMA TakeRangeKeeps == ASSUME IInv, NEW f \in Files, TakeRange(f) PROVE IInv'
<1> DEFINE p == Owner[f]
           n == inode[p]
           want == Request(f)
           b == IF want = RESERVED THEN "RESERVED_BYTE" ELSE "SHARED_RANGE"
<1>1. Mine(f) /\ op[p].at = "range" /\ want > SHARED
  BY DEF TakeRange, At
<1>2. CASE GiveUp(f) /\ (Fault \/ NoFault)
  BY <1>1, <1>2, GiveUpKeeps
<1>3. CASE /\ ~Crowded(f, want) /\ ~Conflict(p, b, "wr") /\ Setlk(p, {b}, "wr")
           /\ lock' = [lock EXCEPT ![f] = want] /\ Locked(f, want)
           /\ inode' = [inode EXCEPT ![p].eFileLock = want]
           /\ Return(f) /\ UNCHANGED <<fileVars, faults>>
  <2>1. /\ p \in Procs /\ FileOK(f) /\ NodeOK(p) /\ RangeOK(p) /\ CallOK(f) /\ TypeOK
        /\ lock[f] \in 0..4 /\ eLock[f] \in 0..5 /\ want \in 0..4
        /\ n \in [nShared : Nat, nLock : Nat, eFileLock : 0..4, nUnused : Nat]
    BY <1>1, TypeOf, MineType DEF IInv, Node
  <2>2. /\ lock[f] \in {SHARED, PENDING} /\ n.eFileLock = lock[f]
        /\ phase[f] \in DOMAIN Locking /\ want = Locking[phase[f]]
        /\ eLock[f] < want \/ eLock[f] = UNKNOWN
    BY <1>1, <2>1 DEF CallOK, SHARED, RESERVED, PENDING
  <2>3. \/ want = RESERVED /\ phase[f] = "READER" /\ b = "RESERVED_BYTE"
           /\ lock[f] = SHARED /\ eLock[f] = SHARED
        \/ want = EXCLUSIVE /\ phase[f] \in {"HOT", "WRITER", "MODIFIED"} /\ b = "SHARED_RANGE"
    <3>1. \/ want = RESERVED /\ phase[f] = "READER"
          \/ want = EXCLUSIVE /\ phase[f] \in {"HOT", "WRITER", "MODIFIED"}
      BY <1>1, <2>2, WhoAsks DEF SHARED
    <3>. QED BY <2>1, <3>1 DEF FileOK, RESERVED, EXCLUSIVE
  <2>4. /\ op' \in [Procs -> {Idle} \cup [file : {{g} : g \in Files}, want : NONE..EXCLUSIVE, at : Steps]]
        /\ op'[p] = Idle /\ ~Mine(f)' /\ CallsKept(f) /\ OpOK(p)'
        /\ \A q \in Procs \ {p} : op'[q] = op[q]
        /\ \A g \in Files \ {f} : Owner[g] = p => ~AtLast(g) /\ ~At(g, "release")
        /\ \A g \in Files : Owner[g] = p => ~AtLast(g)' /\ ~At(g, "release")'
    BY <1>1, <1>3, ReturnEffect
  <2>5. b \in Ranges /\ {b} \in SUBSET Ranges /\ "wr" \in Modes
    BY RangeNames
  <2>6. /\ posix' \in [Ranges -> [Procs -> Modes]]
        /\ \A c \in Ranges, q \in Procs : posix'[c][q] = IF c = b /\ q = p THEN "wr" ELSE posix[c][q]
    <3> HIDE DEF b
    <3>. QED BY <1>3, <2>1, <2>5 DEF Setlk, TypeOK
  <2>7. Compatible'
    <3> HIDE DEF b
    <3>. QED BY <1>3, <2>1, <2>5, SetlkCompatible
  <2>8. /\ lock' \in [Files -> NONE..EXCLUSIVE] /\ lock'[f] = want
        /\ \A g \in Files \ {f} : lock'[g] = lock[g] /\ eLock'[g] = eLock[g] /\ phase'[g] = phase[g]
        /\ eLock'[f] = want
        /\ phase'[f] = IF phase[f] = "READER" THEN "WRITER" ELSE phase[f]
        /\ eLock' \in [Files -> NONE..UNKNOWN] /\ phase' \in [Files -> Phases]
    BY <1>3, <2>1, <2>3, PhaseNames DEF TypeOK, Locked, NONE, SHARED, EXCLUSIVE, UNKNOWN
  <2>9. /\ inode' \in [Procs -> [nShared : Nat, nLock : Nat, eFileLock : NONE..EXCLUSIVE, nUnused : Nat]]
        /\ inode'[p].nShared = n.nShared /\ inode'[p].nLock = n.nLock
        /\ inode'[p].eFileLock = want /\ inode'[p].nUnused = n.nUnused
        /\ \A q \in Procs \ {p} : inode'[q] = inode[q]
    BY <1>3, <2>1 DEF TypeOK, NONE, EXCLUSIVE
  <2>10. TypeOK'
    BY <1>3, <2>1, <2>4, <2>6, <2>8, <2>9 DEF TypeOK, fileVars
  <2>11. Local(f)
    BY <2>1, <2>4, <2>6, <2>8, <2>9 DEF Local
  <2>12. \A g \in Files \ {f} : Owner[g] = p => ~Strong(g) /\ ~Strong(g)'
    <3> SUFFICES ASSUME NEW g \in Files \ {f}, Owner[g] = p, Strong(g) PROVE FALSE
      BY <2>8 DEF Strong
    <3>1. n.eFileLock = lock[g]
      BY <2>1, <2>4 DEF NodeOK
    <3>2. Strong(f)
      BY <2>2, <3>1 DEF Strong
    <3>. QED BY <2>1, <3>2 DEF NodeOK
  <2>13. Strong(f)' /\ lock'[f] >= SHARED /\ lock[f] >= SHARED /\ n.nShared >= 1
    <3>1. lock[f] >= SHARED /\ lock'[f] >= SHARED /\ Strong(f)'
      BY <1>1, <2>1, <2>2, <2>8 DEF Strong, SHARED, PENDING
    <3>. QED BY <2>1, <3>1, ReaderCounts DEF Node
  <2>14. want = EXCLUSIVE => n.nShared = 1
    BY <1>3, <2>1, <2>13 DEF Crowded, Node
  <2>15. NodeOK(p)'
    <3>1. ~Orphaned(p)' /\ Readers(p)' = Readers(p)
      BY <2>11, <2>13, ReadersChange DEF Orphaned
    <3>2. n.nShared >= Cardinality(Readers(p)) /\ Cardinality(Readers(p)) \in Nat
      BY <2>1, ReadersFinite DEF NodeOK
    <3>3. Siblings(p)' # {} /\ \A g \in Files : Owner[g] = p => phase'[g] # "SHUT"
      BY <1>1, <2>8, InCall, LevelTables DEF Siblings
    <3>4. n.nUnused > 0 => n.nLock > 0
      BY <2>1 DEF NodeOK
    <3>5. n.nLock = n.nShared
      BY <2>1 DEF NodeOK
    <3>6. \A g \in Files : Owner[g] = p /\ Strong(g)' => g = f
      BY <2>12
    <3>. QED BY <1>1, <2>1, <2>8, <2>9, <2>13, <2>14, <3>1, <3>2, <3>3, <3>4, <3>5, <3>6
             DEF NodeOK, NONE, SHARED
  <2>16. /\ want = RESERVED => ReservedByte(p)' = "wr" /\ SharedRange(p)' = SharedRange(p)
         /\ want = EXCLUSIVE => SharedRange(p)' = "wr" /\ ReservedByte(p)' = ReservedByte(p)
    BY <2>1, <2>3, <2>6, RangeNames DEF SharedRange, ReservedByte, RESERVED, EXCLUSIVE
  <2>17. RangeOK(p)'
    <3>1. SharedRange(p) # "none"
      BY <2>1, <2>13 DEF RangeOK
    <3>2. SharedRange(p)' # "none" /\ (ReservedByte(p)' # "none" => ReservedByte(p)' = "wr")
      BY <2>1, <2>3, <2>16, <3>1 DEF RangeOK
    <3>3. \A g \in Files : Owner[g] = p /\ g # f => lock'[g] \notin {RESERVED, PENDING, EXCLUSIVE}
      BY <2>12 DEF Strong, SHARED, RESERVED, PENDING, EXCLUSIVE
    <3>4. /\ lock'[f] \in {RESERVED, PENDING} => ReservedByte(p)' = "wr"
          /\ lock'[f] = EXCLUSIVE => SharedRange(p)' = "wr"
      BY <2>3, <2>8, <2>16 DEF RESERVED, PENDING, EXCLUSIVE
    <3>. QED BY <3>2, <3>3, <3>4 DEF RangeOK
  <2>18. FileOK(f)'
    BY <2>1, <2>3, <2>8 DEF FileOK, Strong, NONE, SHARED, RESERVED, PENDING, EXCLUSIVE, UNKNOWN
  <2>19. TornOK'
    <3>1. Node(f).eFileLock' = want
      BY <2>9 DEF Node
    <3>2. torn => want = EXCLUSIVE /\ phase[f] # "WRITER"
      BY <2>3 DEF IInv, TornOK
    <3>3. journal' = journal /\ torn' = torn
      BY <1>3 DEF fileVars
    <3>4. phase'[f] = "MODIFIED" => phase[f] = "MODIFIED" /\ eLock'[f] = EXCLUSIVE
      BY <2>3, <2>8
    <3>5. torn => phase'[f] \in {"HOT", "MODIFIED"}
      BY <2>3, <2>8, <3>2 DEF RESERVED, EXCLUSIVE
    <3>. QED BY <2>11, <2>16, <3>1, <3>2, <3>3, <3>4, <3>5, TornEvidence
  <2>. QED BY <2>4, <2>7, <2>10, <2>11, <2>15, <2>17, <2>18, <2>19, LocalKeeps
<1>4. \/ GiveUp(f) /\ (Fault \/ NoFault)
      \/ /\ ~Crowded(f, want) /\ ~Conflict(p, b, "wr") /\ Setlk(p, {b}, "wr")
         /\ lock' = [lock EXCEPT ![f] = want] /\ Locked(f, want)
         /\ inode' = [inode EXCEPT ![p].eFileLock = want]
         /\ Return(f) /\ UNCHANGED <<fileVars, faults>>
  BY DEF TakeRange, Granted, Fails
<1>. QED BY <1>2, <1>3, <1>4

\* posixUnlock fails: Pager.eLock falls below the lock of the system.
LEMMA UnlockFailsKeeps ==
  ASSUME IInv, IgnoredErrors = FALSE, NEW f \in Files, Mine(f),
         op[Owner[f]].at \in {"demote", "release"},
         UnlockFails(f), UNCHANGED fileVars, ~FailsTwice(f),
         Fault \/ (NoFault /\ op[Owner[f]].at = "demote")
  PROVE  IInv'
<1> DEFINE p == Owner[f]
           n == inode[p]
<1>1. /\ Return(f) /\ Unlocked(f, FALSE) /\ phase[f] # "GONE"
      /\ lock' = lock /\ inode' = inode /\ posix' = posix /\ journal' = journal /\ torn' = torn
  BY DEF UnlockFails, MayFail, fileVars
<1>2. /\ p \in Procs /\ FileOK(f) /\ NodeOK(p) /\ RangeOK(p) /\ CallOK(f) /\ TypeOK
      /\ lock[f] \in 0..4 /\ eLock[f] \in 0..5
      /\ n \in [nShared : Nat, nLock : Nat, eFileLock : 0..4, nUnused : Nat]
  BY TypeOf DEF IInv, Node
<1>3. /\ op' \in [Procs -> {Idle} \cup [file : {{g} : g \in Files}, want : NONE..EXCLUSIVE, at : Steps]]
      /\ op'[p] = Idle /\ ~Mine(f)' /\ CallsKept(f) /\ OpOK(p)' /\ ~AtLast(f)
      /\ \A q \in Procs \ {p} : op'[q] = op[q]
      /\ \A g \in Files \ {f} : Owner[g] = p => ~AtLast(g) /\ ~At(g, "release")
      /\ \A g \in Files : Owner[g] = p => ~AtLast(g)' /\ ~At(g, "release")'
  BY <1>1, ReturnEffect DEF AtLast, At
<1>4. /\ phase[f] \in DOMAIN Unlocking /\ Request(f) = Unlocking[phase[f]]
      /\ phase[f] \in {"LEAVE", "ERROR", "CLOSING", "PLAYED", "DONE"}
      /\ Strong(f) /\ n.eFileLock = lock[f]
      /\ op[p].at = "demote" => phase[f] \in {"PLAYED", "DONE"}
  BY <1>1, <1>2, LevelTables DEF CallOK, NONE, SHARED
<1>5. /\ eLock' \in [Files -> NONE..UNKNOWN] /\ phase' \in [Files -> Phases]
      /\ \A g \in Files \ {f} : eLock'[g] = eLock[g] /\ phase'[g] = phase[g]
      /\ phase[f] = "CLOSING" => eLock'[f] = NONE /\ phase'[f] = "TEST"
      /\ phase[f] = "ERROR" => eLock'[f] = UNKNOWN /\ phase'[f] = "OPEN"
      /\ phase[f] = "LEAVE" => phase'[f] = "OPEN" /\ eLock'[f] = IF eLock[f] = UNKNOWN THEN UNKNOWN ELSE NONE
      /\ phase[f] \in {"PLAYED", "DONE"} =>
            phase'[f] = "ERROR" /\ eLock'[f] = IF eLock[f] = UNKNOWN THEN UNKNOWN ELSE SHARED
  <2>1. /\ eLock' \in [Files -> NONE..UNKNOWN] /\ phase' \in [Files -> Phases]
        /\ \A g \in Files \ {f} : eLock'[g] = eLock[g] /\ phase'[g] = phase[g]
        /\ eLock'[f] = IF phase[f] = "CLOSING" THEN NONE
                       ELSE IF phase[f] = "ERROR" /\ ~FALSE THEN UNKNOWN
                       ELSE IF eLock[f] = UNKNOWN THEN UNKNOWN ELSE Unlocking[phase[f]]
        /\ phase'[f] = IF phase[f] = "CLOSING" THEN "TEST"
                       ELSE IF phase[f] \in {"LEAVE", "ERROR"} THEN "OPEN"
                       ELSE IF FALSE \/ phase[f] = "GONE" THEN "READER" ELSE "ERROR"
    BY <1>1, <1>4, UnlockedEffect
  <2>. QED BY <1>1, <1>4, <2>1, LevelTables
<1>6. TypeOK'
  BY <1>1, <1>2, <1>3, <1>5, FaultType DEF TypeOK
<1>7. Local(f)
  BY <1>1, <1>2, <1>3, <1>5 DEF Local
<1>8. Compatible'
  BY <1>1 DEF IInv, Compatible
<1>9. /\ \A g \in Files : Strong(g)' = Strong(g)
      /\ \A g \in Files \ {f} : HalfUnlocked(g)' = HalfUnlocked(g)
  BY <1>1, <1>5 DEF Strong, HalfUnlocked
<1>10. NodeOK(p)'
  <2>1. Readers(p)' = Readers(p) /\ Orphaned(p)' = Orphaned(p)
    BY <1>1, <1>9 DEF Readers, Orphaned
  <2>2. Siblings(p)' # {} /\ \A g \in Files : Owner[g] = p => phase'[g] # "SHUT"
    BY <1>4, <1>5, InCall DEF Siblings
  <2>. QED BY <1>1, <1>2, <1>3, <1>9, <2>1, <2>2 DEF NodeOK
<1>11. SharedRange(p)' = SharedRange(p) /\ ReservedByte(p)' = ReservedByte(p)
  BY <1>1 DEF SharedRange, ReservedByte
<1>12. FileOK(f)'
  <2>1. phase[f] \in {"PLAYED", "DONE"} => eLock[f] \in {RESERVED, EXCLUSIVE}
    BY <1>2 DEF FileOK
  <2>2. phase[f] = "LEAVE" => eLock[f] = UNKNOWN
    BY <1>2, <1>4 DEF FileOK, Strong
  <2>. QED BY <1>1, <1>4, <1>5, <1>9, <2>1, <2>2 DEF FileOK, NONE, SHARED, RESERVED, EXCLUSIVE, UNKNOWN
<1>13. lock[f] = EXCLUSIVE => SharedRange(p) = "wr" \/ HalfUnlocked(f)'
  <2>1. CASE phase[f] \in {"PLAYED", "DONE"}
    <3>1. eLock[f] \in {RESERVED, EXCLUSIVE}
      BY <1>2, <2>1 DEF FileOK
    <3>. QED BY <1>5, <2>1, <3>1 DEF HalfUnlocked, RESERVED, EXCLUSIVE, UNKNOWN
  <2>2. CASE phase[f] \in {"LEAVE", "CLOSING"}
    <3>1. Request(f) # SHARED
      BY <1>4, <2>2, LevelTables DEF NONE, SHARED
    <3>. QED BY <1>2, <1>3, <2>2, <3>1 DEF RangeOK, HalfUnlocked
  <2>3. CASE phase[f] = "ERROR"
    <3>1. op[p].at = "release" /\ At(f, "release")
      BY <1>4, <2>3 DEF At
    <3>2. ASSUME lock[f] = EXCLUSIVE PROVE SharedRange(p) # "rd"
      <4>1. Fault
        BY <3>1
      <4>. QED BY <2>3, <3>1, <3>2, <4>1 DEF FailsTwice
    <3>3. SharedRange(p) # "none" /\ SharedRange(p) \in Modes
      <4>1. lock[f] >= SHARED
        BY <1>2, <1>4 DEF Strong, SHARED
      <4>. QED BY <1>2, <4>1, LockBacked, RangeNames DEF SharedRange, TypeOK
    <3>. QED BY <3>2, <3>3, RangeNames
  <2>. QED BY <1>4, <2>1, <2>2, <2>3
<1>14. RangeOK(p)'
  BY <1>1, <1>2, <1>3, <1>9, <1>11, <1>13 DEF RangeOK
<1>15. TornOK'
  <2>1. Node(f).eFileLock' = n.eFileLock
    BY <1>1 DEF Node
  <2>. QED BY <1>1, <1>2, <1>4, <1>5, <1>7, <1>11, <2>1, TornEvidence DEF IInv, TornOK
<1>. QED BY <1>3, <1>6, <1>7, <1>8, <1>10, <1>12, <1>14, <1>15, LocalKeeps

\* The range is read-locked again, for the readers that wait.
LEMMA DemoteKeeps ==
  ASSUME IInv, IgnoredErrors = FALSE, NEW f \in Files, Demote(f), ~FailsTwice(f)
  PROVE  IInv'
<1> DEFINE p == Owner[f]
           n == inode[p]
<1>1. Mine(f) /\ op[p].at = "demote" /\ UNCHANGED fileVars
  BY DEF Demote, At
<1>2. CASE Fails(f, "SHARED_RANGE", "rd") /\ UnlockFails(f)
  BY <1>1, <1>2, UnlockFailsKeeps DEF Fails
<1>3. CASE /\ ~Conflict(p, "SHARED_RANGE", "rd") /\ Setlk(p, {"SHARED_RANGE"}, "rd")
           /\ GoTo(f, "release") /\ UNCHANGED <<lock, inode, pagerVars, faults>>
  <2>1. /\ p \in Procs /\ FileOK(f) /\ NodeOK(p) /\ RangeOK(p) /\ CallOK(f) /\ TypeOK
    BY <1>1, TypeOf DEF IInv, Node
  <2>2. /\ lock' = lock /\ inode' = inode /\ eLock' = eLock /\ phase' = phase /\ faults' = faults
        /\ journal' = journal /\ torn' = torn
    BY <1>1, <1>3 DEF pagerVars, fileVars
  <2>3. {"SHARED_RANGE"} \in SUBSET Ranges /\ "rd" \in Modes /\ "release" \in Steps
    BY RangeNames, StepNames
  <2>4. /\ op' \in [Procs -> {Idle} \cup [file : {{g} : g \in Files}, want : NONE..EXCLUSIVE, at : Steps]]
        /\ op'[p] = [file |-> {f}, want |-> Request(f), at |-> "release"]
        /\ Mine(f)' /\ Request(f)' = Request(f) /\ ~AtLast(f) /\ ~AtLast(f)' /\ At(f, "release")'
        /\ \A q \in Procs \ {p} : op'[q] = op[q]
        /\ CallsKept(f) /\ OpOK(p)'
        /\ \A g \in Files \ {f} : Owner[g] = p =>
              /\ ~AtLast(g) /\ ~At(g, "release") /\ ~AtLast(g)' /\ ~At(g, "release")'
    <3>1. /\ op' \in [Procs -> {Idle} \cup [file : {{g} : g \in Files}, want : NONE..EXCLUSIVE, at : Steps]]
          /\ op'[p] = [file |-> {f}, want |-> Request(f), at |-> "release"]
          /\ Mine(f)' /\ Request(f)' = Request(f)
          /\ \A q \in Procs \ {p} : op'[q] = op[q]
          /\ CallsKept(f) /\ OpOK(p)'
          /\ \A g \in Files \ {f} : Owner[g] = p =>
                /\ ~AtLast(g) /\ ~At(g, "release") /\ ~AtLast(g)' /\ ~At(g, "release")'
      BY <1>1, <1>3, <2>3, GoToEffect
    <3>. QED BY <1>1, <3>1 DEF AtLast, At
  <2>5. /\ posix' \in [Ranges -> [Procs -> Modes]]
        /\ \A b \in Ranges, q \in Procs :
              posix'[b][q] = IF b \in {"SHARED_RANGE"} /\ q = p THEN "rd" ELSE posix[b][q]
    BY <1>3, <2>1, <2>3 DEF Setlk, TypeOK
  <2>6. Compatible'
    BY <1>3, <2>1, <2>3, SetlkCompatible
  <2>7. SharedRange(p)' = "rd" /\ ReservedByte(p)' = ReservedByte(p)
    BY <2>1, <2>5, RangeNames DEF SharedRange, ReservedByte
  <2>8. TypeOK'
    BY <2>1, <2>2, <2>4, <2>5 DEF TypeOK
  <2>9. Local(f)
    BY <2>1, <2>2, <2>4, <2>5 DEF Local
  <2>10. \A g \in Files : Strong(g)' = Strong(g) /\ HalfUnlocked(g)' = HalfUnlocked(g)
    BY <2>2 DEF Strong, HalfUnlocked
  <2>11. NodeOK(p)'
    <3>1. Readers(p)' = Readers(p) /\ Orphaned(p)' = Orphaned(p)
      BY <2>2, <2>10 DEF Readers, Orphaned
    <3>2. Siblings(p)' # {} /\ \A g \in Files : Owner[g] = p => phase'[g] # "SHUT"
      BY <1>1, <2>2, InCall DEF Siblings
    <3>. QED BY <2>1, <2>2, <2>4, <2>10, <3>1, <3>2 DEF NodeOK
  <2>12. Request(f) = SHARED /\ Strong(f) /\ phase[f] \in {"GONE", "PLAYED", "DONE"}
    BY <1>1, <2>1, LevelTables DEF CallOK, NONE, SHARED
  <2>13. RangeOK(p)'
    <3>1. \A g \in Files \ {f} : Owner[g] = p => ~Strong(g) /\ lock[g] \notin {RESERVED, PENDING, EXCLUSIVE}
      <4>1. \A g \in Files \ {f} : Owner[g] = p => ~Strong(g)
        BY <2>1, <2>12 DEF NodeOK
      <4>. QED BY <4>1 DEF Strong, SHARED, RESERVED, PENDING, EXCLUSIVE
    <3>. QED BY <2>1, <2>2, <2>4, <2>7, <2>12, <3>1 DEF RangeOK
  <2>14. FileOK(f)' /\ CallOK(f)'
    <3>1. FileOK(f)'
      BY <2>1, <2>2 DEF FileOK, Strong
    <3>2. CallOK(f)'
      BY <1>1, <2>1, <2>2, <2>4 DEF CallOK, Strong
    <3>. QED BY <3>1, <3>2
  <2>15. ~torn
    BY <2>12 DEF IInv, TornOK
  <2>16. TornOK'
    BY <2>2, <2>9, <2>15, TornEvidence
  <2>. QED BY <2>4, <2>6, <2>8, <2>9, <2>11, <2>13, <2>14, <2>16, LocalKeeps
<1>. QED BY <1>1, <1>2, <1>3 DEF Demote

\* To NONE go pager_unlock and unixClose, to SHARED the end of a transaction.
LEMMA WhoDrops ==
  ASSUME NEW f \in Files, phase[f] \in DOMAIN Unlocking, NEW to, to = Unlocking[phase[f]]
  PROVE  /\ to \in {NONE, SHARED}
         /\ to = NONE => phase[f] \in {"LEAVE", "ERROR", "CLOSING"}
         /\ to = SHARED => phase[f] \in {"GONE", "PLAYED", "DONE"}
  BY LevelTables DEF NONE, SHARED

\* The two bytes are released, in one call.
LEMMA ReleaseKeeps ==
  ASSUME IInv, IgnoredErrors = FALSE, NEW f \in Files, Release(f), ~FailsTwice(f)
  PROVE  IInv'
<1> DEFINE p == Owner[f]
           n == inode[p]
<1>1. Mine(f) /\ op[p].at = "release" /\ UNCHANGED fileVars
  BY DEF Release, At
<1>2. CASE Fault /\ UnlockFails(f)
  BY <1>1, <1>2, UnlockFailsKeeps
<1>3. CASE /\ Setlk(p, {"PENDING_BYTE", "RESERVED_BYTE"}, "none")
           /\ inode' = [inode EXCEPT ![p].eFileLock = SHARED]
           /\ IF Request(f) = NONE
              THEN GoTo(f, "last") /\ UNCHANGED <<lock, pagerVars>>
              ELSE /\ Return(f) /\ Unlocked(f, TRUE)
                   /\ lock' = [lock EXCEPT ![f] = SHARED]
           /\ NoFault
  <2>1. /\ p \in Procs /\ FileOK(f) /\ NodeOK(p) /\ RangeOK(p) /\ CallOK(f) /\ TypeOK
        /\ lock[f] \in 0..4 /\ eLock[f] \in 0..5
        /\ n \in [nShared : Nat, nLock : Nat, eFileLock : 0..4, nUnused : Nat]
    BY <1>1, TypeOf DEF IInv, Node
  <2>2. journal' = journal /\ torn' = torn /\ faults' = faults
    BY <1>1, <1>3 DEF fileVars, NoFault
  <2>3. /\ phase[f] \in DOMAIN Unlocking /\ Request(f) = Unlocking[phase[f]]
        /\ Strong(f) /\ n.eFileLock = lock[f]
    BY <1>1, <2>1 DEF CallOK
  <2>4. \A g \in Files \ {f} : Owner[g] = p =>
           ~Strong(g) /\ ~AtLast(g) /\ ~At(g, "release") /\ lock[g] \notin {RESERVED, PENDING, EXCLUSIVE}
    <3>1. \A g \in Files \ {f} : Owner[g] = p => ~Strong(g)
      BY <2>1, <2>3 DEF NodeOK
    <3>. QED BY <1>1, <3>1, InCall DEF Strong, SHARED, RESERVED, PENDING, EXCLUSIVE
  <2>5. {"PENDING_BYTE", "RESERVED_BYTE"} \in SUBSET Ranges /\ "none" \in Modes
    BY RangeNames
  <2>6. /\ posix' \in [Ranges -> [Procs -> Modes]]
        /\ \A b \in Ranges, q \in Procs :
              posix'[b][q] = IF b \in {"PENDING_BYTE", "RESERVED_BYTE"} /\ q = p THEN "none" ELSE posix[b][q]
    BY <1>3, <2>1, <2>5 DEF Setlk, TypeOK
  <2>7. Compatible'
    BY <1>3, <2>1, <2>5, SetlkCompatible
  <2>8. SharedRange(p)' = SharedRange(p) /\ ReservedByte(p)' = "none"
    BY <2>1, <2>6, RangeNames DEF SharedRange, ReservedByte
  <2>9. /\ inode' \in [Procs -> [nShared : Nat, nLock : Nat, eFileLock : NONE..EXCLUSIVE, nUnused : Nat]]
        /\ inode'[p].nShared = n.nShared /\ inode'[p].nLock = n.nLock
        /\ inode'[p].eFileLock = SHARED /\ inode'[p].nUnused = n.nUnused
        /\ \A q \in Procs \ {p} : inode'[q] = inode[q]
    <3> DEFINE NodeType == [nShared : Nat, nLock : Nat, eFileLock : NONE..EXCLUSIVE, nUnused : Nat]
               m == [n EXCEPT !.eFileLock = SHARED]
    <3>1. inode \in [Procs -> NodeType]
      BY <2>1 DEF TypeOK
    <3>2. /\ m \in NodeType /\ m.nShared = n.nShared /\ m.nLock = n.nLock
          /\ m.eFileLock = SHARED /\ m.nUnused = n.nUnused
      BY <2>1 DEF NONE, SHARED, EXCLUSIVE
    <3>3. inode' = [inode EXCEPT ![p] = m]
      BY <1>3
    <3> HIDE DEF m
    <3>4. inode' \in [Procs -> NodeType] /\ inode'[p] = m /\ \A q \in Procs \ {p} : inode'[q] = inode[q]
      BY <2>1, <3>1, <3>2, <3>3
    <3>. QED BY <3>2, <3>4
  <2>10. n.nShared >= 1 /\ lock[f] >= SHARED /\ SharedRange(p) # "none"
    <3>1. lock[f] >= SHARED
      BY <2>1, <2>3 DEF Strong, SHARED
    <3>. QED BY <2>1, <3>1, LockBacked DEF Node
  <2>11. /\ n.nLock = n.nShared /\ Cardinality(Readers(p)) \in Nat
         /\ n.nShared >= Cardinality(Readers(p))
    BY <2>1, ReadersFinite DEF NodeOK
  <2>12. ~Orphaned(p)'
    BY <2>9 DEF Orphaned, SHARED
  <2>13. Node(f).eFileLock' = SHARED
    BY <2>9 DEF Node
  <2>14. CASE Request(f) = NONE
    <3>1. /\ GoTo(f, "last") /\ lock' = lock /\ eLock' = eLock /\ phase' = phase /\ "last" \in Steps
      BY <1>3, <2>14, StepNames DEF pagerVars
    <3>2. /\ op' \in [Procs -> {Idle} \cup [file : {{g} : g \in Files}, want : NONE..EXCLUSIVE, at : Steps]]
          /\ op'[p] = [file |-> {f}, want |-> Request(f), at |-> "last"]
          /\ Mine(f)' /\ Request(f)' = Request(f)
          /\ \A q \in Procs \ {p} : op'[q] = op[q]
          /\ CallsKept(f) /\ OpOK(p)'
          /\ \A g \in Files \ {f} : Owner[g] = p => ~AtLast(g)' /\ ~At(g, "release")'
      BY <1>1, <3>1, GoToEffect
    <3>3. AtLast(f)' /\ Strong(f)'
      BY <2>3, <3>1, <3>2 DEF AtLast, At, Strong
    <3>4. TypeOK'
      BY <2>1, <2>2, <2>6, <2>9, <3>1, <3>2 DEF TypeOK
    <3>5. Local(f)
      BY <2>1, <2>6, <2>9, <3>1, <3>2 DEF Local
    <3>6. \A g \in Files : Strong(g)' = Strong(g)
      BY <3>1 DEF Strong
    <3>7. NodeOK(p)'
      <4>1. Readers(p)' = Readers(p)
        BY <3>1 DEF Readers
      <4>2. Siblings(p)' # {} /\ \A g \in Files : Owner[g] = p => phase'[g] # "SHUT"
        BY <1>1, <3>1, InCall DEF Siblings
      <4>3. n.nUnused > 0 => n.nLock > 0
        BY <2>1 DEF NodeOK
      <4>4. \A g \in Files : Owner[g] = p /\ Strong(g)' => g = f
        BY <2>4, <3>6
      <4>. QED BY <2>1, <2>9, <2>10, <2>11, <2>12, <3>3, <4>1, <4>2, <4>3, <4>4
               DEF NodeOK, NONE, SHARED, EXCLUSIVE
    <3>8. RangeOK(p)'
      BY <2>4, <2>8, <2>10, <3>1, <3>3 DEF RangeOK
    <3>9. FileOK(f)'
      BY <2>1, <3>1 DEF FileOK, Strong
    <3>10. CallOK(f)'
      <4>1. op'[p].at = "last" /\ Request(f)' = NONE /\ phase'[f] = phase[f] /\ lock'[f] = lock[f]
        BY <2>14, <3>1, <3>2
      <4>. QED BY <2>3, <2>9, <2>10, <2>14, <4>1 DEF CallOK
    <3>11. TornOK'
      <4>1. phase[f] \in {"LEAVE", "ERROR", "CLOSING"}
        BY <2>3, <2>14, WhoDrops
      <4>. QED BY <2>2, <2>8, <2>13, <3>1, <3>5, <4>1, TornEvidence DEF SHARED
    <3>. QED BY <2>7, <3>2, <3>4, <3>5, <3>7, <3>8, <3>9, <3>10, <3>11, LocalKeeps
  <2>15. CASE Request(f) # NONE
    <3>1. Return(f) /\ Unlocked(f, TRUE) /\ lock' = [lock EXCEPT ![f] = SHARED]
      BY <1>3, <2>15
    <3>2. phase[f] \in {"GONE", "PLAYED", "DONE"} /\ Unlocking[phase[f]] = SHARED
      BY <2>3, <2>15, LevelTables
    <3>3. /\ op' \in [Procs -> {Idle} \cup [file : {{g} : g \in Files}, want : NONE..EXCLUSIVE, at : Steps]]
          /\ op'[p] = Idle /\ ~Mine(f)' /\ CallsKept(f) /\ OpOK(p)'
          /\ \A q \in Procs \ {p} : op'[q] = op[q]
      BY <1>1, <3>1, ReturnEffect
    <3>4. /\ eLock' \in [Files -> NONE..UNKNOWN] /\ phase' \in [Files -> Phases]
          /\ \A g \in Files \ {f} : eLock'[g] = eLock[g] /\ phase'[g] = phase[g]
          /\ eLock'[f] = SHARED /\ phase'[f] = "READER"
      <4>1. /\ eLock' \in [Files -> NONE..UNKNOWN] /\ phase' \in [Files -> Phases]
            /\ \A g \in Files \ {f} : eLock'[g] = eLock[g] /\ phase'[g] = phase[g]
            /\ eLock'[f] = IF phase[f] = "CLOSING" THEN NONE
                           ELSE IF phase[f] = "ERROR" /\ ~TRUE THEN UNKNOWN
                           ELSE IF eLock[f] = UNKNOWN THEN UNKNOWN ELSE Unlocking[phase[f]]
            /\ phase'[f] = IF phase[f] = "CLOSING" THEN "TEST"
                           ELSE IF phase[f] \in {"LEAVE", "ERROR"} THEN "OPEN"
                           ELSE IF TRUE \/ phase[f] = "GONE" THEN "READER" ELSE "ERROR"
        BY <2>3, <3>1, UnlockedEffect
      <4>2. eLock[f] # UNKNOWN
        BY <2>1, <3>2 DEF FileOK, RESERVED, EXCLUSIVE, UNKNOWN
      <4>. QED BY <3>2, <4>1, <4>2
    <3>5. /\ lock' \in [Files -> NONE..EXCLUSIVE] /\ lock'[f] = SHARED
          /\ \A g \in Files \ {f} : lock'[g] = lock[g]
      BY <2>1, <3>1 DEF TypeOK, NONE, SHARED, EXCLUSIVE
    <3>6. TypeOK'
      BY <2>1, <2>2, <2>6, <2>9, <3>3, <3>4, <3>5 DEF TypeOK
    <3>7. Local(f)
      BY <2>1, <2>6, <2>9, <3>3, <3>4, <3>5 DEF Local
    <3>8. \A g \in Files : Owner[g] = p => ~Strong(g)' /\ lock'[g] \notin {RESERVED, PENDING, EXCLUSIVE}
      BY <2>4, <3>5 DEF Strong, SHARED, RESERVED, PENDING, EXCLUSIVE
    <3>9. NodeOK(p)'
      <4>1. Readers(p)' = Readers(p)
        BY <2>10, <3>5, <3>7, ReadersChange DEF SHARED
      <4>2. Siblings(p)' # {} /\ \A g \in Files : Owner[g] = p => phase'[g] # "SHUT"
        BY <1>1, <3>4, InCall DEF Siblings
      <4>3. n.nUnused > 0 => n.nLock > 0
        BY <2>1 DEF NodeOK
      <4>. QED BY <2>1, <2>9, <2>10, <2>11, <2>12, <3>8, <4>1, <4>2, <4>3
               DEF NodeOK, NONE, SHARED, EXCLUSIVE
    <3>10. RangeOK(p)'
      BY <2>8, <2>10, <3>8 DEF RangeOK
    <3>11. FileOK(f)'
      BY <3>4, <3>5 DEF FileOK, NONE, SHARED, RESERVED, PENDING, EXCLUSIVE, UNKNOWN
    <3>12. TornOK'
      <4>1. ~torn
        BY <3>2 DEF IInv, TornOK
      <4>. QED BY <2>2, <3>4, <3>7, <4>1, TornEvidence
    <3>. QED BY <2>7, <3>3, <3>6, <3>7, <3>9, <3>10, <3>11, <3>12, LocalKeeps
  <2>. QED BY <2>14, <2>15
<1>. QED BY <1>1, <1>2, <1>3 DEF Release

\* The connection leaves the readers of its process; the last one takes the
\* locks of the system with it.
LEMMA LastKeeps == ASSUME IInv, NEW f \in Files, Last(f) PROVE IInv'
<1> DEFINE p == Owner[f]
           n == inode[p]
           m == [nShared |-> n.nShared - 1, nLock |-> n.nLock - 1,
                 eFileLock |-> IF LastReader(n) THEN NONE ELSE n.eFileLock,
                 nUnused |-> IF n.nLock = 1 THEN 0 ELSE n.nUnused]
<1>1. /\ Mine(f) /\ op[p].at = "last" /\ Return(f) /\ lock' = [lock EXCEPT ![f] = NONE]
      /\ inode' = [inode EXCEPT ![p] = m] /\ journal' = journal /\ torn' = torn
      /\ Fault \/ NoFault
      /\ \E ok \in BOOLEAN : Unlocked(f, ok)
      /\ CloseFd(p) \/ posix' = posix
      /\ ~LastReader(n) /\ ~Deferred(n) => posix' = posix
  BY DEF Last, At, fileVars
<1>2. /\ p \in Procs /\ FileOK(f) /\ NodeOK(p) /\ RangeOK(p) /\ CallOK(f) /\ TypeOK
      /\ lock[f] \in 0..4 /\ eLock[f] \in 0..5
      /\ n \in [nShared : Nat, nLock : Nat, eFileLock : 0..4, nUnused : Nat]
  BY <1>1, TypeOf DEF IInv, Node
<1>3. /\ phase[f] \in DOMAIN Unlocking /\ Request(f) = Unlocking[phase[f]] /\ Request(f) = NONE
      /\ lock[f] >= SHARED /\ (Strong(f) => n.eFileLock = SHARED)
  BY <1>1, <1>2 DEF CallOK
<1>4. phase[f] \in {"LEAVE", "ERROR", "CLOSING"}
  BY <1>3, WhoDrops
<1>5. n.nShared >= 1 /\ n.nLock = n.nShared /\ n.eFileLock # NONE
  <2>1. n.nShared >= 1
    BY <1>2, <1>3, ReaderCounts DEF Node
  <2>. QED BY <1>2, <2>1 DEF NodeOK
<1>6. LastReader(n) \/ posix' = posix
  BY <1>1, <1>5 DEF LastReader, Deferred
<1>7. /\ inode' \in [Procs -> [nShared : Nat, nLock : Nat, eFileLock : NONE..EXCLUSIVE, nUnused : Nat]]
      /\ inode'[p] = m
      /\ \A q \in Procs \ {p} : inode'[q] = inode[q]
  <2>1. m \in [nShared : Nat, nLock : Nat, eFileLock : NONE..EXCLUSIVE, nUnused : Nat]
    BY <1>2, <1>5 DEF NONE, EXCLUSIVE
  <2> HIDE DEF m
  <2>. QED BY <1>1, <1>2, <2>1 DEF TypeOK
<1>8. /\ op' \in [Procs -> {Idle} \cup [file : {{g} : g \in Files}, want : NONE..EXCLUSIVE, at : Steps]]
      /\ op'[p] = Idle /\ ~Mine(f)' /\ CallsKept(f) /\ OpOK(p)' /\ ~At(f, "release")
      /\ \A q \in Procs \ {p} : op'[q] = op[q]
      /\ \A g \in Files \ {f} : Owner[g] = p => ~AtLast(g) /\ ~At(g, "release")
      /\ \A g \in Files : Owner[g] = p => ~AtLast(g)' /\ ~At(g, "release")'
  BY <1>1, ReturnEffect DEF At
<1>9. /\ posix' \in [Ranges -> [Procs -> Modes]]
      /\ \A b \in Ranges, q \in Procs :
            posix'[b][q] = posix[b][q] \/ (LastReader(n) /\ q = p /\ posix'[b][q] = "none")
  <2>1. CASE CloseFd(p)
    BY <1>2, <1>6, <2>1, CloseFdEffect DEF TypeOK
  <2>2. CASE posix' = posix
    BY <1>2, <2>2 DEF TypeOK
  <2>. QED BY <1>1, <2>1, <2>2
<1>10. Compatible'
  BY <1>9 DEF IInv, Compatible
<1>11. /\ eLock' \in [Files -> NONE..UNKNOWN] /\ phase' \in [Files -> Phases]
       /\ \A g \in Files \ {f} : eLock'[g] = eLock[g] /\ phase'[g] = phase[g]
       /\ \/ phase'[f] = "TEST" /\ eLock'[f] = NONE
          \/ phase'[f] = "OPEN" /\ eLock'[f] \in {NONE, UNKNOWN}
  <2>1. PICK ok \in BOOLEAN : Unlocked(f, ok)
    BY <1>1
  <2>2. /\ eLock' \in [Files -> NONE..UNKNOWN] /\ phase' \in [Files -> Phases]
        /\ \A g \in Files \ {f} : eLock'[g] = eLock[g] /\ phase'[g] = phase[g]
        /\ eLock'[f] = IF phase[f] = "CLOSING" THEN NONE
                       ELSE IF phase[f] = "ERROR" /\ ~ok THEN UNKNOWN
                       ELSE IF eLock[f] = UNKNOWN THEN UNKNOWN ELSE Unlocking[phase[f]]
        /\ phase'[f] = IF phase[f] = "CLOSING" THEN "TEST"
                       ELSE IF phase[f] \in {"LEAVE", "ERROR"} THEN "OPEN"
                       ELSE IF ok \/ phase[f] = "GONE" THEN "READER" ELSE "ERROR"
    BY <1>3, <2>1, UnlockedEffect
  <2>. QED BY <1>3, <1>4, <2>2
<1>12. /\ lock' \in [Files -> NONE..EXCLUSIVE] /\ lock'[f] = NONE
       /\ \A g \in Files \ {f} : lock'[g] = lock[g]
  BY <1>1, <1>2 DEF TypeOK, NONE, EXCLUSIVE
<1>13. TypeOK'
  BY <1>1, <1>2, <1>7, <1>8, <1>9, <1>11, <1>12, FaultType DEF TypeOK
<1>14. Local(f)
  BY <1>2, <1>7, <1>8, <1>9, <1>11, <1>12 DEF Local
<1>15. /\ ~Strong(f)'
       /\ \A g \in Files \ {f} : Strong(g)' = Strong(g) /\ HalfUnlocked(g)' = HalfUnlocked(g)
  BY <1>11, <1>12 DEF Strong, HalfUnlocked, NONE, SHARED
\* As long as others read, the strongest lock of the process is theirs.
<1>16. ASSUME NEW g \in Files \ {f}, Owner[g] = p, lock[g] >= SHARED
       PROVE  ~LastReader(n)
  BY <1>2, <1>3, <1>16, ReaderCounts DEF LastReader, Node
<1>17. NodeOK(p)'
  <2>1. Cardinality(Readers(p)') = Cardinality(Readers(p)) - 1 /\ Cardinality(Readers(p)) \in Nat
    BY <1>3, <1>12, <1>14, ReadersChange, ReadersFinite DEF NONE, SHARED
  <2>2. Orphaned(p)' => Orphaned(p)
    <3> SUFFICES ASSUME Orphaned(p)' PROVE Orphaned(p)
      OBVIOUS
    <3>1. m.eFileLock > SHARED /\ \A g \in Files : Owner[g] = p => ~Strong(g)'
      BY <1>7 DEF Orphaned
    <3>2. n.eFileLock > SHARED
      BY <3>1 DEF NONE, SHARED
    <3>3. ~Strong(f)
      BY <1>3, <3>2 DEF SHARED
    <3>. QED BY <1>15, <3>1, <3>2, <3>3 DEF Orphaned
  <2>3. n.nShared - 1 >= Cardinality(Readers(p)') + (IF Orphaned(p)' THEN 1 ELSE 0)
    <3>1. n.nShared >= Cardinality(Readers(p)) + (IF Orphaned(p) THEN 1 ELSE 0)
      BY <1>2 DEF NodeOK
    <3>. QED BY <1>2, <2>1, <2>2, <3>1
  <2>4. Siblings(p)' # {} /\ \A g \in Files : Owner[g] = p => phase'[g] # "SHUT"
    BY <1>1, <1>11, InCall DEF Siblings
  <2>5. /\ m.nShared = 0 <=> m.eFileLock = NONE
        /\ m.eFileLock = EXCLUSIVE => m.nShared = 1
        /\ m.nUnused > 0 => m.nLock > 0
    BY <1>2, <1>5 DEF NodeOK, LastReader, NONE, EXCLUSIVE
  <2>6. \A g \in Files : Owner[g] = p /\ Strong(g)' => m.eFileLock = lock'[g]
    <3> SUFFICES ASSUME NEW g \in Files, Owner[g] = p, Strong(g)' PROVE m.eFileLock = lock'[g]
      OBVIOUS
    <3>1. g # f /\ Strong(g) /\ lock'[g] = lock[g]
      BY <1>12, <1>15
    <3>2. n.eFileLock = lock[g]
      BY <1>2, <1>8, <3>1 DEF NodeOK
    <3>3. lock[g] >= SHARED
      BY <1>2, <3>1, <3>2 DEF Strong, SHARED
    <3>. QED BY <1>16, <3>1, <3>2, <3>3
  <2>7. \A g, h \in Files : Owner[g] = p /\ Owner[h] = p /\ Strong(g)' /\ Strong(h)' => g = h
    BY <1>2, <1>15 DEF NodeOK
  <2>8. m.nShared = n.nShared - 1 /\ m.nLock = m.nShared
    BY <1>5
  <2> HIDE DEF m
  <2>. QED BY <1>7, <2>3, <2>4, <2>5, <2>6, <2>7, <2>8 DEF NodeOK
<1>18. RangeOK(p)'
  <2>1. CASE posix' = posix
    <3>1. SharedRange(p)' = SharedRange(p) /\ ReservedByte(p)' = ReservedByte(p)
      BY <2>1 DEF SharedRange, ReservedByte
    <3>2. m.nShared > 0 => n.nShared > 0
      BY <1>2
    <3> HIDE DEF m
    <3>. QED BY <1>2, <1>7, <1>8, <1>12, <1>15, <3>1, <3>2 DEF RangeOK, NONE, RESERVED, PENDING, EXCLUSIVE
  <2>2. CASE CloseFd(p) /\ LastReader(n)
    <3>1. SharedRange(p)' = "none" /\ ReservedByte(p)' = "none"
      BY <1>2, <2>2, CloseFdEffect, RangeNames DEF SharedRange, ReservedByte
    <3>2. m.nShared = 0
      BY <2>2 DEF LastReader
    <3>3. \A g \in Files : Owner[g] = p => lock'[g] \notin {RESERVED, PENDING, EXCLUSIVE}
      BY <1>12, <1>16, <2>2 DEF NONE, SHARED, RESERVED, PENDING, EXCLUSIVE
    <3> HIDE DEF m
    <3>. QED BY <1>7, <3>1, <3>2, <3>3 DEF RangeOK
  <2>. QED BY <1>1, <1>6, <2>1, <2>2
<1>19. FileOK(f)'
  BY <1>11, <1>12 DEF FileOK, NONE, SHARED, RESERVED, PENDING, EXCLUSIVE, UNKNOWN
<1>20. TornOK'
  <2>1. n.eFileLock # EXCLUSIVE
    <3> SUFFICES ASSUME n.eFileLock = EXCLUSIVE PROVE FALSE
      OBVIOUS
    <3>1. n.nShared = 1 /\ ~Strong(f)
      BY <1>2, <1>3 DEF NodeOK, SHARED, EXCLUSIVE
    <3>2. ~Orphaned(p)
      BY <1>2, <1>3, <3>1, ReaderCounts DEF Node
    <3>3. PICK g \in Files : Owner[g] = p /\ Strong(g)
      BY <3>2 DEF Orphaned, SHARED, EXCLUSIVE
    <3>4. g # f /\ lock[g] >= SHARED
      BY <3>1, <3>3, TypeOf DEF IInv, Strong, SHARED
    <3>. QED BY <1>16, <3>1, <3>3, <3>4 DEF LastReader
  <2>2. torn => ~(n.eFileLock > SHARED) /\ ReservedByte(p) # "wr"
    BY <1>2, <2>1 DEF IInv, TornOK
  <2>3. ~(n.eFileLock > SHARED) => ~(Node(f).eFileLock' > SHARED)
    BY <1>7 DEF Node, NONE, SHARED
  <2>4. ReservedByte(p)' = ReservedByte(p) \/ ReservedByte(p)' = "none"
    BY <1>2, <1>9, RangeNames DEF ReservedByte
  <2>. QED BY <1>1, <1>11, <1>14, <2>2, <2>3, <2>4, TornEvidence
<1>. QED BY <1>8, <1>10, <1>13, <1>14, <1>17, <1>18, <1>19, <1>20, LocalKeeps

\* The process dies: all of its connections start again.
LEMMA CrashKeeps == ASSUME IInv, NEW p \in Procs, Crash(p) PROVE IInv'
<1> DEFINE dead == Siblings(p)
<1>1. /\ lock' = [f \in Files |-> IF f \in dead THEN NONE ELSE lock[f]]
      /\ eLock' = [f \in Files |-> IF f \in dead THEN NONE ELSE eLock[f]]
      /\ phase' = [f \in Files |-> IF f \in dead THEN "CLOSED" ELSE phase[f]]
      /\ inode' = [inode EXCEPT ![p] = FreshInode]
      /\ op' = [op EXCEPT ![p] = Idle]
      /\ CloseFd(p) /\ journal' = journal /\ torn' = torn /\ Fault
  BY DEF Crash, fileVars
<1>2. TypeOK
  BY DEF IInv
<1>3. /\ posix' \in [Ranges -> [Procs -> Modes]]
      /\ \A b \in Ranges, q \in Procs : posix'[b][q] = IF q = p THEN "none" ELSE posix[b][q]
  BY <1>1, <1>2, CloseFdEffect
<1>4. /\ lock' \in [Files -> NONE..EXCLUSIVE] /\ eLock' \in [Files -> NONE..UNKNOWN]
      /\ phase' \in [Files -> Phases]
  BY <1>1, <1>2, PhaseNames DEF TypeOK, NONE, EXCLUSIVE, UNKNOWN
<1>5. /\ inode' \in [Procs -> [nShared : Nat, nLock : Nat, eFileLock : NONE..EXCLUSIVE, nUnused : Nat]]
      /\ inode'[p] = FreshInode /\ \A q \in Procs \ {p} : inode'[q] = inode[q]
  <2>1. FreshInode \in [nShared : Nat, nLock : Nat, eFileLock : NONE..EXCLUSIVE, nUnused : Nat]
    BY DEF FreshInode, NONE, EXCLUSIVE
  <2>. QED BY <1>1, <1>2, <2>1 DEF TypeOK
<1>6. /\ op' \in [Procs -> {Idle} \cup [file : {{f} : f \in Files}, want : NONE..EXCLUSIVE, at : Steps]]
      /\ op'[p] = Idle /\ \A q \in Procs \ {p} : op'[q] = op[q]
  BY <1>1, <1>2 DEF TypeOK
<1>7. TypeOK'
  BY <1>1, <1>2, <1>3, <1>4, <1>5, <1>6, FaultType DEF TypeOK
<1>8. \A f \in Files : Owner[f] = p => lock'[f] = NONE /\ eLock'[f] = NONE /\ phase'[f] = "CLOSED"
  <2> SUFFICES ASSUME NEW f \in Files, Owner[f] = p
               PROVE  lock'[f] = NONE /\ eLock'[f] = NONE /\ phase'[f] = "CLOSED"
    OBVIOUS
  <2>1. CASE f \in dead
    BY <1>1, <2>1
  <2>2. CASE f \notin dead
    <3>1. phase[f] = "CLOSED" /\ FileOK(f)
      BY <2>2 DEF Siblings, IInv
    <3>. QED BY <1>1, <2>2, <3>1 DEF FileOK
  <2>. QED BY <2>1, <2>2
<1>9. \A f \in Files : Owner[f] # p => lock'[f] = lock[f] /\ eLock'[f] = eLock[f] /\ phase'[f] = phase[f]
  BY <1>1 DEF Siblings
<1>10. SharedRange(p)' = "none" /\ ReservedByte(p)' = "none"
  BY <1>3, RangeNames DEF SharedRange, ReservedByte
<1>11. OpOK(p)' /\ NodeOK(p)' /\ RangeOK(p)'
  <2>1. OpOK(p)'
    BY <1>6 DEF OpOK
  <2>2. NodeOK(p)'
    <3>1. Readers(p)' = {} /\ ~Orphaned(p)'
      BY <1>5, <1>8 DEF Readers, Orphaned, NONE, SHARED, FreshInode
    <3>2. Cardinality(Readers(p)') = 0
      BY <3>1, FS_EmptySet
    <3>. QED BY <1>5, <1>8, <3>1, <3>2 DEF NodeOK, FreshInode, Strong, NONE, SHARED, EXCLUSIVE
  <2>3. RangeOK(p)'
    BY <1>5, <1>8, <1>10 DEF RangeOK, FreshInode, NONE, RESERVED, PENDING, EXCLUSIVE
  <2>. QED BY <2>1, <2>2, <2>3
<1>12. \A f \in Files : Owner[f] = p => FileOK(f)' /\ ~Mine(f)'
  BY <1>6, <1>8 DEF FileOK, Mine, Idle, Strong, NONE, SHARED, RESERVED, EXCLUSIVE
\* The other processes, as after a step of a connection of p.
<1>13. ASSUME NEW q \in Procs, q # p PROVE OpOK(q)' /\ NodeOK(q)' /\ RangeOK(q)'
  <2>1. /\ inode'[q] = inode[q] /\ op'[q] = op[q]
        /\ \A g \in Files : Owner[g] = q => lock'[g] = lock[g] /\ eLock'[g] = eLock[g] /\ phase'[g] = phase[g]
        /\ OpOK(q) /\ NodeOK(q) /\ RangeOK(q)
    BY <1>5, <1>6, <1>9, <1>13 DEF IInv
  <2>2. OpOK(q)'
    BY <2>1 DEF OpOK, Idle
  <2>3. \A g \in Files : Owner[g] = q =>
           /\ Strong(g)' = Strong(g) /\ Mine(g)' = Mine(g) /\ Request(g)' = Request(g)
           /\ AtLast(g)' = AtLast(g) /\ At(g, "release")' = At(g, "release")
           /\ HalfUnlocked(g)' = HalfUnlocked(g)
    BY <2>1 DEF Strong, Mine, Request, AtLast, At, HalfUnlocked
  <2>4. /\ Readers(q)' = Readers(q) /\ Siblings(q)' = Siblings(q) /\ Orphaned(q)' = Orphaned(q)
    BY <2>1, <2>3 DEF Readers, Siblings, Orphaned
  <2>5. NodeOK(q)'
    BY <2>1, <2>3, <2>4 DEF NodeOK, FreshInode, Idle
  <2>6. SharedRange(q)' = SharedRange(q) /\ ReservedByte(q)' = ReservedByte(q)
    BY <1>3, <1>13, RangeNames DEF SharedRange, ReservedByte
  <2>7. RangeOK(q)'
    BY <2>1, <2>3, <2>6 DEF RangeOK
  <2>. QED BY <2>2, <2>5, <2>7
<1>14. ASSUME NEW g \in Files, Owner[g] # p PROVE FileOK(g)' /\ (Mine(g)' => CallOK(g)')
  <2>1. Owner[g] \in Procs /\ lock'[g] = lock[g] /\ eLock'[g] = eLock[g] /\ phase'[g] = phase[g]
    BY <1>2, <1>9, <1>14, TypeOf
  <2>2. op'[Owner[g]] = op[Owner[g]] /\ inode'[Owner[g]] = inode[Owner[g]]
    BY <1>5, <1>6, <1>14, <2>1
  <2>3. SharedRange(Owner[g])' = SharedRange(Owner[g])
    BY <1>3, <1>14, <2>1, RangeNames DEF SharedRange
  <2>4. FileOK(g)'
    BY <2>1 DEF IInv, FileOK, Strong
  <2>5. Mine(g)' = Mine(g) /\ Request(g)' = Request(g)
    BY <2>2 DEF Mine, Request
  <2>6. ASSUME CallOK(g), Mine(g) PROVE CallOK(g)'
    BY <2>1, <2>2, <2>3, <2>5, <2>6 DEF CallOK, Strong
  <2>. QED BY <2>4, <2>5, <2>6 DEF IInv
<1>15. Compatible'
  BY <1>3 DEF IInv, Compatible
<1>16. TornOK'
  <2>1. ASSUME torn, NEW q \in Procs,
               (inode[q].eFileLock)' > SHARED \/ ReservedByte(q)' = "wr"
        PROVE  (inode[q].eFileLock)' = EXCLUSIVE /\ SharedRange(q)' = "wr"
    <3>1. q # p
      BY <1>5, <1>10, <2>1 DEF FreshInode, NONE, SHARED
    <3>2. inode'[q] = inode[q] /\ SharedRange(q)' = SharedRange(q) /\ ReservedByte(q)' = ReservedByte(q)
      BY <1>3, <1>5, <3>1, RangeNames DEF SharedRange, ReservedByte
    <3>. QED BY <2>1, <3>2 DEF IInv, TornOK
  <2>2. \A f \in Files : /\ phase'[f] \in {phase[f], "CLOSED"}
                         /\ phase'[f] = "CLOSED" \/ eLock'[f] = eLock[f]
    BY <1>8, <1>9
  <2>. QED BY <1>1, <2>1, <2>2 DEF IInv, TornOK
<1>17. \A q \in Procs : OpOK(q)' /\ NodeOK(q)' /\ RangeOK(q)'
  BY <1>11, <1>13
<1>18. \A f \in Files : FileOK(f)' /\ (Mine(f)' => CallOK(f)')
  BY <1>12, <1>14
<1>. QED BY <1>7, <1>15, <1>16, <1>17, <1>18 DEF IInv

---------------------------------------------------------------------------
(* The invariant holds.                                                    *)

\* No process has the file open.
LEMMA InitEstablishes == Init => IInv
<1> SUFFICES ASSUME Init PROVE IInv
  OBVIOUS
<1>1. /\ lock = [f \in Files |-> NONE] /\ inode = [p \in Procs |-> FreshInode]
      /\ posix = [b \in Ranges |-> [p \in Procs |-> "none"]]
      /\ op = [p \in Procs |-> Idle] /\ eLock = [f \in Files |-> NONE]
      /\ phase = [f \in Files |-> "CLOSED"] /\ journal = FALSE /\ torn = FALSE /\ faults = 0
  BY DEF Init
<1>2. TypeOK
  <2>1. FreshInode \in [nShared : Nat, nLock : Nat, eFileLock : NONE..EXCLUSIVE, nUnused : Nat]
    BY DEF FreshInode, NONE, EXCLUSIVE
  <2>2. faults \in 0..MaxFault
    BY <1>1, MaxFaultAssumption
  <2>3. lock \in [Files -> NONE..EXCLUSIVE] /\ eLock \in [Files -> NONE..UNKNOWN]
    BY <1>1 DEF NONE, EXCLUSIVE, UNKNOWN
  <2>4. posix \in [Ranges -> [Procs -> Modes]] /\ phase \in [Files -> Phases]
    BY <1>1, RangeNames, PhaseNames
  <2>5. inode \in [Procs -> [nShared : Nat, nLock : Nat, eFileLock : NONE..EXCLUSIVE, nUnused : Nat]]
    BY <1>1, <2>1
  <2>6. op \in [Procs -> {Idle} \cup [file : {{f} : f \in Files}, want : NONE..EXCLUSIVE, at : Steps]]
    BY <1>1
  <2>. QED BY <1>1, <2>2, <2>3, <2>4, <2>5, <2>6 DEF TypeOK
<1>3. \A p \in Procs : OpOK(p) /\ NodeOK(p) /\ RangeOK(p)
  <2> TAKE p \in Procs
  <2>1. inode[p] = FreshInode /\ op[p] = Idle /\ SharedRange(p) = "none" /\ ReservedByte(p) = "none"
    BY <1>1, RangeNames DEF SharedRange, ReservedByte
  <2>2. \A f \in Files : lock[f] = NONE /\ phase[f] = "CLOSED"
    BY <1>1
  <2>3. Readers(p) = {} /\ ~Orphaned(p)
    BY <2>1, <2>2 DEF Readers, Orphaned, NONE, SHARED, FreshInode
  <2>4. Cardinality(Readers(p)) = 0
    BY <2>3, FS_EmptySet
  <2>5. NodeOK(p)
    BY <2>1, <2>2, <2>3, <2>4 DEF NodeOK, FreshInode, Strong, NONE, SHARED, EXCLUSIVE
  <2>6. RangeOK(p)
    BY <2>1, <2>2 DEF RangeOK, FreshInode, NONE, RESERVED, PENDING, EXCLUSIVE
  <2>. QED BY <2>1, <2>5, <2>6 DEF OpOK
<1>4. \A f \in Files : FileOK(f) /\ ~Mine(f)
  BY <1>1, OwnerAssumption DEF FileOK, Mine, Idle, Strong, NONE, SHARED, RESERVED, EXCLUSIVE
<1>5. Compatible /\ TornOK
  BY <1>1 DEF Compatible, TornOK
<1>. QED BY <1>2, <1>3, <1>4, <1>5 DEF IInv

\* Nothing else changes the state.
LEMMA StutterKeeps == ASSUME IInv, UNCHANGED vars PROVE IInv'
<1>1. /\ lock' = lock /\ inode' = inode /\ posix' = posix /\ op' = op /\ eLock' = eLock
      /\ phase' = phase /\ journal' = journal /\ torn' = torn /\ faults' = faults
  BY DEF vars, osVars, pagerVars, fileVars
<1>2. TypeOK' /\ Compatible'
  BY <1>1 DEF IInv, TypeOK, Compatible
<1>3. \A f \in Files : /\ Strong(f)' = Strong(f) /\ Mine(f)' = Mine(f) /\ Request(f)' = Request(f)
                       /\ AtLast(f)' = AtLast(f) /\ At(f, "release")' = At(f, "release")
                       /\ HalfUnlocked(f)' = HalfUnlocked(f)
  BY <1>1 DEF Strong, Mine, Request, AtLast, At, HalfUnlocked
<1>4. \A p \in Procs : OpOK(p)' /\ NodeOK(p)' /\ RangeOK(p)'
  <2> TAKE p \in Procs
  <2>1. /\ Readers(p)' = Readers(p) /\ Siblings(p)' = Siblings(p) /\ Orphaned(p)' = Orphaned(p)
        /\ SharedRange(p)' = SharedRange(p) /\ ReservedByte(p)' = ReservedByte(p)
        /\ OpOK(p) /\ NodeOK(p) /\ RangeOK(p)
    BY <1>1, <1>3 DEF Readers, Siblings, Orphaned, SharedRange, ReservedByte, IInv
  <2>2. OpOK(p)'
    BY <1>1, <2>1 DEF OpOK, Idle
  <2>3. NodeOK(p)'
    BY <1>1, <1>3, <2>1 DEF NodeOK, FreshInode, Idle
  <2>4. RangeOK(p)'
    BY <1>1, <1>3, <2>1 DEF RangeOK
  <2>. QED BY <2>2, <2>3, <2>4
<1>5. \A f \in Files : FileOK(f)' /\ (Mine(f)' => CallOK(f)')
  <2> TAKE f \in Files
  <2>1. FileOK(f)'
    BY <1>1 DEF IInv, FileOK, Strong
  <2>2. SharedRange(Owner[f])' = SharedRange(Owner[f])
    BY <1>1 DEF SharedRange
  <2>3. CallOK(f) => CallOK(f)'
    BY <1>1, <1>3, <2>2 DEF CallOK
  <2>. QED BY <1>3, <2>1, <2>3 DEF IInv
<1>6. TornOK'
  BY <1>1 DEF IInv, TornOK, SharedRange, ReservedByte
<1>. QED BY <1>2, <1>4, <1>5, <1>6 DEF IInv

\* Every step preserves the invariant.
LEMMA NextKeeps ==
  ASSUME IInv, CloseRaces = FALSE, IgnoredErrors = FALSE, FstatFails = FALSE,
         [Next]_vars, TriesOnce
  PROVE  IInv'
<1>1. ASSUME NEW f \in Files, OpenClose(f) PROVE IInv'
  BY <1>1, OpenKeeps, OpenFailsKeeps, StartCloseKeeps, CloseTestKeeps, CloseDoneKeeps DEF OpenClose
<1>2. ASSUME NEW f \in Files, Lock(f) PROVE IInv'
  BY <1>2, AlreadyHeldKeeps, RefusedLocallyKeeps, ShareLocallyKeeps, BeginLockKeeps,
     TakePendingKeeps, TakeSharedKeeps, DropPendingKeeps, TakeRangeKeeps DEF Lock
<1>3. ASSUME NEW f \in Files, Unlock(f) PROVE IInv'
  <2>1. ~FailsTwice(f)
    BY DEF TriesOnce
  <2>. QED BY <1>3, <2>1, AlreadyUnlockedKeeps, BeginUnlockKeeps, DemoteKeeps, ReleaseKeeps,
              LastKeeps DEF Unlock
<1>4. ASSUME NEW f \in Files, PagerStep(f) PROVE IInv'
  BY <1>4, AccessKeeps, CheckReservedKeeps, SharedLockFailsKeeps, PlaybackKeeps, OpenJournalKeeps,
     ModifyKeeps, EndTransactionKeeps, WriteFailsKeeps, StopReadingKeeps DEF PagerStep
<1>5. CASE UNCHANGED vars
  BY <1>5, StutterKeeps
<1>. QED BY <1>1, <1>2, <1>3, <1>4, <1>5, CrashKeeps DEF Next

---------------------------------------------------------------------------
(* What a step does to the locks that the pagers rely on.                  *)

\* A step of f: nobody else relies on anything else than before, f comes to
\* RESERVED from SHARED only, and posixUnlock leaves a range half unlocked
\* only when a system call fails.
BeliefStep(f) ==
    /\ \A g \in Files \ {f} : Entitled(g)' = Entitled(g) /\ HalfUnlocked(g)' = HalfUnlocked(g)
    /\ Entitled(f)' = RESERVED => Entitled(f) \in {SHARED, RESERVED}
    /\ HalfUnlocked(f)' => HalfUnlocked(f) \/ faults' >= 1
    /\ faults' >= faults

\* What a pager relies on is at most what it has, and what it believes.
LEMMA EntitledType ==
  ASSUME IInv, NEW f \in Files
  PROVE  /\ Entitled(f) \in {NONE, SHARED, RESERVED, EXCLUSIVE}
         /\ Entitled(f) >= SHARED => lock[f] >= SHARED
         /\ Entitled(f) \in {RESERVED, EXCLUSIVE} => eLock[f] = Entitled(f) /\ ~Unlocks(f)
<1>1. lock[f] \in 0..4 /\ eLock[f] \in 0..5 /\ phase[f] \in Phases /\ FileOK(f)
  BY TypeOf DEF IInv
<1>2. Unlocks(f) => Request(f) \in {NONE, SHARED}
  <2>1. ASSUME Unlocks(f) PROVE Request(f) \in {NONE, SHARED}
    <3>1. CallOK(f)
      BY <2>1 DEF IInv, Unlocks
    <3>2. phase[f] \in DOMAIN Unlocking /\ Request(f) = Unlocking[phase[f]]
      BY <2>1, <3>1 DEF CallOK, Unlocks
    <3>. QED BY <3>2, WhoDrops
  <2>. QED BY <2>1
<1>3. eLock[f] \in {SHARED, RESERVED, EXCLUSIVE} => lock[f] >= SHARED
  BY <1>1, PhaseNames DEF FileOK, Strong, NONE, SHARED, RESERVED, PENDING, EXCLUSIVE, UNKNOWN
<1>4. eLock[f] \in {NONE, SHARED, RESERVED, EXCLUSIVE, UNKNOWN}
  BY <1>1, PhaseNames DEF FileOK, Strong, NONE, SHARED, RESERVED, PENDING, EXCLUSIVE, UNKNOWN
<1>. QED BY <1>2, <1>3, <1>4 DEF Entitled, NONE, SHARED, RESERVED, EXCLUSIVE, UNKNOWN

\* The same in every state that the invariant holds in.
LEMMA EntitledAlways ==
  IInv => \A f \in Files :
            /\ Entitled(f) \in {NONE, SHARED, RESERVED, EXCLUSIVE}
            /\ Entitled(f) >= SHARED => lock[f] >= SHARED
            /\ Entitled(f) \in {RESERVED, EXCLUSIVE} => eLock[f] = Entitled(f) /\ ~Unlocks(f)
  BY EntitledType

\* And after a step.
LEMMA EntitledAfter ==
  (IInv => \A f \in Files :
             /\ Entitled(f) \in {NONE, SHARED, RESERVED, EXCLUSIVE}
             /\ Entitled(f) >= SHARED => lock[f] >= SHARED
             /\ Entitled(f) \in {RESERVED, EXCLUSIVE} => eLock[f] = Entitled(f) /\ ~Unlocks(f))'
  BY EntitledAlways, PTL

\* What the others rely on depends on their own calls.
LEMMA OthersRely ==
  ASSUME IInv, NEW f \in Files,
         \A g \in Files \ {f} : eLock'[g] = eLock[g] /\ phase'[g] = phase[g],
         \A q \in Procs \ {Owner[f]} : op'[q] = op[q],
         \/ op'[Owner[f]] = op[Owner[f]]
         \/ op'[Owner[f]].file \in {{}, {f}} /\ (Mine(f) \/ op[Owner[f]] = Idle)
  PROVE  \A g \in Files \ {f} : Entitled(g)' = Entitled(g) /\ HalfUnlocked(g)' = HalfUnlocked(g)
<1> TAKE g \in Files \ {f}
<1>1. eLock'[g] = eLock[g] /\ phase'[g] = phase[g] /\ Owner[g] \in Procs
  BY TypeOf DEF IInv
<1>2. \/ op'[Owner[g]] = op[Owner[g]]
      \/ ~Mine(g) /\ ~Mine(g)'
  BY <1>1 DEF Mine, Idle
<1>3. Unlocks(g)' = Unlocks(g) /\ (Unlocks(g) => Request(g)' = Request(g))
  BY <1>2 DEF Unlocks, Mine, Request
<1>. QED BY <1>1, <1>3 DEF Entitled, HalfUnlocked

\* The failures are counted.
LEMMA FaultGrows ==
  ASSUME IInv, Fault \/ NoFault
  PROVE  faults' >= faults /\ (Fault => faults' >= 1) /\ faults \in Nat
  BY MaxFaultAssumption DEF IInv, TypeOK, Fault, NoFault

\* Steps that change neither a call nor a belief.
LEMMA QuietStep ==
  ASSUME IInv, NEW f \in Files, UNCHANGED <<op, eLock>>, Fault \/ NoFault,
         \A g \in Files \ {f} : phase'[g] = phase[g],
         phase'[f] = "ERROR" => phase[f] = "ERROR" \/ eLock[f] # SHARED
  PROVE  BeliefStep(f)
<1>1. \A g \in Files \ {f} : Entitled(g)' = Entitled(g) /\ HalfUnlocked(g)' = HalfUnlocked(g)
  BY OthersRely
<1>2. Entitled(f)' = Entitled(f)
  BY DEF Entitled, Unlocks, Mine, Request
<1>3. HalfUnlocked(f)' => HalfUnlocked(f)
  BY DEF HalfUnlocked
<1>. QED BY <1>1, <1>2, <1>3, FaultGrows DEF BeliefStep

\* unixOpen and unixClose.
LEMMA OpenCloseBelief == ASSUME IInv, NEW f \in Files, OpenClose(f) PROVE BeliefStep(f)
<1>1. UNCHANGED <<op, eLock>> /\ (Fault \/ NoFault)
  BY DEF OpenClose, Open, OpenFails, StartClose, CloseTest, CloseDone, osVars, pagerVars, NoFault
<1>2. \/ phase' = phase
      \/ \E to \in {"OPEN", "CLOSING", "DEFER", "SHUT", "CLOSED"} : phase' = [phase EXCEPT ![f] = to]
  BY DEF OpenClose, Open, OpenFails, StartClose, CloseTest, CloseDone, pagerVars
<1>3. /\ \A g \in Files \ {f} : phase'[g] = phase[g]
      /\ phase'[f] = "ERROR" => phase[f] = "ERROR"
  BY <1>2 DEF IInv, TypeOK
<1>. QED BY <1>1, <1>3, QuietStep

\* The pager between its calls.
LEMMA PagerBelief == ASSUME IInv, NEW f \in Files, PagerStep(f) PROVE BeliefStep(f)
<1>1. UNCHANGED <<op, eLock>> /\ (Fault \/ NoFault)
  BY DEF PagerStep, Access, CheckReserved, SharedLockFails, Playback, OpenJournal, Modify,
         EndTransaction, WriteFails, StopReading, osVars, pagerVars, NoFault
<1>2. \/ phase' = phase
      \/ \E from, to \in Phases : Moves(f, from, to) /\ (to = "ERROR" => from \in {"WRITER", "MODIFIED"} \/ eLock[f] = EXCLUSIVE)
  BY PhaseNames
     DEF PagerStep, Access, CheckReserved, SharedLockFails, Playback, OpenJournal, Modify,
         EndTransaction, WriteFails, StopReading, pagerVars
<1>3. CASE phase' = phase
  BY <1>1, <1>3, QuietStep
<1>4. ASSUME NEW from \in Phases, NEW to \in Phases, Moves(f, from, to),
             to = "ERROR" => from \in {"WRITER", "MODIFIED"} \/ eLock[f] = EXCLUSIVE
      PROVE  BeliefStep(f)
  <2>1. /\ phase[f] = from /\ phase'[f] = to
        /\ \A g \in Files \ {f} : phase'[g] = phase[g]
    BY <1>4, MoveEffect
  <2>2. to = "ERROR" => eLock[f] # SHARED
    BY <1>4, <2>1 DEF IInv, FileOK, SHARED, RESERVED, EXCLUSIVE
  <2>. QED BY <1>1, <2>1, <2>2, QuietStep
<1>. QED BY <1>2, <1>3, <1>4

\* Where the step of a call leaves the calls of the others alone.
OwnCall(f) ==
    /\ \A q \in Procs \ {Owner[f]} : op'[q] = op[q]
    /\ \/ op'[Owner[f]] = op[Owner[f]]
       \/ op'[Owner[f]].file \in {{}, {f}} /\ (Mine(f) \/ op[Owner[f]] = Idle)

\* A call of f that goes on or returns is such a step.
LEMMA CallIsOwn ==
  ASSUME IInv, NEW f \in Files, Mine(f), Return(f) \/ \E step \in Steps : GoTo(f, step)
  PROVE  OwnCall(f)
<1>1. CASE Return(f)
  BY <1>1, ReturnEffect DEF OwnCall, Idle
<1>2. ASSUME NEW step \in Steps, GoTo(f, step) PROVE OwnCall(f)
  <2>1. /\ op'[Owner[f]] = [file |-> {f}, want |-> Request(f), at |-> step]
        /\ \A q \in Procs \ {Owner[f]} : op'[q] = op[q]
    BY <1>2, GoToEffect
  <2>2. op'[Owner[f]].file = {f}
    BY <2>1
  <2>. QED BY <2>1, <2>2 DEF OwnCall
<1>. QED BY <1>1, <1>2

\* xLock is granted.
LEMMA LockedBelief ==
  ASSUME IInv, IInv', NEW f \in Files, NEW want, phase[f] \in DOMAIN Locking,
         want = Locking[phase[f]], Locked(f, want), ~Unlocks(f), OwnCall(f), Fault \/ NoFault
  PROVE  BeliefStep(f)
<1>1. /\ want \in {SHARED, RESERVED, EXCLUSIVE}
      /\ want = RESERVED => phase[f] = "READER"
      /\ phase[f] \in {"OPEN", "HOT", "READER", "WRITER", "MODIFIED"}
  BY WhoAsks, LevelTables
<1>2. /\ \A g \in Files \ {f} : eLock'[g] = eLock[g] /\ phase'[g] = phase[g]
      /\ eLock'[f] \in {want, UNKNOWN} /\ phase'[f] # "ERROR"
  BY <1>1 DEF IInv, TypeOK, Locked
<1>3. \A g \in Files \ {f} : Entitled(g)' = Entitled(g) /\ HalfUnlocked(g)' = HalfUnlocked(g)
  BY <1>2, OthersRely DEF OwnCall
<1>4. Entitled(f)' = RESERVED => Entitled(f) = SHARED
  <2> SUFFICES ASSUME Entitled(f)' = RESERVED PROVE Entitled(f) = SHARED
    OBVIOUS
  <2>1. eLock'[f] = RESERVED
    BY EntitledAfter
  <2>2. phase[f] = "READER"
    BY <1>1, <1>2, <2>1 DEF RESERVED, UNKNOWN
  <2>3. eLock[f] = SHARED
    BY <2>2 DEF IInv, FileOK
  <2>. QED BY <2>3 DEF Entitled, SHARED, UNKNOWN
<1>5. ~HalfUnlocked(f)'
  BY <1>2 DEF HalfUnlocked
<1>. QED BY <1>3, <1>4, <1>5, FaultGrows DEF BeliefStep

\* xLock begins, goes on, or is refused.
LEMMA LockingBelief ==
  ASSUME IInv, NEW f \in Files, eLock' = eLock, phase' = phase \/ NotLocked(f),
         ~Unlocks(f), ~Unlocks(f)', OwnCall(f), Fault \/ NoFault
  PROVE  BeliefStep(f)
<1>1. /\ \A g \in Files \ {f} : eLock'[g] = eLock[g] /\ phase'[g] = phase[g]
      /\ phase'[f] = "ERROR" => phase[f] = "ERROR"
  BY DEF IInv, TypeOK, NotLocked
<1>2. \A g \in Files \ {f} : Entitled(g)' = Entitled(g) /\ HalfUnlocked(g)' = HalfUnlocked(g)
  BY <1>1, OthersRely DEF OwnCall
<1>3. Entitled(f)' = Entitled(f)
  BY DEF Entitled
<1>4. HalfUnlocked(f)' => HalfUnlocked(f)
  BY <1>1 DEF HalfUnlocked
<1>. QED BY <1>2, <1>3, <1>4, FaultGrows DEF BeliefStep

\* xUnlock begins or goes on: nothing beyond what it unlocks to is relied on.
LEMMA UnlockingBelief ==
  ASSUME IInv, IInv', NEW f \in Files, eLock' = eLock, phase' = phase,
         Unlocks(f)', OwnCall(f), Fault \/ NoFault
  PROVE  BeliefStep(f)
<1>1. \A g \in Files \ {f} : Entitled(g)' = Entitled(g) /\ HalfUnlocked(g)' = HalfUnlocked(g)
  BY OthersRely DEF OwnCall
<1>2. Entitled(f)' # RESERVED
  BY EntitledAfter
<1>3. HalfUnlocked(f)' = HalfUnlocked(f)
  BY DEF HalfUnlocked
<1>. QED BY <1>1, <1>2, <1>3, FaultGrows DEF BeliefStep

\* xUnlock returns.
LEMMA UnlockedBelief ==
  ASSUME IInv, IInv', NEW f \in Files, NEW ok \in BOOLEAN, phase[f] \in DOMAIN Unlocking,
         Unlocked(f, ok), OwnCall(f), (ok /\ NoFault) \/ Fault
  PROVE  BeliefStep(f)
<1>1. /\ \A g \in Files \ {f} : eLock'[g] = eLock[g] /\ phase'[g] = phase[g]
      /\ eLock'[f] = IF phase[f] = "CLOSING" THEN NONE
                     ELSE IF phase[f] = "ERROR" /\ ~ok THEN UNKNOWN
                     ELSE IF eLock[f] = UNKNOWN THEN UNKNOWN ELSE Unlocking[phase[f]]
      /\ phase'[f] = IF phase[f] = "CLOSING" THEN "TEST"
                     ELSE IF phase[f] \in {"LEAVE", "ERROR"} THEN "OPEN"
                     ELSE IF ok \/ phase[f] = "GONE" THEN "READER" ELSE "ERROR"
  BY UnlockedEffect
<1>2. \A g \in Files \ {f} : Entitled(g)' = Entitled(g) /\ HalfUnlocked(g)' = HalfUnlocked(g)
  BY <1>1, OthersRely DEF OwnCall
<1>3. eLock'[f] # RESERVED
  BY <1>1, WhoDrops DEF NONE, SHARED, RESERVED, UNKNOWN
<1>4. Entitled(f)' # RESERVED
  BY <1>3, EntitledAfter DEF RESERVED
<1>5. HalfUnlocked(f)' => ~ok
  BY <1>1 DEF HalfUnlocked
<1>. QED BY <1>2, <1>4, <1>5, FaultGrows DEF BeliefStep

\* unixLock.
LEMMA LockBelief == ASSUME IInv, IInv', NEW f \in Files, Lock(f) PROVE BeliefStep(f)
<1>1. CASE AlreadyHeld(f) \/ ShareLocally(f)
  <2>1. PICK want : /\ Asks(f, want) /\ Locked(f, want) /\ UNCHANGED <<op, faults>>
    BY <1>1 DEF AlreadyHeld, ShareLocally, osVars
  <2>. QED BY <2>1, LockedBelief DEF Asks, Unlocks, OwnCall, NoFault
<1>2. CASE RefusedLocally(f)
  <2>1. PICK want : /\ Asks(f, want) /\ NotLocked(f) /\ UNCHANGED <<op, faults>>
    BY <1>2 DEF RefusedLocally, osVars
  <2>2. ~Unlocks(f) /\ ~Unlocks(f)'
    BY <2>1 DEF Asks, Unlocks, Mine
  <2>. QED BY <2>1, <2>2, LockingBelief DEF OwnCall, NoFault, NotLocked
<1>3. CASE BeginLock(f)
  <2>1. PICK want \in SHARED..EXCLUSIVE :
          /\ Mutex(f) /\ UNCHANGED <<eLock, phase, faults>>
          /\ op' = [op EXCEPT ![Owner[f]] =
                      [file |-> {f}, want |-> want,
                       at |-> IF \/ want = SHARED
                                 \/ want = EXCLUSIVE /\ lock[f] = RESERVED
                              THEN "pending" ELSE "range"]]
    BY <1>3 DEF BeginLock, pagerVars
  <2>2. /\ \A q \in Procs \ {Owner[f]} : op'[q] = op[q]
        /\ op[Owner[f]] = Idle /\ op'[Owner[f]].file = {f} /\ op'[Owner[f]].at \in {"pending", "range"}
    BY <2>1, TypeOf DEF IInv, TypeOK, Mutex
  <2>3. ~Unlocks(f) /\ ~Unlocks(f)'
    BY <2>2 DEF Unlocks, Mine, Idle
  <2>4. OwnCall(f)
    BY <2>2 DEF OwnCall
  <2>. QED BY <2>1, <2>3, <2>4, LockingBelief DEF NoFault
<1>4. ASSUME At(f, "pending") \/ At(f, "range") \/ At(f, "drop") \/ At(f, "refused")
      PROVE  ~Unlocks(f)
  BY <1>4 DEF At, Unlocks
<1>5. ASSUME GiveUp(f), Mine(f), ~Unlocks(f), Fault \/ NoFault PROVE BeliefStep(f)
  <2>1. Return(f) /\ NotLocked(f) /\ eLock' = eLock
    BY <1>5 DEF GiveUp, NotLocked
  <2>2. ~Unlocks(f)'
    BY <1>5, <2>1, ReturnEffect DEF Unlocks
  <2>3. OwnCall(f)
    BY <1>5, <2>1, CallIsOwn
  <2>. QED BY <1>5, <2>1, <2>2, <2>3, LockingBelief
<1>6. ASSUME NEW step \in {"range", "drop", "refused"}, GoTo(f, step), UNCHANGED pagerVars,
             Mine(f), ~Unlocks(f), Fault \/ NoFault
      PROVE  BeliefStep(f)
  <2>1. step \in Steps /\ eLock' = eLock /\ phase' = phase
    BY <1>6, StepNames DEF pagerVars
  <2>2. op'[Owner[f]] = [file |-> {f}, want |-> Request(f), at |-> step]
    BY <1>6, <2>1, GoToEffect
  <2>3. ~Unlocks(f)'
    BY <2>2 DEF Unlocks
  <2>4. OwnCall(f)
    BY <1>6, <2>1, CallIsOwn
  <2>. QED BY <1>6, <2>1, <2>3, <2>4, LockingBelief
<1>7. CASE TakePending(f)
  <2>1. Mine(f) /\ ~Unlocks(f)
    BY <1>4, <1>7 DEF TakePending, At
  <2>2. \/ GoTo(f, "range") /\ UNCHANGED pagerVars /\ NoFault
        \/ GiveUp(f) /\ (Fault \/ NoFault)
    BY <1>7 DEF TakePending, Fails, NoFault
  <2>. QED BY <1>5, <1>6, <2>1, <2>2
<1>8. CASE TakeShared(f)
  <2>1. Mine(f) /\ ~Unlocks(f)
    BY <1>4, <1>8 DEF TakeShared, At
  <2>2. /\ GoTo(f, "drop") \/ GoTo(f, "refused")
        /\ UNCHANGED pagerVars /\ (Fault \/ NoFault)
    BY <1>8 DEF TakeShared, Fails
  <2>. QED BY <1>6, <2>1, <2>2
<1>9. CASE DropPending(f)
  <2>1. /\ Mine(f) /\ ~Unlocks(f) /\ Return(f) /\ (Fault \/ NoFault)
        /\ NotLocked(f) \/ (Locked(f, SHARED) /\ At(f, "drop"))
    BY <1>4, <1>9 DEF DropPending, At, Granted
  <2>2. OwnCall(f) /\ ~Unlocks(f)'
    BY <2>1, CallIsOwn, ReturnEffect DEF Unlocks
  <2>3. CASE NotLocked(f)
    BY <2>1, <2>2, <2>3, LockingBelief DEF NotLocked
  <2>4. CASE Locked(f, SHARED) /\ At(f, "drop")
    <3>1. CallOK(f) /\ op[Owner[f]].at = "drop"
      BY <2>1, <2>4 DEF IInv, At
    <3>2. phase[f] \in DOMAIN Locking /\ SHARED = Locking[phase[f]]
      BY <3>1 DEF CallOK
    <3>. QED BY <2>1, <2>2, <2>4, <3>2, LockedBelief
  <2>. QED BY <2>1, <2>3, <2>4
<1>10. CASE TakeRange(f)
  <2>1. /\ Mine(f) /\ ~Unlocks(f) /\ op[Owner[f]].at = "range"
        /\ \/ Locked(f, Request(f)) /\ Return(f) /\ NoFault
           \/ GiveUp(f) /\ (Fault \/ NoFault)
    BY <1>4, <1>10 DEF TakeRange, At, Granted, Fails, NoFault
  <2>2. CASE GiveUp(f) /\ (Fault \/ NoFault)
    BY <1>5, <2>1, <2>2
  <2>3. CASE Locked(f, Request(f)) /\ Return(f) /\ NoFault
    <3>1. phase[f] \in DOMAIN Locking /\ Request(f) = Locking[phase[f]]
      BY <2>1 DEF IInv, CallOK
    <3>2. OwnCall(f)
      BY <2>1, <2>3, CallIsOwn
    <3>. QED BY <2>1, <2>3, <3>1, <3>2, LockedBelief
  <2>. QED BY <2>1, <2>2, <2>3
<1>. QED BY <1>1, <1>2, <1>3, <1>7, <1>8, <1>9, <1>10 DEF Lock

\* posixUnlock.
LEMMA UnlockBelief == ASSUME IInv, IInv', NEW f \in Files, Unlock(f) PROVE BeliefStep(f)
<1>1. CASE AlreadyUnlocked(f)
  <2>1. PICK to : Drops(f, to) /\ Unlocked(f, TRUE) /\ UNCHANGED <<op, faults>>
    BY <1>1 DEF AlreadyUnlocked, osVars
  <2>. QED BY <2>1, UnlockedBelief DEF Drops, OwnCall, NoFault
<1>2. CASE BeginUnlock(f)
  <2>1. PICK to \in {NONE, SHARED} :
          /\ Mutex(f) /\ UNCHANGED <<eLock, phase, faults>>
          /\ op' = [op EXCEPT ![Owner[f]] =
                      [file |-> {f}, want |-> to,
                       at |-> IF lock[f] = SHARED THEN "last"
                              ELSE IF to = SHARED THEN "demote" ELSE "release"]]
    BY <1>2 DEF BeginUnlock, pagerVars
  <2>2. /\ \A q \in Procs \ {Owner[f]} : op'[q] = op[q]
        /\ op[Owner[f]] = Idle /\ op'[Owner[f]].file = {f} /\ op'[Owner[f]].at \in {"last", "demote", "release"}
    BY <2>1, TypeOf DEF IInv, TypeOK, Mutex
  <2>3. Unlocks(f)'
    BY <2>2 DEF Unlocks, Mine
  <2>4. OwnCall(f)
    BY <2>2 DEF OwnCall
  <2>. QED BY <2>1, <2>3, <2>4, UnlockingBelief DEF NoFault
<1>3. ASSUME NEW step \in {"release", "last"}, GoTo(f, step), UNCHANGED pagerVars,
             Mine(f), NoFault
      PROVE  BeliefStep(f)
  <2>1. step \in Steps /\ eLock' = eLock /\ phase' = phase
    BY <1>3, StepNames DEF pagerVars
  <2>2. op'[Owner[f]] = [file |-> {f}, want |-> Request(f), at |-> step] /\ Mine(f)'
    BY <1>3, <2>1, GoToEffect
  <2>3. Unlocks(f)'
    BY <2>2 DEF Unlocks
  <2>4. OwnCall(f)
    BY <1>3, <2>1, CallIsOwn
  <2>. QED BY <1>3, <2>1, <2>3, <2>4, UnlockingBelief
<1>4. ASSUME NEW ok \in BOOLEAN, Mine(f), op[Owner[f]].at \in {"demote", "release", "last"},
             Return(f), Unlocked(f, ok), (ok /\ NoFault) \/ Fault
      PROVE  BeliefStep(f)
  <2>1. phase[f] \in DOMAIN Unlocking
    BY <1>4 DEF IInv, CallOK
  <2>2. OwnCall(f)
    BY <1>4, CallIsOwn
  <2>. QED BY <1>4, <2>1, <2>2, UnlockedBelief
<1>5. CASE Demote(f)
  <2>1. Mine(f) /\ op[Owner[f]].at = "demote"
    BY <1>5 DEF Demote, At
  \* Nobody has write-locked a range that this process has locked.
  <2>2. ~Conflict(Owner[f], "SHARED_RANGE", "rd")
    <3>1. lock[f] >= SHARED
      BY <2>1, TypeOf DEF IInv, CallOK, Strong, SHARED
    <3>2. SharedRange(Owner[f]) # "none"
      BY <3>1, LockBacked
    <3>3. Owner[f] \in Procs
      BY TypeOf DEF IInv
    <3>. QED BY <3>2, <3>3, RangeNames DEF Conflict, IInv, Compatible, SharedRange
  <2>3. \/ GoTo(f, "release") /\ UNCHANGED pagerVars /\ NoFault
        \/ Fault /\ Return(f) /\ Unlocked(f, FALSE)
    BY <1>5, <2>2 DEF Demote, Fails, UnlockFails, NoFault
  <2>. QED BY <1>3, <1>4, <2>1, <2>3
<1>6. CASE Release(f)
  <2>1. Mine(f) /\ op[Owner[f]].at = "release"
    BY <1>6 DEF Release, At
  <2>2. \/ GoTo(f, "last") /\ UNCHANGED pagerVars /\ NoFault
        \/ Return(f) /\ Unlocked(f, TRUE) /\ NoFault
        \/ Fault /\ Return(f) /\ Unlocked(f, FALSE)
    BY <1>6 DEF Release, UnlockFails, NoFault
  <2>. QED BY <1>3, <1>4, <2>1, <2>2
<1>7. CASE Last(f)
  <2>1. Mine(f) /\ op[Owner[f]].at = "last"
    BY <1>7 DEF Last, At
  <2>2. \/ Return(f) /\ Unlocked(f, TRUE) /\ NoFault
        \/ Fault /\ Return(f) /\ Unlocked(f, FALSE)
    BY <1>7 DEF Last
  <2>. QED BY <1>4, <2>1, <2>2
<1>. QED BY <1>1, <1>2, <1>5, <1>6, <1>7 DEF Unlock

---------------------------------------------------------------------------
(* What the invariant says of the states.                                  *)

\* Pager.eLock is never above the locks of the process.
LEMMA BeliefFollows == IInv => BeliefIsBacked
<1> SUFFICES ASSUME IInv, NEW f \in Files
             PROVE  /\ Entitled(f) >= SHARED => SharedRange(Owner[f]) # "none"
                    /\ Entitled(f) = RESERVED => ReservedByte(Owner[f]) = "wr"
                    /\ Entitled(f) = EXCLUSIVE => SharedRange(Owner[f]) = "wr"
  BY DEF BeliefIsBacked, SharedRange, ReservedByte
<1>1. ASSUME Entitled(f) = RESERVED PROVE ReservedByte(Owner[f]) = "wr"
  <2>1. eLock[f] = RESERVED /\ ~Unlocks(f)
    BY <1>1, EntitledType
  <2>2. lock[f] \in {RESERVED, PENDING} /\ ~AtLast(f)
    BY <2>1 DEF IInv, FileOK, Unlocks, AtLast, At
  <2>. QED BY <2>2, TypeOf DEF IInv, RangeOK
<1>2. ASSUME Entitled(f) = EXCLUSIVE PROVE SharedRange(Owner[f]) = "wr"
  BY <1>2, EntitledType, WriterAlone
<1>. QED BY <1>1, <1>2, EntitledType, LockBacked

\* While the file is torn, only the connection that writes it uses it.
LEMMA WholeFollows == IInv => ReadsWhole
<1> SUFFICES ASSUME IInv, torn, NEW f \in Files, phase[f] \in {"READER", "WRITER", "MODIFIED"}
             PROVE  phase[f] = "MODIFIED" /\ Entitled(f) = EXCLUSIVE
  BY DEF ReadsWhole
<1>1. phase[f] = "MODIFIED" /\ eLock[f] = EXCLUSIVE
  BY DEF IInv, TornOK
<1>2. ~Unlocks(f)
  BY <1>1, LevelTables DEF IInv, CallOK, Unlocks
<1>. QED BY <1>1, <1>2 DEF Entitled, EXCLUSIVE, UNKNOWN

\* unixClose defers only while the process has a lock, and posixUnlock closes
\* the descriptors with the last one.
LEMMA DeferFollows == IInv => DeferredWaits
  BY DEF IInv, NodeOK, DeferredWaits

\* A writer excludes everybody else, and a second writer.
LEMMA LocksFollow == IInv => L!Exclusion /\ L!OneWriter
<1> SUFFICES ASSUME IInv PROVE L!Exclusion /\ L!OneWriter
  OBVIOUS
<1>1. ASSUME NEW f \in Files, NEW g \in Files, f # g, Entitled(f) = EXCLUSIVE
      PROVE  Entitled(g) = NONE
  <2>1. lock[g] = NONE
    BY <1>1, EntitledType, WriterAlone
  <2>. QED BY <2>1, EntitledType DEF NONE, SHARED, RESERVED, EXCLUSIVE
<1>2. ASSUME NEW f \in Files, NEW g \in Files, Entitled(f) >= RESERVED, Entitled(g) >= RESERVED
      PROVE  f = g
  <2>1. Entitled(f) \in {RESERVED, EXCLUSIVE} /\ Entitled(g) \in {RESERVED, EXCLUSIVE}
    BY <1>2, EntitledType DEF NONE, SHARED, RESERVED, EXCLUSIVE
  <2>. QED BY <2>1, EntitledType, OneReserves
<1>. QED BY <1>1, <1>2 DEF L!Exclusion, L!OneWriter, L!EXCLUSIVE, L!RESERVED, L!NONE,
                           NONE, RESERVED, EXCLUSIVE

\* And after a step.
LEMMA LocksAfter == (IInv => L!Exclusion /\ L!OneWriter)'
  BY LocksFollow, PTL

---------------------------------------------------------------------------
(* The steps of the abstract locks.                                        *)

Held == [f \in Files |-> Entitled(f)]

\* A step changes what at most one pager relies on ...
LEMMA BeliefStepRefines ==
  ASSUME IInv, IInv', NEW f \in Files, BeliefStep(f)
  PROVE  L!Next \/ UNCHANGED Held
<1> DEFINE old == Entitled(f)
           new == Entitled(f)'
<1>1. /\ old \in {NONE, SHARED, RESERVED, EXCLUSIVE} /\ new \in {NONE, SHARED, RESERVED, EXCLUSIVE}
      /\ \A g \in Files : Entitled(g) \in {NONE, SHARED, RESERVED, EXCLUSIVE}
  BY EntitledType, EntitledAfter
<1>2. /\ \A g \in Files \ {f} : Entitled(g)' = Entitled(g)
      /\ new = RESERVED => old \in {SHARED, RESERVED}
  BY DEF BeliefStep
<1>3. Held = [Held EXCEPT ![f] = old] /\ Held' = [Held EXCEPT ![f] = new]
  BY <1>2 DEF Held
<1>4. \A g, h \in Files :
         /\ g # h /\ Entitled(g)' = EXCLUSIVE => Entitled(h)' = NONE
         /\ Entitled(g)' >= RESERVED /\ Entitled(h)' >= RESERVED => g = h
  BY LocksAfter DEF L!Exclusion, L!OneWriter, L!EXCLUSIVE, L!RESERVED, L!NONE,
                    NONE, RESERVED, EXCLUSIVE
<1>5. CASE new = old
  <2>1. \A g \in Files : Entitled(g)' = Entitled(g)
    BY <1>2, <1>5
  <2>. QED BY <2>1 DEF Held
<1>6. CASE new # old /\ new \in {NONE, SHARED} /\ new < old
  <2>1. new \in {L!NONE, L!SHARED}
    BY <1>6 DEF NONE, SHARED, L!NONE, L!SHARED
  <2>2. Held' = [g \in Files |-> IF g \in {f} /\ Held[g] > new THEN new ELSE Held[g]]
    BY <1>2, <1>6 DEF Held
  <2>3. L!Lower({f}, new)
    BY <2>2 DEF L!Lower, Held
  <2>. QED BY <2>1, <2>3 DEF L!Next
<1>7. CASE new = SHARED /\ old = NONE
  <2>1. \A g \in Files \ {f} : Entitled(g) < EXCLUSIVE
    BY <1>1, <1>2, <1>4, <1>7 DEF NONE, SHARED, RESERVED, EXCLUSIVE
  <2>2. L!Share(f)
    BY <1>3, <1>7, <2>1 DEF L!Share, L!Below, Held, L!NONE, L!SHARED, L!EXCLUSIVE,
                            NONE, SHARED, EXCLUSIVE
  <2>. QED BY <2>2 DEF L!Next
<1>8. CASE new = RESERVED /\ old = SHARED
  <2>1. \A g \in Files \ {f} : Entitled(g) < RESERVED
    BY <1>1, <1>2, <1>4, <1>8 DEF NONE, SHARED, RESERVED, EXCLUSIVE
  <2>2. L!Reserve(f)
    BY <1>3, <1>8, <2>1 DEF L!Reserve, L!Below, Held, L!SHARED, L!RESERVED, SHARED, RESERVED
  <2>. QED BY <2>2 DEF L!Next
<1>9. CASE new = EXCLUSIVE /\ old # EXCLUSIVE
  <2>1. \A g \in Files \ {f} : Entitled(g) < SHARED
    BY <1>2, <1>4, <1>9 DEF NONE, SHARED
  <2>2. old < EXCLUSIVE
    BY <1>1, <1>9 DEF NONE, SHARED, RESERVED, EXCLUSIVE
  <2>3. L!Exclude(f)
    BY <1>3, <1>9, <2>1, <2>2 DEF L!Exclude, L!Below, Held, L!SHARED, L!EXCLUSIVE, SHARED, EXCLUSIVE
  <2>. QED BY <2>3 DEF L!Next
<1>10. \/ new = old \/ (new # old /\ new \in {NONE, SHARED} /\ new < old)
       \/ (new = SHARED /\ old = NONE) \/ (new = RESERVED /\ old = SHARED)
       \/ (new = EXCLUSIVE /\ old # EXCLUSIVE)
  <2> HIDE DEF old, new
  <2>. QED BY <1>1, <1>2 DEF NONE, SHARED, RESERVED, EXCLUSIVE
<1>. QED BY <1>5, <1>6, <1>7, <1>8, <1>9, <1>10

\* What the connections of a process rely on ends with it, all at once.
LEMMA CrashBelief ==
  ASSUME IInv, NEW p \in Procs, Crash(p)
  PROVE  /\ \A f \in Files : Entitled(f)' = IF f \in Siblings(p) THEN NONE ELSE Entitled(f)
         /\ \A f \in Files : HalfUnlocked(f)' => HalfUnlocked(f)
         /\ Fault
<1>1. /\ eLock' = [f \in Files |-> IF f \in Siblings(p) THEN NONE ELSE eLock[f]]
      /\ phase' = [f \in Files |-> IF f \in Siblings(p) THEN "CLOSED" ELSE phase[f]]
      /\ op' = [op EXCEPT ![p] = Idle] /\ Fault
  BY DEF Crash
<1>2. ASSUME NEW f \in Files
      PROVE  /\ Entitled(f)' = IF f \in Siblings(p) THEN NONE ELSE Entitled(f)
             /\ HalfUnlocked(f)' => HalfUnlocked(f)
  <2>1. HalfUnlocked(f)' => HalfUnlocked(f)
    BY <1>1 DEF HalfUnlocked
  <2>2. CASE f \in Siblings(p)
    <3>1. eLock'[f] = NONE /\ op'[Owner[f]] = Idle
      BY <1>1, <2>2 DEF IInv, TypeOK, Siblings
    <3>2. ~Unlocks(f)'
      BY <3>1 DEF Unlocks, Mine, Idle
    <3>. QED BY <2>1, <2>2, <3>1, <3>2 DEF Entitled, NONE, UNKNOWN
  <2>3. CASE f \notin Siblings(p) /\ Owner[f] = p
    <3>1. phase[f] = "CLOSED" /\ eLock[f] = NONE /\ eLock'[f] = NONE
      BY <1>1, <2>3 DEF Siblings, IInv, FileOK
    <3>2. op'[Owner[f]] = Idle /\ ~Unlocks(f)'
      BY <1>1, <2>3 DEF IInv, TypeOK, Unlocks, Mine, Idle
    <3>3. ~Unlocks(f)
      BY <3>1, LevelTables DEF IInv, CallOK, Unlocks
    <3>. QED BY <2>1, <2>3, <3>1, <3>2, <3>3 DEF Entitled, NONE, UNKNOWN
  <2>4. CASE Owner[f] # p
    <3>1. f \notin Siblings(p) /\ eLock'[f] = eLock[f] /\ op'[Owner[f]] = op[Owner[f]]
      BY <1>1, <2>4, OwnerAssumption DEF Siblings, IInv, TypeOK
    <3>. QED BY <2>1, <3>1 DEF Entitled, Unlocks, Mine, Request
  <2>. QED BY <2>2, <2>3, <2>4
<1>. QED BY <1>1, <1>2

\* ... and a crash those of one process.
LEMMA StepRefines ==
  ASSUME IInv, IInv', [Next]_vars
  PROVE  [L!Next]_Held
<1>1. ASSUME NEW f \in Files, OpenClose(f) \/ Lock(f) \/ Unlock(f) \/ PagerStep(f)
      PROVE  L!Next \/ UNCHANGED Held
  BY <1>1, OpenCloseBelief, LockBelief, UnlockBelief, PagerBelief, BeliefStepRefines
<1>2. ASSUME NEW p \in Procs, Crash(p) PROVE L!Next
  <2> DEFINE dead == Siblings(p)
  <2>1. \A f \in Files : Entitled(f)' = IF f \in dead THEN NONE ELSE Entitled(f)
    BY <1>2, CrashBelief
  <2>2. \A f \in Files : Entitled(f) \in {NONE, SHARED, RESERVED, EXCLUSIVE}
    BY EntitledType
  <2>3. Held' = [f \in Files |-> IF f \in dead /\ Held[f] > NONE THEN NONE ELSE Held[f]]
    BY <2>1, <2>2 DEF Held, NONE, SHARED, RESERVED, EXCLUSIVE
  <2>4. L!Lower(dead, L!NONE) /\ dead \in SUBSET Files
    BY <2>3 DEF L!Lower, Held, Siblings, NONE, L!NONE
  <2>. QED BY <2>4 DEF L!Next
<1>3. CASE UNCHANGED vars
  <2>1. \A f \in Files : Entitled(f)' = Entitled(f)
    BY <1>3 DEF vars, osVars, pagerVars, Entitled, Unlocks, Mine, Request
  <2>. QED BY <2>1 DEF Held
<1>. QED BY <1>1, <1>2, <1>3 DEF Next

---------------------------------------------------------------------------
(* One failure does not happen twice.                                      *)

HalfOK == \A f \in Files : HalfUnlocked(f) => faults >= 1

\* A range that posixUnlock has left half unlocked is that of a failure.
LEMMA HalfKeeps == ASSUME IInv, IInv', HalfOK, [Next]_vars PROVE HalfOK'
<1>1. faults \in Nat
  BY DEF IInv, TypeOK
<1>2. ASSUME NEW f \in Files, BeliefStep(f) PROVE HalfOK'
  <2>1. faults' >= faults /\ faults' \in Nat
    BY <1>2 DEF BeliefStep, IInv, TypeOK
  <2>. QED BY <1>1, <1>2, <2>1 DEF BeliefStep, HalfOK
<1>3. ASSUME NEW f \in Files, OpenClose(f) \/ Lock(f) \/ Unlock(f) \/ PagerStep(f) PROVE HalfOK'
  BY <1>2, <1>3, OpenCloseBelief, LockBelief, UnlockBelief, PagerBelief
<1>4. ASSUME NEW p \in Procs, Crash(p) PROVE HalfOK'
  <2>1. \A f \in Files : HalfUnlocked(f)' => HalfUnlocked(f)
    BY <1>4, CrashBelief
  <2>2. faults' = faults + 1
    BY <1>4, CrashBelief DEF Fault
  <2>. QED BY <1>1, <2>1, <2>2 DEF HalfOK
<1>5. CASE UNCHANGED vars
  BY <1>5 DEF vars, pagerVars, HalfOK, HalfUnlocked
<1>. QED BY <1>3, <1>4, <1>5 DEF Next

\* With one failure of a system call in all, none of them is the second.
LEMMA OneFailureOnly == ASSUME MaxFault <= 1, IInv, HalfOK PROVE TriesOnce
<1> SUFFICES ASSUME NEW f \in Files, FailsTwice(f) PROVE FALSE
  BY DEF TriesOnce
<1>1. /\ Mine(f) /\ op[Owner[f]].at = "release" /\ phase[f] = "ERROR" /\ lock[f] = EXCLUSIVE
      /\ SharedRange(Owner[f]) = "rd" /\ faults < MaxFault
  BY DEF FailsTwice, At, Fault
<1>2. Request(f) = NONE
  BY <1>1, LevelTables DEF IInv, CallOK
<1>3. HalfUnlocked(f)
  BY <1>1, <1>2, TypeOf DEF IInv, RangeOK, AtLast, At, NONE, SHARED
<1>4. faults >= 1 /\ faults \in Nat
  BY <1>3 DEF HalfOK, IInv, TypeOK
<1>. QED BY <1>1, <1>4, MaxFaultAssumption

---------------------------------------------------------------------------
(* What the abstract locks promise by themselves.                          *)

HeldType == Held \in [Files -> {NONE, SHARED, RESERVED, EXCLUSIVE}]

\* Exclusion alone is not inductive: a connection may reserve while others
\* read, and that it can become the only writer rests on OneWriter.
HeldInv == HeldType /\ L!Exclusion /\ L!OneWriter

\* Every step of the abstract locks keeps them.
LEMMA AbstractKeeps == HeldInv /\ [L!Next]_Held => HeldInv'
<1>. SUFFICES ASSUME HeldInv, [L!Next]_Held PROVE HeldInv'
  OBVIOUS
<1>. USE DEF L!NONE, L!SHARED, L!RESERVED, L!EXCLUSIVE, NONE, SHARED, RESERVED, EXCLUSIVE
<1>1. /\ Held \in [Files -> {0, 1, 2, 4}]
      /\ \A f, g \in Files : f # g /\ Held[f] = 4 => Held[g] = 0
      /\ \A f, g \in Files : Held[f] >= 2 /\ Held[g] >= 2 => f = g
  BY DEF HeldInv, HeldType, L!Exclusion, L!OneWriter, Held
<1>2. SUFFICES /\ Held' \in [Files -> {0, 1, 2, 4}]
               /\ \A f, g \in Files : f # g /\ Held'[f] = 4 => Held'[g] = 0
               /\ \A f, g \in Files : Held'[f] >= 2 /\ Held'[g] >= 2 => f = g
  BY DEF HeldInv, HeldType, L!Exclusion, L!OneWriter, Held
<1>3. CASE UNCHANGED Held
  BY <1>1, <1>3
<1>4. ASSUME NEW f \in Files, L!Share(f)
      PROVE  /\ \A g \in Files \ {f} : Held[g] < 4
             /\ Held[f] = 0 /\ Held' = [Held EXCEPT ![f] = 1]
  BY <1>4 DEF L!Share, L!Below, Held
<1>5. ASSUME NEW f \in Files, L!Reserve(f)
      PROVE  /\ \A g \in Files \ {f} : Held[g] < 2
             /\ Held[f] = 1 /\ Held' = [Held EXCEPT ![f] = 2]
  BY <1>5 DEF L!Reserve, L!Below, Held
<1>6. ASSUME NEW f \in Files, L!Exclude(f)
      PROVE  /\ \A g \in Files \ {f} : Held[g] < 1
             /\ Held' = [Held EXCEPT ![f] = 4]
  BY <1>6 DEF L!Exclude, L!Below, Held
<1>7. ASSUME NEW S \in SUBSET Files, NEW level \in {0, 1}, L!Lower(S, level)
      PROVE  Held' = [f \in Files |-> IF f \in S /\ Held[f] > level THEN level ELSE Held[f]]
  BY <1>7 DEF L!Lower, Held
<1>. HIDE DEF Held
<1>8. CASE \E f \in Files : L!Share(f)
  BY <1>1, <1>4, <1>8
<1>9. CASE \E f \in Files : L!Reserve(f)
  BY <1>1, <1>5, <1>9
<1>10. CASE \E f \in Files : L!Exclude(f)
  <2>1. PICK f \in Files : L!Exclude(f)
    BY <1>10
  <2>2. \A g \in Files \ {f} : Held[g] = 0
    BY <1>1, <1>6, <2>1
  <2>. QED BY <1>1, <1>6, <2>1, <2>2
<1>11. CASE \E S \in SUBSET Files, level \in {0, 1} : L!Lower(S, level)
  <2>1. PICK S \in SUBSET Files, level \in {0, 1} : L!Lower(S, level)
    BY <1>11
  <2>2. Held' = [f \in Files |-> IF f \in S /\ Held[f] > level THEN level ELSE Held[f]]
    BY <1>7, <2>1
  <2>3. \A f \in Files : Held'[f] \in {Held[f], 0, 1} /\ Held'[f] <= Held[f]
    BY <1>1, <2>2
  <2>4. Held' \in [Files -> {0, 1, 2, 4}]
    BY <1>1, <2>2
  <2>. QED BY <1>1, <2>3, <2>4
<1>. QED BY <1>3, <1>8, <1>9, <1>10, <1>11 DEF L!Next

\* What FileLocks promises is reader/writer locks: whoever has EXCLUSIVE has
\* the file to itself, and at most one connection prepares to write.
THEOREM LocksExclude == LockSpec => [](L!Exclusion /\ L!OneWriter)
<1>1. L!Init => HeldInv
  BY DEF L!Init, HeldInv, HeldType, L!Exclusion, L!OneWriter, Held, L!NONE, L!EXCLUSIVE, L!RESERVED,
         NONE, SHARED, RESERVED, EXCLUSIVE
<1>2. HeldInv => L!Exclusion /\ L!OneWriter
  BY DEF HeldInv
<1>3. L!Init /\ [][L!Next]_Held => [](L!Exclusion /\ L!OneWriter)
  BY <1>1, <1>2, AbstractKeeps, PTL
<1>. QED BY <1>3, PTL DEF LockSpec, L!Spec, Held

---------------------------------------------------------------------------
(* The theorems, for every behaviour without the four failures named at    *)
(* the top of this module: first with any number of the others ...         *)

\* Types, counters, locks of the system and beliefs of the pagers fit together
\* in every state: no lock is taken inside a unixClose (CloseRaces), no unlock
\* that nobody checks fails (IgnoredErrors), no open fails in fstat() beside
\* other descriptors (FstatFails), posixUnlock does not fail twice on one range.
THEOREM Invariance ==
  ASSUME CloseRaces = FALSE, IgnoredErrors = FALSE, FstatFails = FALSE
  PROVE  Spec /\ [][TriesOnce]_vars => []IInv
<1>1. IInv /\ [Next /\ TriesOnce]_vars => IInv'
  <2> SUFFICES ASSUME IInv, [Next /\ TriesOnce]_vars PROVE IInv'
    OBVIOUS
  <2>. QED BY NextKeeps, StutterKeeps
<1>. QED BY <1>1, InitEstablishes, PTL DEF Spec

\* Whatever lock a pager relies on (Pager.eLock), its process holds it, through
\* crashes, deferred closes and failures of the calls of unixLock and posixUnlock
\* other than the four excluded ones, each of which can break it.
THEOREM BeliefsAreBacked ==
  ASSUME CloseRaces = FALSE, IgnoredErrors = FALSE, FstatFails = FALSE
  PROVE  Spec /\ [][TriesOnce]_vars => []BeliefIsBacked
<1>1. Spec /\ [][TriesOnce]_vars => []IInv
  BY Invariance
<1>. QED BY <1>1, BeliefFollows, PTL

\* No connection reads the file while part of a transaction is in it: whoever
\* comes after a crash or an error finds the journal hot and rolls it back, as
\* long as none of the four excluded failures occurs.
THEOREM ReadersSeeWhole ==
  ASSUME CloseRaces = FALSE, IgnoredErrors = FALSE, FstatFails = FALSE
  PROVE  Spec /\ [][TriesOnce]_vars => []ReadsWhole
<1>1. Spec /\ [][TriesOnce]_vars => []IInv
  BY Invariance
<1>. QED BY <1>1, WholeFollows, PTL

\* A deferred close waits for a lock of the process, and for nothing else, under
\* the same four assumptions.
THEOREM DeferredClosesEnd ==
  ASSUME CloseRaces = FALSE, IgnoredErrors = FALSE, FstatFails = FALSE
  PROVE  Spec /\ [][TriesOnce]_vars => []DeferredWaits
<1>1. Spec /\ [][TriesOnce]_vars => []IInv
  BY Invariance
<1>. QED BY <1>1, DeferFollows, PTL

\* The calls of unixLock, posixUnlock and unixClose, in any order and with crashes
\* and failures between them, give the pagers reader/writer locks, as long as none
\* of the four excluded failures occurs.
THEOREM ImplementsLocks ==
  ASSUME CloseRaces = FALSE, IgnoredErrors = FALSE, FstatFails = FALSE
  PROVE  Spec /\ [][TriesOnce]_vars => LockSpec
<1>1. Spec /\ [][TriesOnce]_vars => []IInv
  BY Invariance
<1>2. Init => L!Init
  <2> SUFFICES ASSUME Init PROVE L!Init
    OBVIOUS
  <2>1. \A f \in Files : Entitled(f) = NONE
    BY OwnerAssumption DEF Init, Entitled, Unlocks, Mine, Idle, NONE, UNKNOWN
  <2>. QED BY <2>1 DEF L!Init, L!NONE, NONE
<1>3. IInv /\ IInv' /\ [Next]_vars => [L!Next]_Held
  BY StepRefines
<1>. QED BY <1>1, <1>2, <1>3, PTL DEF Spec, LockSpec, L!Spec, Held

\* Whoever writes the file (pager_write_pagelist, or the playback of a hot
\* journal) is alone on it over all processes, and at most one connection is
\* in a write transaction, under the same four assumptions.
THEOREM WriterIsAlone ==
  ASSUME CloseRaces = FALSE, IgnoredErrors = FALSE, FstatFails = FALSE
  PROVE  Spec /\ [][TriesOnce]_vars => [](L!Exclusion /\ L!OneWriter)
  BY ImplementsLocks, LocksExclude

---------------------------------------------------------------------------
(* ... then with at most one, where TriesOnce need not be assumed.         *)

\* A single crash, failed first open or failed fcntl() call breaks nothing,
\* unless it is an unlock whose result is not read or an open that fails in
\* fstat() beside other descriptors, and with no lock taken inside a unixClose:
\* one of these alone is enough to break it.
THEOREM OneFailureIsSafe ==
  ASSUME CloseRaces = FALSE, IgnoredErrors = FALSE, FstatFails = FALSE, MaxFault <= 1
  PROVE  Spec => /\ [](BeliefIsBacked /\ ReadsWhole /\ DeferredWaits)
                 /\ LockSpec
<1>1. Init => IInv /\ HalfOK
  BY InitEstablishes DEF Init, HalfOK, HalfUnlocked
<1>2. (IInv /\ HalfOK) /\ [Next]_vars => TriesOnce /\ (IInv /\ HalfOK)'
  <2> SUFFICES ASSUME IInv, HalfOK, [Next]_vars PROVE TriesOnce /\ IInv' /\ HalfOK'
    OBVIOUS
  <2>1. TriesOnce
    BY OneFailureOnly
  <2>2. IInv'
    BY <2>1, NextKeeps
  <2>. QED BY <2>1, <2>2, HalfKeeps
<1>3. Spec => []IInv /\ [][TriesOnce]_vars
  BY <1>1, <1>2, PTL DEF Spec
<1>4. Spec /\ [][TriesOnce]_vars => LockSpec
  BY ImplementsLocks
<1>. QED BY <1>3, <1>4, BeliefFollows, WholeFollows, DeferFollows, PTL
=============================================================================
