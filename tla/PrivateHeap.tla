---------------------------- MODULE PrivateHeap ----------------------------
(***************************************************************************)
(* SQLCipher's private heap: sqlcipher_malloc and sqlcipher_free called by *)
(* several threads.  The heap is one piece of memory cut into blocks, each *)
(* with a header in front, in a linked list.  Addresses are offsets in it. *)
(* The search and the links are protected by SQLCIPHER_MUTEX_MEM; the      *)
(* statistics are updated after it has been left.                          *)
(***************************************************************************)
EXTENDS Integers, FiniteSets

CONSTANTS
    Threads,
    HeapSize,     \* private_heap_sz
    Header,       \* sizeof(private_block)
    MinSplit,     \* SQLCIPHER_PRIVATE_HEAP_MIN_SPLIT_SIZE
    Align,        \* SQLCIPHER_PRIVATE_HEAP_ALIGNMENT
    Requests,     \* the sizes callers ask for
    Outside,      \* addresses of blocks that malloc can give
    Wrap,         \* values of a size_t
    MaxLive,      \* bound: allocations at one time
    Null

ASSUME HeapAssumption ==
    /\ Align \in Nat \ {0}
    /\ HeapSize \in Nat /\ HeapSize % Align = 0
    /\ Header \in Nat /\ Header % Align = 0 /\ HeapSize > Header
    /\ MinSplit \in Nat \ {0}
    /\ Requests \subseteq Nat \ {0}
    /\ Outside \subseteq Nat /\ \A m \in Outside : m > HeapSize
    /\ Null \notin Nat
    /\ Wrap \in Nat \ {0} /\ Wrap > HeapSize
    /\ MaxLive \in Nat

VARIABLES
    blocks,   \* the list: at each block's address its size, is_used, next
    live,     \* [mem, size]: allocations that callers hold
    at,       \* the call of each thread: what is left, n to add, the old
              \* value it has read, mem it is going to return
    used,     \* private_heap_used
    hwm       \* private_heap_hwm

heap == <<blocks, live>>
vars == <<blocks, live, at, used, hwm>>

Idle == [do |-> "idle", n |-> 0, old |-> 0, mem |-> Null]

Init ==
    /\ blocks = [a \in {0} |-> [size |-> HeapSize - Header, used |-> FALSE,
                                next |-> Null]]
    /\ live = {}
    /\ at = [t \in Threads |-> Idle]
    /\ used = 0 /\ hwm = 0

---------------------------------------------------------------------------
(* The list of blocks.                                                     *)

\* SQLCIPHER_PRIVATE_HEAP_ROUNDUP
MutantNoRoundUp(n) == n
RoundUp(n) == IF n % Align = 0 THEN n ELSE (n \div Align + 1) * Align

Mem(a) == a + Header                     \* of the block at a
IsFree(bs, a) == a # Null /\ ~bs[a].used
End(bs, a) == Mem(a) + bs[a].size

Candidates(n) == {a \in DOMAIN blocks : IsFree(blocks, a) /\ blocks[a].size >= n}
\* The list is in the order of the addresses.
FirstFit(n) == CHOOSE a \in Candidates(n) : \A b \in Candidates(n) : a <= b

\* The block at a is cut after n bytes; the rest is a block of its own.
MutantSplitOverlaps(a, n) ==
    [b \in DOMAIN blocks \cup {a + n} |->
       CASE b = a -> [size |-> n, used |-> TRUE, next |-> a + n]
         [] b = a + n -> [size |-> blocks[a].size - n, used |-> FALSE,
                          next |-> blocks[a].next]
         [] OTHER -> blocks[b]]
Split(a, n) ==
    LET s == Mem(a) + n
    IN  [b \in DOMAIN blocks \cup {s} |->
           CASE b = a -> [size |-> n, used |-> TRUE, next |-> s]
             [] b = s -> [size |-> blocks[a].size - n - Header,
                          used |-> FALSE, next |-> blocks[a].next]
             [] OTHER -> blocks[b]]

HasRoom(a, n) == blocks[a].size >= n + Header + MinSplit

Take(a, n) ==
    IF HasRoom(a, n) THEN Split(a, n) ELSE [blocks EXCEPT ![a].used = TRUE]

\* The block at a and the one behind it become one.
Merge(bs, a) ==
    LET n == bs[a].next
    IN  [b \in DOMAIN bs \ {n} |->
           IF b = a THEN [size |-> bs[a].size + Header + bs[n].size,
                          used |-> FALSE, next |-> bs[n].next]
           ELSE bs[b]]

MutantMergesNextOnly(bs, a) == a
MutantMergesAnyFront(bs, a) ==
    IF \E p \in DOMAIN bs : bs[p].next = a
    THEN CHOOSE p \in DOMAIN bs : bs[p].next = a
    ELSE a
\* The block to extend: the one in front if it is free, else the block.
MergeBase(bs, a) ==
    IF \E p \in DOMAIN bs : bs[p].next = a /\ ~bs[p].used
    THEN CHOOSE p \in DOMAIN bs : bs[p].next = a
    ELSE a

Give(a) ==
    LET freed == [blocks EXCEPT ![a].used = FALSE]
        base == MergeBase(freed, a)
        front == IF base = a THEN freed ELSE Merge(freed, base)
    IN  IF IsFree(front, front[base].next) THEN Merge(front, base) ELSE front

---------------------------------------------------------------------------
(* The calls.                                                              *)

Then(t, do, n, m) ==
    at' = [at EXCEPT ![t] = [do |-> do, n |-> n, old |-> 0, mem |-> m]]
Return(t) == at' = [at EXCEPT ![t] = Idle]

\* sqlcipher_malloc inside the mutex.
Malloc(t) ==
    /\ at[t] = Idle /\ Cardinality(live) < MaxLive
    /\ \E r \in Requests :
         LET n == RoundUp(r)
             a == FirstFit(n)
         IN  /\ Candidates(n) # {}
             /\ blocks' = Take(a, n)
             /\ live' = live \cup {[mem |-> Mem(a), size |-> n]}
             /\ Then(t, "load", n, Mem(a))
    /\ UNCHANGED <<used, hwm>>

\* No block is large enough: the memory comes from sqlite3_malloc.
Overflow(t) ==
    /\ at[t] = Idle /\ Cardinality(live) < MaxLive
    /\ \E r \in Requests, m \in Outside :
         /\ Candidates(RoundUp(r)) = {}
         /\ \A a \in live : a.mem # m
         /\ live' = live \cup {[mem |-> m, size |-> RoundUp(r)]}
    /\ UNCHANGED <<blocks, at, used, hwm>>

\* sqlcipher_free inside the mutex, for memory that a call has returned;
\* memory that is no block is malloc's.
Free(t) ==
    /\ at[t] = Idle
    /\ \E a \in live :
         /\ \A u \in Threads : at[u].mem # a.mem
         /\ live' = live \ {a}
         /\ IF \E b \in DOMAIN blocks : Mem(b) = a.mem
            THEN LET b == a.mem - Header
                 IN  blocks' = Give(b) /\ Then(t, "load", -blocks[b].size, Null)
            ELSE UNCHANGED <<blocks, at>>
    /\ UNCHANGED <<used, hwm>>

\* private_heap_used += n or -= n, outside the mutex: a read and a write.
LoadUsed(t) ==
    /\ at[t].do = "load"
    /\ at' = [at EXCEPT ![t].do = "store", ![t].old = used]
    /\ UNCHANGED <<heap, used, hwm>>

StoreUsed(t) ==
    /\ at[t].do = "store"
    /\ used' = (at[t].old + at[t].n) % Wrap
    /\ IF at[t].n > 0 THEN Then(t, "compare", 0, at[t].mem) ELSE Return(t)
    /\ UNCHANGED <<heap, hwm>>

CompareHwm(t) ==
    /\ at[t].do = "compare"
    /\ IF used > hwm THEN Then(t, "mark", 0, at[t].mem) ELSE Return(t)
    /\ UNCHANGED <<heap, used, hwm>>

MarkHwm(t) ==
    /\ at[t].do = "mark"
    /\ hwm' = used
    /\ Return(t)
    /\ UNCHANGED <<heap, used>>

Next == \E t \in Threads :
    \/ Malloc(t) \/ Overflow(t) \/ Free(t)
    \/ LoadUsed(t) \/ StoreUsed(t) \/ CompareHwm(t) \/ MarkHwm(t)

Spec == Init /\ [][Next]_vars

---------------------------------------------------------------------------
(* Properties that hold.                                                   *)

Block == [size : Nat, used : BOOLEAN, next : Nat \cup {Null}]
Steps == {"idle", "load", "store", "compare", "mark"}

TypeOK ==
    /\ DOMAIN blocks \subseteq Nat
    /\ \A a \in DOMAIN blocks : blocks[a] \in Block
    /\ live \subseteq [mem : Nat, size : Nat]
    /\ at \in [Threads -> [do : Steps, n : Int, old : Nat,
                          mem : Nat \cup {Null}]]
    /\ used \in Nat /\ hwm \in Nat

\* The blocks tile the heap: each ends where the next one of the list
\* begins, the last at the end of the heap, and no two overlap; the headers
\* that sqlcipher_malloc writes into the heap are never inside an allocation.
BlocksTile ==
    /\ 0 \in DOMAIN blocks
    /\ \A a \in DOMAIN blocks :
         IF blocks[a].next = Null THEN End(blocks, a) = HeapSize
         ELSE /\ blocks[a].next \in DOMAIN blocks
              /\ blocks[a].next = End(blocks, a)
    /\ \A a, b \in DOMAIN blocks : a < b => End(blocks, a) <= b

\* Two neighbours are never both free: sqlcipher_free merges on both sides.
Coalesced ==
    \A a \in DOMAIN blocks :
        IsFree(blocks, a) /\ blocks[a].next # Null => ~IsFree(blocks, blocks[a].next)

\* The used blocks are exactly the allocations of the callers, and each is
\* large enough: a free never releases or merges a neighbour in use.
UsedIsLive ==
    /\ \A a \in live : a.mem \notin Outside =>
         \E b \in DOMAIN blocks : Mem(b) = a.mem /\ blocks[b].used
                                  /\ blocks[b].size >= a.size
    /\ \A b \in DOMAIN blocks : blocks[b].used =>
         \E a \in live : a.mem = Mem(b)

\* When everything has been freed the heap is one free block again, however
\* the blocks were cut and merged before.
EmptyHeapIsWhole ==
    (\A b \in DOMAIN blocks : ~blocks[b].used) => DOMAIN blocks = {0}

\* What callers see is an allocator.
Alloc == INSTANCE Allocator
AllocSpec == Alloc!Spec

---------------------------------------------------------------------------
(* Statements of the code that do not hold.                                *)

\* "bytes currently used on private heap": once every block is free and no
\* call is in progress, no byte is used.
StatIsZeroWhenEmpty ==
    (\A t \in Threads : at[t] = Idle) /\ (\A b \in DOMAIN blocks : ~blocks[b].used)
    => used = 0
=============================================================================
