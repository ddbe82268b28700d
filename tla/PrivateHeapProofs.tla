------------------------- MODULE PrivateHeapProofs -------------------------
(***************************************************************************)
(* Proofs about PrivateHeap, for every size of the heap, of its headers    *)
(* and of the requests, and for any number of threads: the list of blocks  *)
(* always tiles the heap, free blocks are merged, the used blocks are the  *)
(* allocations of the callers, and what callers see is an Allocator.       *)
(*                                                                         *)
(* BlocksTile needs that no block is empty (else a block could follow      *)
(* itself) and that no block reaches behind the heap; UsedIsLive needs     *)
(* that no two allocations have one address.                               *)
(***************************************************************************)
EXTENDS PrivateHeap, WellFoundedInduction, TLAPS

\* The list: what BlocksTile says, of any list bs, and where blocks end.
Tiled(bs) ==
    /\ 0 \in DOMAIN bs
    /\ \A a \in DOMAIN bs : bs[a].size > 0 /\ End(bs, a) <= HeapSize
    /\ \A a \in DOMAIN bs :
         IF bs[a].next = Null THEN End(bs, a) = HeapSize
         ELSE bs[a].next \in DOMAIN bs /\ bs[a].next = End(bs, a)
    /\ \A a, b \in DOMAIN bs : a < b => End(bs, a) <= b

\* Multiples of the alignment, so that the memory handed out is aligned.
Aligned(bs) ==
    \A a \in DOMAIN bs : a % Align = 0 /\ bs[a].size % Align = 0

\* The allocations and the used blocks are one to one.
LiveInv ==
    /\ \A x, y \in live : x.mem = y.mem => x = y
    /\ \A x \in live : x.mem \notin Outside =>
         \E b \in DOMAIN blocks : Mem(b) = x.mem /\ blocks[b].used
                                  /\ blocks[b].size >= x.size
    /\ \A b \in DOMAIN blocks : blocks[b].used =>
         \E x \in live : x.mem = Mem(b)

IInv == TypeOK /\ Tiled(blocks) /\ Aligned(blocks) /\ Coalesced /\ LiveInv

---------------------------------------------------------------------------
(* Arithmetic.                                                             *)

\* A search in address order finds a first one: the list is not empty.
LEMMA LeastAddress ==
  ASSUME NEW T \in SUBSET Nat, T # {}
  PROVE  \E x \in T : \A y \in T : x <= y
  <1> DEFINE R == {ss \in Nat \X Nat : ss[1] < ss[2]}
  <1>1. IsWellFoundedOn(R, Nat)
    BY NatLessThanWellFounded DEF OpToRel
  <1>2. PICK x \in T : \A y \in T : ~(<<y, x>> \in R)
    <2> HIDE DEF R
    <2> QED
      BY <1>1, WFMin
  <1>3. ASSUME NEW y \in T PROVE x <= y
    <2>1. <<y, x>> \in Nat \X Nat
      OBVIOUS
    <2>2. ~(y < x)
      BY <1>2, <2>1
    <2>3. QED
      BY <2>2
  <1>4. QED
    BY <1>3

LEMMA MultipleMod ==
  ASSUME NEW A \in Nat \ {0}, NEW x \in Int, NEW y \in Int, x = A * y
  PROVE  x % A = 0
  OBVIOUS

LEMMA ModMultiple ==
  ASSUME NEW A \in Nat \ {0}, NEW x \in Int, x % A = 0
  PROVE  x = A * (x \div A) /\ x \div A \in Int
  OBVIOUS

\* Sums and differences of multiples are multiples: addresses stay aligned.
LEMMA ModSum ==
  ASSUME NEW A \in Nat \ {0}, NEW x \in Int, NEW y \in Int,
         x % A = 0, y % A = 0
  PROVE  (x + y) % A = 0 /\ (x - y) % A = 0
  <1> DEFINE k == x \div A + y \div A
             l == x \div A - y \div A
  <1>1. /\ x = A * (x \div A) /\ x \div A \in Int
        /\ y = A * (y \div A) /\ y \div A \in Int
    BY ModMultiple
  <1>2. ASSUME NEW p \in Int, NEW q \in Int, x = A * p, y = A * q
        PROVE  x + y = A * (p + q) /\ x - y = A * (p - q)
    BY <1>2
  <1>3. x + y = A * k /\ x - y = A * l
    BY <1>1, <1>2
  <1>4. k \in Int /\ l \in Int /\ x + y \in Int /\ x - y \in Int
    BY <1>1
  <1> HIDE DEF k, l
  <1>5. (x + y) % A = 0
    BY <1>3, <1>4, MultipleMod
  <1>6. (x - y) % A = 0
    BY <1>3, <1>4, MultipleMod
  <1>7. QED
    BY <1>5, <1>6

\* SQLCIPHER_PRIVATE_HEAP_ROUNDUP gives a multiple that is large enough.
LEMMA RoundUpMultiple ==
  ASSUME NEW n \in Nat \ {0}
  PROVE  /\ RoundUp(n) \in Nat /\ RoundUp(n) >= n
         /\ RoundUp(n) % Align = 0
  <1>1. CASE n % Align = 0
    BY <1>1 DEF RoundUp
  <1>2. CASE n % Align # 0
    <2> DEFINE q == n \div Align + 1
    <2>1. q \in Int /\ RoundUp(n) = q * Align
      BY <1>2, HeapAssumption DEF RoundUp
    <2>2. n = Align * (n \div Align) + (n % Align) /\ n % Align \in 0 .. Align - 1
      BY HeapAssumption
    <2>3. q * Align = Align * (n \div Align) + Align
      <3>1. ASSUME NEW k \in Int, NEW A \in Int
            PROVE  (k + 1) * A = A * k + A
        OBVIOUS
      <3>2. n \div Align \in Int /\ Align \in Int
        BY HeapAssumption
      <3>3. QED
        BY <3>1, <3>2
    <2>4. q * Align \in Int /\ Align * (n \div Align) \in Int /\ q * Align >= n
      BY <2>2, <2>3, HeapAssumption
    <2> HIDE DEF q
    <2>5. q * Align = Align * q
      BY <2>1, HeapAssumption
    <2>6. (q * Align) % Align = 0
      BY <2>1, <2>4, <2>5, MultipleMod, HeapAssumption
    <2>7. QED
      BY <2>1, <2>4, <2>6
  <1>3. QED
    BY <1>1, <1>2

---------------------------------------------------------------------------
(* What the operators on the list do to it.                                *)

\* A list of blocks, of the types TypeOK states.
List(bs) == DOMAIN bs \subseteq Nat /\ \A a \in DOMAIN bs : bs[a] \in Block

Good(bs) == List(bs) /\ Tiled(bs) /\ Aligned(bs)

\* Coalesced, of any list.
NoTwoFree(bs) ==
    \A a \in DOMAIN bs :
        ~bs[a].used /\ bs[a].next # Null => bs[bs[a].next].used

\* is_used of one block is set (malloc) or cleared (free).
SetFlag(bs, a, u) == [bs EXCEPT ![a].used = u]

\* cs is bs with another flag at a.
Flagged(bs, a, u, cs) ==
    /\ Good(cs) /\ DOMAIN cs = DOMAIN bs
    /\ cs[a].used = u /\ cs[a].size = bs[a].size /\ cs[a].next = bs[a].next
    /\ \A b \in DOMAIN bs \ {a} : cs[b] = bs[b]

\* cs is bs without the cut behind a.
Merged(bs, a, cs) ==
    /\ Good(cs) /\ a \in DOMAIN cs /\ DOMAIN cs = DOMAIN bs \ {bs[a].next}
    /\ cs[a].next = bs[bs[a].next].next /\ cs[a].used = FALSE
    /\ \A b \in DOMAIN cs : b # a => cs[b] = bs[b]

\* Where the rest of the block at a begins after n bytes have been taken.
Rest(a, n) == Mem(a) + n

\* cs is bs with a cut at s in the block at a.
Cut(bs, a, n, s, cs) ==
    /\ Good(cs) /\ s \notin DOMAIN bs /\ DOMAIN cs = DOMAIN bs \cup {s}
    /\ cs[a].used = TRUE /\ cs[a].size = n /\ cs[a].next = s
    /\ cs[s].used = FALSE /\ cs[s].next = bs[a].next
    /\ \A b \in DOMAIN bs \ {a} : cs[b] = bs[b]

\* What List says of each block, in the terms of arithmetic.
LEMMA BlockTypes ==
  ASSUME NEW bs, List(bs), Tiled(bs), NEW a \in DOMAIN bs
  PROVE  /\ a \in Nat /\ a # Null
         /\ bs[a].size \in Nat /\ bs[a].size > 0
         /\ bs[a].used \in BOOLEAN /\ bs[a].next \in Nat \cup {Null}
         /\ End(bs, a) \in Nat /\ End(bs, a) = a + Header + bs[a].size
         /\ a < End(bs, a) /\ End(bs, a) <= HeapSize
  BY HeapAssumption DEF List, Block, Tiled, End, Mem

\* The end of a block is where the rest of the list begins, and the block
\* in front of another is the only one.
LEMMA TiledOrder ==
  ASSUME NEW bs, List(bs), Tiled(bs), NEW a \in DOMAIN bs
  PROVE  /\ bs[a].next # Null =>
              /\ bs[a].next \in DOMAIN bs /\ bs[a].next = End(bs, a)
              /\ bs[a].next > a
         /\ \A b \in DOMAIN bs : bs[b].next # Null /\ bs[b].next = bs[a].next
                               => b = a
  <1>1. ASSUME NEW b \in DOMAIN bs, End(bs, b) = End(bs, a) PROVE b = a
    BY <1>1, BlockTypes DEF Tiled
  <1>2. bs[a].next # Null => /\ bs[a].next \in DOMAIN bs
                             /\ bs[a].next = End(bs, a) /\ bs[a].next > a
    BY BlockTypes DEF Tiled
  <1>3. ASSUME NEW b \in DOMAIN bs, bs[b].next # Null, bs[b].next = bs[a].next
        PROVE  b = a
    BY <1>1, <1>3 DEF Tiled
  <1>4. QED
    BY <1>2, <1>3

\* The flags of blocks have no part in how they tile the heap.
LEMMA FlagShape ==
  ASSUME NEW bs, Good(bs), NEW a \in DOMAIN bs, NEW u \in BOOLEAN
  PROVE  Flagged(bs, a, u, SetFlag(bs, a, u))
  <1> DEFINE cs == SetFlag(bs, a, u)
  <1>1. /\ DOMAIN cs = DOMAIN bs
        /\ \A b \in DOMAIN bs : cs[b].size = bs[b].size /\ cs[b].next = bs[b].next
        /\ cs[a].used = u
        /\ \A b \in DOMAIN bs \ {a} : cs[b] = bs[b]
        /\ List(cs)
    BY DEF SetFlag, Good, List, Block
  <1> HIDE DEF cs
  <1>2. \A b \in DOMAIN bs : End(cs, b) = End(bs, b)
    BY <1>1 DEF End
  <1>3. Tiled(cs)
    BY <1>1, <1>2 DEF Tiled, Good
  <1>4. Aligned(cs)
    BY <1>1 DEF Aligned, Good
  <1>5. Flagged(bs, a, u, cs)
    BY <1>1, <1>3, <1>4 DEF Flagged, Good
  <1>6. QED
    BY <1>5 DEF cs

\* A block is merged with the one behind it.
LEMMA MergeShape ==
  ASSUME NEW bs, Good(bs), NEW a \in DOMAIN bs, bs[a].next # Null
  PROVE  Merged(bs, a, Merge(bs, a))
  <1> DEFINE n == bs[a].next
             cs == Merge(bs, a)
  <1>0. Header \in Nat /\ Align \in Nat \ {0} /\ Header % Align = 0
    BY HeapAssumption
  <1>1. n \in DOMAIN bs /\ n = End(bs, a) /\ a < n
    BY TiledOrder DEF Good
  <1>2. \A b \in DOMAIN bs : /\ b \in Nat /\ bs[b].size \in Nat /\ bs[b].size > 0
                            /\ bs[b].next \in Nat \cup {Null}
                            /\ End(bs, b) = b + Header + bs[b].size
    BY BlockTypes DEF Good
  <1>3. /\ DOMAIN cs = DOMAIN bs \ {n} /\ a \in DOMAIN cs
        /\ cs[a] = [size |-> bs[a].size + Header + bs[n].size,
                    used |-> FALSE, next |-> bs[n].next]
        /\ \A b \in DOMAIN cs : b # a => cs[b] = bs[b]
    BY <1>1, <1>2 DEF Merge
  <1> HIDE DEF cs
  <1>4. List(cs)
    <2>1. cs[a] \in Block
      BY <1>0, <1>1, <1>2, <1>3 DEF Block
    <2>2. QED
      BY <2>1, <1>3 DEF List, Good
  <1>5. /\ End(cs, a) = End(bs, n)
        /\ \A b \in DOMAIN cs : b # a => End(cs, b) = End(bs, b)
    BY <1>0, <1>1, <1>2, <1>3 DEF End, Mem
  <1>6. Tiled(cs)
    <2>1. 0 \in DOMAIN cs
      BY <1>1, <1>2, <1>3 DEF Tiled, Good
    <2>2. ASSUME NEW b \in DOMAIN cs
          PROVE  cs[b].size > 0 /\ End(cs, b) <= HeapSize
      BY <1>0, <1>1, <1>2, <1>3, <1>5 DEF Tiled, Good
    <2>3. ASSUME NEW b \in DOMAIN cs
          PROVE  IF cs[b].next = Null THEN End(cs, b) = HeapSize
                 ELSE cs[b].next \in DOMAIN cs /\ cs[b].next = End(cs, b)
      <3>1. bs[n].next # n
        BY <1>1, TiledOrder, BlockTypes DEF Good
      <3>2. b # a => bs[b].next # n
        BY <1>1, <1>3, TiledOrder DEF Good
      <3>3. CASE b = a
        BY <3>1, <3>3, <1>1, <1>3, <1>5 DEF Tiled, Good
      <3>4. CASE b # a
        BY <3>2, <3>4, <1>1, <1>3, <1>5 DEF Tiled, Good
      <3>5. QED
        BY <3>3, <3>4
    <2>4. ASSUME NEW b \in DOMAIN cs, NEW c \in DOMAIN cs, b < c
          PROVE  End(cs, b) <= c
      <3>1. c \in DOMAIN bs /\ c # n /\ b \in DOMAIN bs
        BY <1>3
      <3>2. CASE b = a
        <4>1. n <= c
          BY <3>1, <3>2, <2>4, <1>1 DEF Tiled, Good
        <4>2. n < c
          BY <4>1, <3>1, <1>1, <1>2
        <4>3. QED
          BY <4>2, <3>1, <3>2, <1>1, <1>5 DEF Tiled, Good
      <3>3. CASE b # a
        BY <3>1, <3>3, <2>4, <1>5 DEF Tiled, Good
      <3>4. QED
        BY <3>2, <3>3
    <2>5. QED
      BY <2>1, <2>2, <2>3, <2>4 DEF Tiled
  <1>7. Aligned(cs)
    <2>1. (bs[a].size + Header) % Align = 0
      BY <1>0, <1>2, ModSum DEF Aligned, Good
    <2>2. bs[a].size + Header \in Int /\ bs[n].size \in Int /\ bs[n].size % Align = 0
      BY <1>0, <1>1, <1>2 DEF Aligned, Good
    <2>3. (bs[a].size + Header + bs[n].size) % Align = 0
      BY <2>1, <2>2, <1>0, ModSum
    <2>4. QED
      BY <2>3, <1>3 DEF Aligned, Good
  <1>8. Merged(bs, a, cs)
    BY <1>3, <1>4, <1>6, <1>7 DEF Merged, Good
  <1>9. QED
    BY <1>8 DEF cs

\* A block is cut after n bytes, and the rest of it becomes a free block.
LEMMA SplitShape ==
  ASSUME Good(blocks), NEW a \in DOMAIN blocks,
         NEW n \in Nat \ {0}, n % Align = 0, HasRoom(a, n)
  PROVE  Cut(blocks, a, n, Rest(a, n), Split(a, n))
  <1> DEFINE s == Mem(a) + n
             cs == Split(a, n)
  <1>0. /\ Header \in Nat /\ HeapSize \in Nat /\ MinSplit \in Nat \ {0}
        /\ Align \in Nat \ {0} /\ Header % Align = 0
    BY HeapAssumption
  <1>1. \A b \in DOMAIN blocks :
            /\ b \in Nat /\ blocks[b].size \in Nat /\ blocks[b].size > 0
            /\ blocks[b].next \in Nat \cup {Null}
            /\ End(blocks, b) \in Nat /\ b < End(blocks, b)
            /\ End(blocks, b) = b + Header + blocks[b].size
    BY BlockTypes DEF Good
  <1>2. s \in Nat /\ a < s /\ s < End(blocks, a) /\ s = a + Header + n
    BY <1>0, <1>1 DEF HasRoom, Mem
  <1>3. s \notin DOMAIN blocks
    BY <1>1, <1>2 DEF Tiled, Good
  <1>4. blocks[a].size - n - Header \in Nat \ {0}
    BY <1>0, <1>1 DEF HasRoom
  <1>5. /\ DOMAIN cs = DOMAIN blocks \cup {s}
        /\ cs[a] = [size |-> n, used |-> TRUE, next |-> s]
        /\ cs[s] = [size |-> blocks[a].size - n - Header, used |-> FALSE,
                    next |-> blocks[a].next]
        /\ \A b \in DOMAIN blocks \ {a} : cs[b] = blocks[b]
    BY <1>2, <1>3 DEF Split
  <1> HIDE DEF s, cs
  <1>6. /\ End(cs, a) = s /\ End(cs, s) = End(blocks, a)
        /\ \A b \in DOMAIN blocks \ {a} : End(cs, b) = End(blocks, b)
    <2>1. End(cs, a) = s
      BY <1>5 DEF End, s
    <2>2. End(cs, s) = End(blocks, a)
      BY <1>0, <1>1, <1>2, <1>5 DEF End, Mem
    <2>3. \A b \in DOMAIN blocks \ {a} : End(cs, b) = End(blocks, b)
      BY <1>5 DEF End
    <2>4. QED
      BY <2>1, <2>2, <2>3
  <1>7. List(cs)
    <2>1. cs[a] \in Block
      BY <1>2, <1>5 DEF Block
    <2>2. cs[s] \in Block
      BY <1>1, <1>4, <1>5 DEF Block
    <2>3. QED
      BY <2>1, <2>2, <1>2, <1>5 DEF List, Good
  <1>8. Tiled(cs)
    <2>1. 0 \in DOMAIN cs
      BY <1>5 DEF Tiled, Good
    <2>2. ASSUME NEW b \in DOMAIN cs
          PROVE  cs[b].size > 0 /\ End(cs, b) <= HeapSize
      <3>1. CASE b = a
        BY <3>1, <1>0, <1>1, <1>2, <1>5, <1>6 DEF Tiled, Good
      <3>2. CASE b = s
        BY <3>2, <1>4, <1>5, <1>6 DEF Tiled, Good
      <3>3. CASE b \in DOMAIN blocks \ {a}
        BY <3>3, <1>5, <1>6 DEF Tiled, Good
      <3>4. QED
        BY <3>1, <3>2, <3>3, <1>5
    <2>3. ASSUME NEW b \in DOMAIN cs
          PROVE  IF cs[b].next = Null THEN End(cs, b) = HeapSize
                 ELSE cs[b].next \in DOMAIN cs /\ cs[b].next = End(cs, b)
      <3>1. CASE b = a
        BY <3>1, <1>2, <1>5, <1>6, HeapAssumption
      <3>2. CASE b = s
        BY <3>2, <1>5, <1>6 DEF Tiled, Good
      <3>3. CASE b \in DOMAIN blocks \ {a}
        BY <3>3, <1>5, <1>6 DEF Tiled, Good
      <3>4. QED
        BY <3>1, <3>2, <3>3, <1>5
    <2>4. ASSUME NEW b \in DOMAIN cs, NEW c \in DOMAIN cs, b < c
          PROVE  End(cs, b) <= c
      <3>1. CASE b = a
        BY <3>1, <2>4, <1>1, <1>2, <1>5, <1>6 DEF Tiled, Good
      <3>2. CASE b = s
        BY <3>2, <2>4, <1>1, <1>2, <1>5, <1>6 DEF Tiled, Good
      <3>3. CASE b \in DOMAIN blocks \ {a}
        BY <3>3, <2>4, <1>1, <1>2, <1>5, <1>6 DEF Tiled, Good
      <3>4. QED
        BY <3>1, <3>2, <3>3, <1>5
    <2>5. QED
      BY <2>1, <2>2, <2>3, <2>4 DEF Tiled
  <1>9. Aligned(cs)
    <2>1. a % Align = 0 /\ blocks[a].size % Align = 0
      BY DEF Aligned, Good
    <2>2. (a + Header) % Align = 0 /\ (blocks[a].size - n) % Align = 0
      BY <2>1, <1>0, <1>1, ModSum
    <2>3. a + Header \in Int /\ blocks[a].size - n \in Int
      BY <1>0, <1>1
    <2>4. (a + Header + n) % Align = 0
      BY <2>2, <2>3, <1>0, ModSum
    <2>5. (blocks[a].size - n - Header) % Align = 0
      BY <2>2, <2>3, <1>0, ModSum
    <2>6. QED
      BY <2>4, <2>5, <1>2, <1>5 DEF Aligned, Good
  <1>10. Cut(blocks, a, n, s, cs)
    BY <1>3, <1>5, <1>7, <1>8, <1>9 DEF Cut, Good
  <1>11. QED
    BY <1>10 DEF s, cs, Rest

---------------------------------------------------------------------------
(* sqlcipher_malloc and sqlcipher_free inside the mutex.                   *)

\* cs is the list after malloc has taken the block at a.
Taken(a, n, cs) ==
    /\ Good(cs) /\ NoTwoFree(cs)
    /\ a \in DOMAIN cs /\ cs[a].used = TRUE /\ cs[a].size >= n
    /\ \A b \in DOMAIN blocks \ {a} : b \in DOMAIN cs /\ cs[b] = blocks[b]
    /\ \A b \in DOMAIN cs : b \notin DOMAIN blocks => cs[b].used = FALSE

\* Malloc cuts or takes the block it has found, and touches no other.
LEMMA TakeShape ==
  ASSUME Good(blocks), NoTwoFree(blocks),
         NEW n \in Nat \ {0}, n % Align = 0, NEW a \in Candidates(n)
  PROVE  Taken(a, n, Take(a, n))
  <1> DEFINE cs == Take(a, n)
             s == Rest(a, n)
  <1>1. a \in DOMAIN blocks /\ blocks[a].used = FALSE /\ blocks[a].size >= n
    BY BlockTypes DEF Candidates, IsFree, Good
  <1>2. a # Null /\ blocks[a].size \in Nat
    BY <1>1, BlockTypes DEF Good
  <1>3. \A b \in DOMAIN blocks : blocks[b].next # Null =>
            /\ blocks[b].next \in DOMAIN blocks
            /\ blocks[b].used = FALSE => /\ blocks[b].next # a
                                         /\ blocks[blocks[b].next].used
    BY <1>1, TiledOrder DEF NoTwoFree, Good
  <1>4. CASE HasRoom(a, n)
    <2>1. cs = Split(a, n)
      BY <1>4 DEF Take
    <2>2. Cut(blocks, a, n, s, Split(a, n))
      BY <1>1, <1>4, SplitShape
    <2> HIDE DEF s, cs
    <2>3. ASSUME NEW b \in DOMAIN cs, ~cs[b].used, cs[b].next # Null
          PROVE  cs[cs[b].next].used
      <3>1. CASE b = s
        BY <2>1, <2>2, <2>3, <3>1, <1>1, <1>3 DEF Cut
      <3>2. CASE b # s
        <4>1. b \in DOMAIN blocks \ {a} /\ cs[b] = blocks[b]
          BY <2>1, <2>2, <2>3, <3>2 DEF Cut
        <4>2. QED
          BY <4>1, <2>1, <2>2, <2>3, <1>3 DEF Cut
      <3>3. QED
        BY <3>1, <3>2
    <2>4. NoTwoFree(cs)
      BY <2>3 DEF NoTwoFree
    <2>5. Taken(a, n, cs)
      BY <2>1, <2>2, <2>4, <1>1 DEF Cut, Taken
    <2>6. QED
      BY <2>5 DEF cs
  <1>5. CASE ~HasRoom(a, n)
    <2>1. cs = SetFlag(blocks, a, TRUE)
      BY <1>5 DEF Take, SetFlag
    <2>2. Flagged(blocks, a, TRUE, SetFlag(blocks, a, TRUE))
      BY <1>1, FlagShape
    <2> HIDE DEF s, cs
    <2>3. NoTwoFree(cs)
      BY <2>1, <2>2, <1>1, <1>3 DEF NoTwoFree, Flagged
    <2>4. Taken(a, n, cs)
      BY <2>1, <2>2, <2>3, <1>1 DEF Flagged, Taken
    <2>5. QED
      BY <2>4 DEF cs
  <1>6. QED
    BY <1>4, <1>5

\* The list after free has cleared the flag, the block to extend, and the
\* list after the merge with the block in front.
Freed(a) == SetFlag(blocks, a, FALSE)
Base(a) == MergeBase(Freed(a), a)
Front(a) == IF Base(a) = a THEN Freed(a) ELSE Merge(Freed(a), Base(a))

\* The block to extend: the one in front of the freed one if that is free.
LEMMA BaseIs ==
  ASSUME Good(blocks), NEW a \in DOMAIN blocks
  PROVE  /\ Base(a) \in DOMAIN blocks /\ Freed(a)[Base(a)].used = FALSE
         /\ Base(a) # a => Freed(a)[Base(a)].next = a
         /\ Base(a) = a => \A p \in DOMAIN blocks :
                             Freed(a)[p].next = a => Freed(a)[p].used
  <1> DEFINE bs == Freed(a)
  <1>1. Flagged(blocks, a, FALSE, bs)
    BY FlagShape DEF Freed
  <1>2. /\ Good(bs) /\ DOMAIN bs = DOMAIN blocks /\ bs[a].used = FALSE
        /\ a # Null /\ \A p \in DOMAIN bs : bs[p].used \in BOOLEAN
    BY <1>1, BlockTypes DEF Flagged, Good
  <1>3. Base(a) = MergeBase(bs, a)
    BY DEF Base
  <1> HIDE DEF bs
  <1>4. CASE \E p \in DOMAIN bs : bs[p].next = a /\ ~bs[p].used
    <2>1. PICK p \in DOMAIN bs : bs[p].next = a /\ ~bs[p].used
      BY <1>4
    <2>2. \A q \in DOMAIN bs : bs[q].next = a => q = p
      BY <2>1, <1>2, TiledOrder DEF Good
    <2>3. MergeBase(bs, a) = p
      BY <1>4, <2>1, <2>2 DEF MergeBase
    <2>4. bs[p].used = FALSE
      BY <2>1, <1>2
    <2>5. p # a
      BY <2>1, <1>2, TiledOrder, BlockTypes DEF Good
    <2>6. QED
      BY <2>1, <2>3, <2>4, <2>5, <1>2, <1>3 DEF bs
  <1>5. CASE ~\E p \in DOMAIN bs : bs[p].next = a /\ ~bs[p].used
    <2>1. MergeBase(bs, a) = a
      BY <1>5 DEF MergeBase
    <2>2. QED
      BY <2>1, <1>2, <1>3, <1>5 DEF bs
  <1>6. QED
    BY <1>4, <1>5

\* After the merge with the block in front: no free block precedes the
\* merged one, and every other block is as it was.
LEMMA FrontShape ==
  ASSUME Good(blocks), NoTwoFree(blocks), NEW a \in DOMAIN blocks
  PROVE  LET front == Front(a)
             base == Base(a)
         IN  /\ Good(front) /\ base \in DOMAIN front /\ front[base].used = FALSE
             /\ DOMAIN front \subseteq DOMAIN blocks
             /\ \A b \in DOMAIN front \ {base} : b # a /\ front[b] = blocks[b]
             /\ \A b \in DOMAIN blocks \ {a, base} : b \in DOMAIN front
             /\ base # a => blocks[base].used = FALSE
             /\ \A p \in DOMAIN front : front[p].next = base => front[p].used
  <1> DEFINE freed == Freed(a)
             base == Base(a)
             front == Front(a)
  <1>1. Flagged(blocks, a, FALSE, freed)
    BY FlagShape DEF Freed
  <1>2. /\ base \in DOMAIN blocks /\ freed[base].used = FALSE
        /\ base # a => freed[base].next = a
        /\ base = a => \A p \in DOMAIN blocks : freed[p].next = a => freed[p].used
    BY BaseIs
  <1>3. front = IF base = a THEN freed ELSE Merge(freed, base)
    BY DEF Front
  <1>4. base # Null /\ a # Null /\ \A b \in DOMAIN blocks : blocks[b].used \in BOOLEAN
    BY <1>2, BlockTypes DEF Good
  <1> HIDE DEF freed, base, front
  <1>5. CASE base = a
    BY <1>1, <1>2, <1>3, <1>5 DEF Flagged, front, base
  <1>6. CASE base # a
    <2>1. Merged(freed, base, Merge(freed, base))
      BY <1>1, <1>2, <1>4, <1>6, MergeShape DEF Flagged
    <2>2. /\ Good(front) /\ base \in DOMAIN front
          /\ DOMAIN front = DOMAIN blocks \ {a} /\ front[base].used = FALSE
          /\ \A b \in DOMAIN front : b # base => front[b] = blocks[b]
      BY <2>1, <1>1, <1>2, <1>3, <1>6 DEF Merged, Flagged
    <2>3. blocks[base].used = FALSE
      BY <1>1, <1>2, <1>6 DEF Flagged
    <2>4. ASSUME NEW p \in DOMAIN front, front[p].next = base
          PROVE  front[p].used
      <3>1. p # base
        BY <2>2, <2>4, <1>4, TiledOrder, BlockTypes DEF Good
      <3>2. p \in DOMAIN blocks /\ front[p] = blocks[p]
        BY <3>1, <2>2
      <3>3. QED
        BY <2>3, <2>4, <3>2, <1>4 DEF NoTwoFree
    <2>5. QED
      BY <2>2, <2>3, <2>4 DEF front, base
  <1>7. QED
    BY <1>5, <1>6

\* cs is the list after free has given back the block at a.
Given(a, cs) ==
    /\ Good(cs) /\ NoTwoFree(cs)
    /\ \A b \in DOMAIN blocks \ {a} : blocks[b].used =>
         b \in DOMAIN cs /\ cs[b] = blocks[b]
    /\ \A b \in DOMAIN cs : cs[b].used =>
         b \in DOMAIN blocks \ {a} /\ cs[b] = blocks[b]

\* Free merges on both sides: no two free blocks are neighbours afterwards,
\* and the used blocks are the ones before, without the freed one.
LEMMA GiveShape ==
  ASSUME Good(blocks), NoTwoFree(blocks), NEW a \in DOMAIN blocks
  PROVE  Given(a, Give(a))
  <1> DEFINE cs == Give(a)
             base == Base(a)
             front == Front(a)
             n == front[base].next
  <1>1. cs = IF n # Null /\ ~front[n].used THEN Merge(front, base) ELSE front
    BY DEF Give, Front, Base, Freed, SetFlag, IsFree
  <1>2. /\ Good(front) /\ base \in DOMAIN front /\ front[base].used = FALSE
        /\ DOMAIN front \subseteq DOMAIN blocks
        /\ \A b \in DOMAIN front \ {base} : b # a /\ front[b] = blocks[b]
        /\ \A b \in DOMAIN blocks \ {a, base} : b \in DOMAIN front
        /\ base # a => blocks[base].used = FALSE
        /\ \A p \in DOMAIN front : front[p].next = base => front[p].used
    BY FrontShape
  <1> HIDE DEF cs, base, front
  <1>3. /\ \A b \in DOMAIN blocks : b \in Nat /\ b # Null /\ blocks[b].used \in BOOLEAN
        /\ \A b \in DOMAIN front : front[b].used \in BOOLEAN
        /\ \A b \in DOMAIN front : front[b].next # Null =>
              front[b].next \in DOMAIN front /\ front[b].next > b
    BY <1>2, BlockTypes, TiledOrder DEF Good
  \* A free block other than the merged one still has a used one behind it.
  <1>4. ASSUME NEW b \in DOMAIN front \ {base}, ~front[b].used,
               front[b].next # Null
        PROVE  /\ front[b].next \in DOMAIN front \ {base}
               /\ front[front[b].next].used
    <2>1. front[b].next \in DOMAIN front \ {base}
      BY <1>2, <1>3, <1>4
    <2>2. b \in DOMAIN blocks /\ front[b] = blocks[b]
      BY <1>2
    <2>3. blocks[blocks[b].next].used
      BY <2>2, <1>4 DEF NoTwoFree
    <2>4. QED
      BY <2>1, <2>2, <2>3, <1>2
  <1>5. CASE n # Null /\ ~front[n].used
    <2>1. cs = Merge(front, base)
      BY <1>1, <1>5
    <2>2. Merged(front, base, Merge(front, base))
      BY <1>2, <1>5, MergeShape
    <2>3. n \in DOMAIN front \ {base}
      BY <1>2, <1>3, <1>5
    <2>4. ASSUME NEW b \in DOMAIN cs, ~cs[b].used, cs[b].next # Null
          PROVE  cs[cs[b].next].used
      <3>1. CASE b = base
        <4>1. cs[b].next = front[n].next
          BY <3>1, <2>1, <2>2 DEF Merged
        <4>2. cs[b].next \in DOMAIN front \ {base} /\ front[cs[b].next].used
          BY <4>1, <2>3, <2>4, <1>4, <1>5
        <4>3. cs[b].next \in DOMAIN cs
          BY <4>2, <2>1, <2>2, <1>5 DEF Merged
        <4>4. QED
          BY <4>2, <4>3, <2>1, <2>2 DEF Merged
      <3>2. CASE b # base
        <4>1. b \in DOMAIN front \ {base} /\ cs[b] = front[b]
          BY <3>2, <2>1, <2>2 DEF Merged
        <4>2. front[b].next \in DOMAIN front \ {base} /\ front[front[b].next].used
          BY <4>1, <2>4, <1>4
        <4>3. QED
          BY <4>1, <4>2, <2>1, <2>2, <1>5 DEF Merged
      <3>3. QED
        BY <3>1, <3>2
    <2>5. NoTwoFree(cs)
      BY <2>4 DEF NoTwoFree
    <2>6. ASSUME NEW b \in DOMAIN blocks \ {a}, blocks[b].used
          PROVE  b \in DOMAIN cs /\ cs[b] = blocks[b]
      <3>1. b \in DOMAIN front \ {base} /\ front[b] = blocks[b]
        BY <2>6, <1>2
      <3>2. b # n
        BY <3>1, <2>6, <1>5
      <3>3. QED
        BY <3>1, <3>2, <2>1, <2>2 DEF Merged
    <2>7. ASSUME NEW b \in DOMAIN cs, cs[b].used
          PROVE  b \in DOMAIN blocks \ {a} /\ cs[b] = blocks[b]
      BY <2>7, <2>1, <2>2, <1>2 DEF Merged
    <2>8. Given(a, cs)
      BY <2>1, <2>2, <2>5, <2>6, <2>7 DEF Given, Merged
    <2>9. QED
      BY <2>8 DEF cs
  <1>6. CASE ~(n # Null /\ ~front[n].used)
    <2>1. cs = front
      BY <1>1, <1>6
    <2>2. NoTwoFree(cs)
      BY <2>1, <1>4, <1>6 DEF NoTwoFree
    <2>3. ASSUME NEW b \in DOMAIN blocks \ {a}, blocks[b].used
          PROVE  b \in DOMAIN cs /\ cs[b] = blocks[b]
      BY <2>1, <2>3, <1>2
    <2>4. ASSUME NEW b \in DOMAIN cs, cs[b].used
          PROVE  b \in DOMAIN blocks \ {a} /\ cs[b] = blocks[b]
      BY <2>1, <2>4, <1>2
    <2>5. Given(a, cs)
      BY <2>1, <2>2, <2>3, <2>4, <1>2 DEF Given
    <2>6. QED
      BY <2>5 DEF cs
  <1>7. QED
    BY <1>5, <1>6

---------------------------------------------------------------------------
(* The invariant.                                                          *)

\* The types of what is not the list.
RestTypeOK ==
    /\ live \subseteq [mem : Nat, size : Nat]
    /\ at \in [Threads -> [do : Steps, n : Int, old : Nat, mem : Nat \cup {Null}]]
    /\ used \in Nat /\ hwm \in Nat

\* The invariant in the terms of the lemmas above.
LEMMA IInvParts ==
    IInv <=> RestTypeOK /\ Good(blocks) /\ NoTwoFree(blocks) /\ LiveInv
  <1>1. TypeOK <=> List(blocks) /\ RestTypeOK
    BY DEF TypeOK, List, RestTypeOK
  <1>2. Good(blocks) => (Coalesced <=> NoTwoFree(blocks))
    <2> SUFFICES ASSUME Good(blocks) PROVE Coalesced <=> NoTwoFree(blocks)
      OBVIOUS
    <2>1. \A b \in DOMAIN blocks : b # Null
      BY BlockTypes DEF Good
    <2>2. QED
      BY <2>1 DEF Coalesced, NoTwoFree, IsFree
  <1>3. QED
    BY <1>1, <1>2 DEF IInv, Good

\* The same, of the state after a step.
LEMMA IInvNext ==
    RestTypeOK' /\ Good(blocks') /\ NoTwoFree(blocks') /\ LiveInv' => IInv'
  <1> SUFFICES ASSUME RestTypeOK', Good(blocks'), NoTwoFree(blocks'), LiveInv'
               PROVE  IInv'
    OBVIOUS
  <1>1. TypeOK'
    BY DEF TypeOK, RestTypeOK, Good, List
  <1>2. Tiled(blocks)'
    BY DEF Good, Tiled, End, Mem
  <1>3. Aligned(blocks)'
    BY DEF Good, Aligned
  <1>4. Coalesced'
    <2>1. \A b \in DOMAIN blocks' : b # Null
      BY BlockTypes DEF Good
    <2>2. QED
      BY <2>1 DEF NoTwoFree, Coalesced, IsFree
  <1>5. QED
    BY <1>1, <1>2, <1>3, <1>4 DEF IInv

\* Memory of the heap is never memory of malloc, and belongs to one block.
LEMMA MemOfBlock ==
  ASSUME Good(blocks), NEW a \in DOMAIN blocks
  PROVE  /\ Mem(a) \in Nat /\ Mem(a) \notin Outside /\ Mem(a) <= HeapSize
         /\ Mem(a) - Header = a
         /\ \A b \in DOMAIN blocks : Mem(b) = Mem(a) => b = a
  <1>1. /\ Header \in Nat /\ HeapSize \in Nat
        /\ \A m \in Outside : m > HeapSize
    BY HeapAssumption
  <1>2. \A b \in DOMAIN blocks : b \in Nat
    BY DEF Good, List
  <1>3. Mem(a) \in Nat /\ Mem(a) <= HeapSize
    BY <1>1, BlockTypes DEF Good, Mem
  <1>4. QED
    BY <1>1, <1>2, <1>3 DEF Mem

\* One free block that fills the heap, nothing allocated, nobody in a call.
LEMMA InitIInv == Init => IInv
  <1> SUFFICES ASSUME Init PROVE IInv
    OBVIOUS
  <1>0. /\ Header \in Nat /\ HeapSize \in Nat /\ Align \in Nat \ {0}
        /\ HeapSize % Align = 0 /\ Header % Align = 0 /\ HeapSize > Header
    BY HeapAssumption
  <1>1. /\ DOMAIN blocks = {0}
        /\ blocks[0] = [size |-> HeapSize - Header, used |-> FALSE, next |-> Null]
    BY DEF Init
  <1>2. RestTypeOK
    <2>1. Idle \in [do : Steps, n : Int, old : Nat, mem : Nat \cup {Null}]
      BY DEF Idle, Steps
    <2>2. QED
      BY <2>1 DEF Init, RestTypeOK
  <1>3. List(blocks)
    <2>1. HeapSize - Header \in Nat
      BY <1>0
    <2>2. [size |-> HeapSize - Header, used |-> FALSE, next |-> Null] \in Block
      BY <2>1 DEF Block
    <2>3. blocks[0] \in Block /\ 0 \in Nat
      BY <2>2, <1>1
    <2>4. QED
      BY ONLY <2>3, <1>1 DEF List
  <1>4. Tiled(blocks)
    BY <1>0, <1>1 DEF Tiled, End, Mem
  <1>5. Aligned(blocks)
    <2>1. 0 % Align = 0
      BY <1>0
    <2>2. HeapSize \in Int /\ Header \in Int
      BY <1>0
    <2>3. (HeapSize - Header) % Align = 0
      BY ONLY <2>2, <1>0, ModSum
    <2>4. QED
      BY <2>1, <2>3, <1>1 DEF Aligned
  <1>6. NoTwoFree(blocks)
    BY <1>1 DEF NoTwoFree
  <1>7. LiveInv
    BY <1>1 DEF Init, LiveInv
  <1>8. QED
    BY <1>2, <1>3, <1>4, <1>5, <1>6, <1>7, IInvParts DEF Good

\* What malloc hands out from the heap is new: no caller holds it.
LEMMA TakenIsNew ==
  ASSUME IInv, NEW n, NEW a \in Candidates(n), NEW x \in live
  PROVE  x.mem # Mem(a)
  <1>1. Good(blocks) /\ a \in DOMAIN blocks /\ ~blocks[a].used
    BY IInvParts, BlockTypes DEF Candidates, IsFree, Good
  <1>2. QED
    BY <1>1, MemOfBlock DEF IInv, LiveInv

\* The first fit is a candidate.
LEMMA FirstFitIs ==
  ASSUME Good(blocks), NEW n, Candidates(n) # {}
  PROVE  FirstFit(n) \in Candidates(n)
  <1>1. Candidates(n) \in SUBSET Nat
    BY DEF Candidates, Good, List
  <1>2. \E a \in Candidates(n) : \A b \in Candidates(n) : a <= b
    BY <1>1, LeastAddress
  <1>3. QED
    BY <1>2 DEF FirstFit

\* sqlcipher_malloc of a block of the heap.
LEMMA MallocIInv ==
  ASSUME IInv, NEW t \in Threads, Malloc(t)
  PROVE  IInv'
  <1>1. PICK r \in Requests :
          /\ Candidates(RoundUp(r)) # {}
          /\ blocks' = Take(FirstFit(RoundUp(r)), RoundUp(r))
          /\ live' = live \cup {[mem |-> Mem(FirstFit(RoundUp(r))),
                                 size |-> RoundUp(r)]}
          /\ Then(t, "load", RoundUp(r), Mem(FirstFit(RoundUp(r))))
    BY DEF Malloc
  <1> DEFINE n == RoundUp(r)
             a == FirstFit(n)
             x == [mem |-> Mem(a), size |-> n]
  <1>2. /\ RestTypeOK /\ Good(blocks) /\ NoTwoFree(blocks) /\ LiveInv
        /\ used' = used /\ hwm' = hwm
    BY IInvParts DEF Malloc
  <1>3. n \in Nat \ {0} /\ n % Align = 0
    BY RoundUpMultiple, HeapAssumption
  <1>4. a \in Candidates(n)
    BY <1>1, <1>2, FirstFitIs
  <1>5. a \in DOMAIN blocks /\ ~blocks[a].used
    BY <1>2, <1>4, BlockTypes DEF Candidates, IsFree, Good
  <1>6. Taken(a, n, blocks')
    BY <1>1, <1>2, <1>3, <1>4, TakeShape
  <1>7. /\ Mem(a) \in Nat /\ Mem(a) \notin Outside
        /\ \A b \in DOMAIN blocks : Mem(b) = Mem(a) => b = a
    BY <1>2, <1>5, MemOfBlock
  <1>8. \A y \in live : y.mem # Mem(a)
    BY <1>4, TakenIsNew
  <1>9. live' = live \cup {x} /\ Then(t, "load", n, Mem(a)) /\ x.mem = Mem(a)
        /\ x.size = n
    BY <1>1
  <1> HIDE DEF n, a, x
  <1>10. RestTypeOK'
    <2>1. x \in [mem : Nat, size : Nat]
      BY <1>3, <1>7 DEF x
    <2>2. live' \subseteq [mem : Nat, size : Nat]
      BY <2>1, <1>2, <1>9 DEF RestTypeOK
    <2>3. at' \in [Threads -> [do : Steps, n : Int, old : Nat, mem : Nat \cup {Null}]]
      BY <1>2, <1>3, <1>7, <1>9 DEF RestTypeOK, Then, Steps
    <2>4. QED
      BY <2>2, <2>3, <1>2 DEF RestTypeOK
  <1>11. LiveInv'
    <2>1. ASSUME NEW y \in live', NEW z \in live', y.mem = z.mem PROVE y = z
      BY <2>1, <1>2, <1>8, <1>9 DEF LiveInv
    <2>2. ASSUME NEW y \in live', y.mem \notin Outside
          PROVE  \E b \in DOMAIN blocks' : Mem(b) = y.mem /\ blocks'[b].used
                                           /\ blocks'[b].size >= y.size
      <3>1. CASE y = x
        BY <3>1, <1>6, <1>9 DEF Taken
      <3>2. CASE y \in live
        <4>1. PICK b \in DOMAIN blocks : Mem(b) = y.mem /\ blocks[b].used
                                         /\ blocks[b].size >= y.size
          BY <3>2, <2>2, <1>2 DEF LiveInv
        <4>2. QED
          BY <4>1, <1>5, <1>6 DEF Taken
      <3>3. QED
        BY <3>1, <3>2, <1>9
    <2>3. ASSUME NEW b \in DOMAIN blocks', blocks'[b].used
          PROVE  \E y \in live' : y.mem = Mem(b)
      BY <2>3, <1>2, <1>6, <1>9 DEF Taken, LiveInv
    <2>4. QED
      BY <2>1, <2>2, <2>3 DEF LiveInv, Mem
  <1>12. Good(blocks') /\ NoTwoFree(blocks')
    BY <1>6 DEF Taken
  <1>13. QED
    BY <1>10, <1>11, <1>12, IInvNext

\* sqlcipher_malloc when no block is large enough: memory of sqlite3_malloc.
LEMMA OverflowIInv ==
  ASSUME IInv, NEW t \in Threads, Overflow(t)
  PROVE  IInv'
  <1>1. PICK r \in Requests, m \in Outside :
          /\ \A y \in live : y.mem # m
          /\ live' = live \cup {[mem |-> m, size |-> RoundUp(r)]}
    BY DEF Overflow
  <1> DEFINE x == [mem |-> m, size |-> RoundUp(r)]
  <1>2. /\ RestTypeOK /\ Good(blocks) /\ NoTwoFree(blocks) /\ LiveInv
        /\ blocks' = blocks /\ at' = at /\ used' = used /\ hwm' = hwm
    BY IInvParts DEF Overflow
  <1>3. x \in [mem : Nat, size : Nat] /\ x.mem = m /\ live' = live \cup {x}
    BY <1>1, RoundUpMultiple, HeapAssumption
  <1>4. \A b \in DOMAIN blocks : Mem(b) # m
    BY <1>2, MemOfBlock
  <1> HIDE DEF x
  <1>5. RestTypeOK'
    BY <1>2, <1>3 DEF RestTypeOK
  <1>6. LiveInv'
    <2>1. ASSUME NEW y \in live', NEW z \in live', y.mem = z.mem PROVE y = z
      BY <2>1, <1>1, <1>2, <1>3 DEF LiveInv
    <2>2. ASSUME NEW y \in live', y.mem \notin Outside
          PROVE  \E b \in DOMAIN blocks : Mem(b) = y.mem /\ blocks[b].used
                                          /\ blocks[b].size >= y.size
      BY <2>2, <1>2, <1>3 DEF LiveInv
    <2>3. ASSUME NEW b \in DOMAIN blocks, blocks[b].used
          PROVE  \E y \in live' : y.mem = Mem(b)
      BY <2>3, <1>2, <1>3 DEF LiveInv
    <2>4. QED
      BY <2>1, <2>2, <2>3, <1>2 DEF LiveInv, Mem
  <1>7. QED
    BY <1>2, <1>5, <1>6, IInvNext

\* sqlcipher_free of a block of the heap or of memory of malloc.
LEMMA FreeIInv ==
  ASSUME IInv, NEW t \in Threads, Free(t)
  PROVE  IInv'
  <1>1. PICK x \in live :
          /\ live' = live \ {x}
          /\ IF \E b \in DOMAIN blocks : Mem(b) = x.mem
             THEN /\ blocks' = Give(x.mem - Header)
                  /\ Then(t, "load", -blocks[x.mem - Header].size, Null)
             ELSE UNCHANGED <<blocks, at>>
    BY DEF Free
  <1>2. /\ RestTypeOK /\ Good(blocks) /\ NoTwoFree(blocks) /\ LiveInv
        /\ used' = used /\ hwm' = hwm
    BY IInvParts DEF Free
  <1>3. live' \subseteq [mem : Nat, size : Nat]
        /\ \A y, z \in live' : y.mem = z.mem => y = z
    BY <1>1, <1>2 DEF RestTypeOK, LiveInv
  <1>4. CASE \E b \in DOMAIN blocks : Mem(b) = x.mem
    <2>1. PICK a \in DOMAIN blocks : Mem(a) = x.mem
      BY <1>4
    <2>2. /\ x.mem - Header = a /\ x.mem \notin Outside
          /\ \A b \in DOMAIN blocks : Mem(b) = x.mem => b = a
      BY <2>1, <1>2, MemOfBlock
    <2>3. blocks' = Give(a) /\ Then(t, "load", -blocks[a].size, Null)
      BY <1>1, <1>4, <2>2
    <2>4. Given(a, blocks')
      BY <2>3, <1>2, GiveShape
    <2>5. RestTypeOK'
      <3>1. -blocks[a].size \in Int
        BY <1>2, BlockTypes DEF Good
      <3>2. at' \in [Threads -> [do : Steps, n : Int, old : Nat, mem : Nat \cup {Null}]]
        BY <3>1, <2>3, <1>2 DEF RestTypeOK, Then, Steps
      <3>3. QED
        BY <3>2, <1>2, <1>3 DEF RestTypeOK
    <2>6. LiveInv'
      <3>1. ASSUME NEW y \in live', y.mem \notin Outside
            PROVE  \E b \in DOMAIN blocks' : Mem(b) = y.mem /\ blocks'[b].used
                                             /\ blocks'[b].size >= y.size
        <4>1. y \in live /\ y.mem # x.mem
          BY <1>1, <1>2, <3>1 DEF LiveInv
        <4>2. PICK b \in DOMAIN blocks : Mem(b) = y.mem /\ blocks[b].used
                                         /\ blocks[b].size >= y.size
          BY <4>1, <3>1, <1>2 DEF LiveInv
        <4>3. b # a
          BY <4>1, <4>2, <2>1
        <4>4. QED
          BY <4>2, <4>3, <2>4 DEF Given
      <3>2. ASSUME NEW b \in DOMAIN blocks', blocks'[b].used
            PROVE  \E y \in live' : y.mem = Mem(b)
        <4>1. b \in DOMAIN blocks /\ b # a /\ blocks[b].used
          BY <3>2, <2>4 DEF Given
        <4>2. PICK y \in live : y.mem = Mem(b)
          BY <4>1, <1>2 DEF LiveInv
        <4>3. y # x
          BY <4>1, <4>2, <2>2
        <4>4. QED
          BY <4>2, <4>3, <1>1
      <3>3. QED
        BY <3>1, <3>2, <1>3 DEF LiveInv, Mem
    <2>7. QED
      BY <2>4, <2>5, <2>6, IInvNext DEF Given
  <1>5. CASE ~\E b \in DOMAIN blocks : Mem(b) = x.mem
    <2>1. blocks' = blocks /\ at' = at
      BY <1>1, <1>5
    <2>2. RestTypeOK'
      BY <2>1, <1>2, <1>3 DEF RestTypeOK
    <2>3. ASSUME NEW b \in DOMAIN blocks, blocks[b].used
          PROVE  \E y \in live' : y.mem = Mem(b)
      BY <2>3, <1>1, <1>2, <1>5 DEF LiveInv
    <2>4. \A y \in live' : y.mem \notin Outside =>
             \E b \in DOMAIN blocks : Mem(b) = y.mem /\ blocks[b].used
                                      /\ blocks[b].size >= y.size
      BY <1>1, <1>2 DEF LiveInv
    <2>5. LiveInv'
      BY <2>1, <2>3, <2>4, <1>3 DEF LiveInv, Mem
    <2>6. QED
      BY <2>1, <2>2, <2>5, <1>2, IInvNext
  <1>6. QED
    BY <1>4, <1>5

\* The updates of the statistics, outside the mutex: the list and the
\* allocations stay as they are.
LEMMA StatisticsIInv ==
  ASSUME IInv, NEW t \in Threads,
         LoadUsed(t) \/ StoreUsed(t) \/ CompareHwm(t) \/ MarkHwm(t)
  PROVE  IInv'
  <1>1. /\ RestTypeOK /\ Good(blocks) /\ NoTwoFree(blocks) /\ LiveInv
        /\ blocks' = blocks /\ live' = live
    BY IInvParts DEF LoadUsed, StoreUsed, CompareHwm, MarkHwm, heap
  <1>2. Idle \in [do : Steps, n : Int, old : Nat, mem : Nat \cup {Null}]
        /\ 0 \in Int /\ 0 \in Nat
    BY DEF Idle, Steps
  <1>3. \A v \in Int : v % Wrap \in Nat
    BY HeapAssumption
  <1>4. RestTypeOK'
    <2>1. CASE LoadUsed(t)
      BY <2>1, <1>1 DEF LoadUsed, RestTypeOK, Steps, heap
    <2>2. CASE StoreUsed(t)
      <3>1. at[t].old + at[t].n \in Int
        BY <1>1 DEF RestTypeOK
      <3>2. used' \in Nat /\ hwm' = hwm
        BY <3>1, <2>2, <1>3 DEF StoreUsed
      <3>3. at' \in [Threads -> [do : Steps, n : Int, old : Nat, mem : Nat \cup {Null}]]
        BY <2>2, <1>1, <1>2 DEF StoreUsed, RestTypeOK, Then, Return, Steps
      <3>4. QED
        BY <3>2, <3>3, <1>1 DEF RestTypeOK
    <2>3. CASE CompareHwm(t)
      BY <2>3, <1>1, <1>2 DEF CompareHwm, RestTypeOK, Then, Return, Steps, heap
    <2>4. CASE MarkHwm(t)
      BY <2>4, <1>1, <1>2 DEF MarkHwm, RestTypeOK, Return, heap
    <2>5. QED
      BY <2>1, <2>2, <2>3, <2>4
  <1>5. LiveInv'
    BY <1>1 DEF LiveInv, Mem
  <1>6. QED
    BY <1>1, <1>4, <1>5, IInvNext

\* Every step of every thread keeps the invariant.
LEMMA NextIInv == IInv /\ [Next]_vars => IInv'
  <1> SUFFICES ASSUME IInv, [Next]_vars PROVE IInv'
    OBVIOUS
  <1>1. ASSUME NEW t \in Threads,
               Malloc(t) \/ Overflow(t) \/ Free(t) \/ LoadUsed(t) \/ StoreUsed(t)
               \/ CompareHwm(t) \/ MarkHwm(t)
        PROVE  IInv'
    BY <1>1, MallocIInv, OverflowIInv, FreeIInv, StatisticsIInv
  <1>2. CASE UNCHANGED vars
    BY <1>2 DEF vars, IInv, TypeOK, Tiled, Aligned, Coalesced, LiveInv, End, Mem,
                IsFree
  <1>3. QED
    BY <1>1, <1>2 DEF Next

\* The invariant holds in every state the threads can reach.
THEOREM Invariance == Spec => []IInv
  BY InitIInv, NextIInv, PTL DEF Spec

---------------------------------------------------------------------------
(* What follows from it.                                                   *)

\* Every variable keeps its type, with the arithmetic of size_t in used.
THEOREM TypeCorrect == Spec => []TypeOK
  BY Invariance, PTL DEF IInv

\* The list of blocks tiles the heap, whatever is allocated and freed in
\* whatever order: sqlcipher_malloc and sqlcipher_free never lose a byte and
\* never write a header into memory that a caller holds.
THEOREM HeapTiles == Spec => []BlocksTile
  <1>1. IInv => BlocksTile
    BY DEF IInv, Tiled, BlocksTile
  <1>2. QED
    BY <1>1, Invariance, PTL

\* Free blocks are always merged with their neighbours.
THEOREM HeapCoalesced == Spec => []Coalesced
  BY Invariance, PTL DEF IInv

\* Used blocks and allocations correspond: no free takes a neighbour's memory.
THEOREM HeapUsedIsLive == Spec => []UsedIsLive
  <1>1. IInv => UsedIsLive
    BY DEF IInv, LiveInv, UsedIsLive
  <1>2. QED
    BY <1>1, Invariance, PTL

\* When everything has been freed the heap is one free block again, in
\* whatever order it was cut and given back.
THEOREM EmptyIsWhole == Spec => []EmptyHeapIsWhole
  <1>1. IInv => EmptyHeapIsWhole
    <2> SUFFICES ASSUME IInv, \A b \in DOMAIN blocks : ~blocks[b].used,
                        NEW b \in DOMAIN blocks, b # 0
                 PROVE  FALSE
      BY DEF EmptyHeapIsWhole, IInv, Tiled
    <2>1. /\ Good(blocks) /\ NoTwoFree(blocks) /\ 0 \in DOMAIN blocks
          /\ b \in Nat /\ b < End(blocks, b) /\ End(blocks, b) <= HeapSize
          /\ End(blocks, b) \in Nat /\ End(blocks, 0) \in Nat /\ HeapSize \in Nat
      BY IInvParts, BlockTypes, HeapAssumption DEF Good, Tiled
    <2>2. End(blocks, 0) <= b
      BY <2>1 DEF Good, Tiled
    <2>3. End(blocks, 0) # HeapSize
      BY <2>1, <2>2
    <2>4. blocks[0].next # Null /\ blocks[0].next \in DOMAIN blocks
      BY <2>1, <2>3 DEF Good, Tiled
    <2>5. QED
      BY <2>1, <2>4 DEF NoTwoFree
  <1>2. QED
    BY <1>1, Invariance, PTL

\* A call hands out memory that an allocator may hand out: aligned, inside
\* the heap, and apart from everything that is allocated.
LEMMA MallocRefines ==
  ASSUME IInv, IInv', NEW t \in Threads, Malloc(t)
  PROVE  \E x \in live' \ live : Alloc!Malloc(x)
  <1>1. PICK r \in Requests :
          /\ Candidates(RoundUp(r)) # {}
          /\ blocks' = Take(FirstFit(RoundUp(r)), RoundUp(r))
          /\ live' = live \cup {[mem |-> Mem(FirstFit(RoundUp(r))),
                                 size |-> RoundUp(r)]}
    BY DEF Malloc
  <1> DEFINE n == RoundUp(r)
             a == FirstFit(n)
             x == [mem |-> Mem(a), size |-> n]
  <1>2. RestTypeOK /\ Good(blocks) /\ LiveInv
    BY IInvParts
  <1>3. n \in Nat \ {0} /\ n % Align = 0
    BY RoundUpMultiple, HeapAssumption
  <1>4. a \in Candidates(n)
    BY <1>1, <1>2, FirstFitIs
  <1>5. a \in DOMAIN blocks /\ blocks[a].used = FALSE /\ blocks[a].size >= n
    BY <1>2, <1>4, BlockTypes DEF Candidates, IsFree, Good
  <1>6. /\ Mem(a) \in Nat /\ Mem(a) \notin Outside
        /\ \A y \in live : y.mem # Mem(a)
    BY <1>2, <1>4, <1>5, MemOfBlock, TakenIsNew
  <1>7. live' = live \cup {x} /\ x.mem = Mem(a) /\ x.size = n
    BY <1>1
  <1> HIDE DEF n, a, x
  <1>8. Mem(a) % Align = 0
    <2>1. a \in Int /\ a % Align = 0 /\ Header \in Int /\ Header % Align = 0
          /\ Align \in Nat \ {0}
      BY <1>2, <1>5, HeapAssumption DEF Good, List, Aligned
    <2>2. QED
      BY ONLY <2>1, ModSum DEF Mem
  <1>9. \A b \in DOMAIN blocks :
           /\ b \in Nat /\ Mem(b) = b + Header /\ Header \in Nat
           /\ blocks[b].size \in Nat
           /\ End(blocks, b) \in Nat /\ End(blocks, b) <= HeapSize
           /\ End(blocks, b) = Mem(b) + blocks[b].size
    BY <1>2, BlockTypes, HeapAssumption DEF Good, End, Mem
  <1>10. Mem(a) + n <= HeapSize
    BY <1>3, <1>5, <1>9, HeapAssumption
  <1>11. ASSUME NEW y \in live, y.mem \notin Outside
         PROVE  x.mem + x.size <= y.mem \/ y.mem + y.size <= x.mem
    <2>1. PICK b \in DOMAIN blocks : Mem(b) = y.mem /\ blocks[b].used
                                     /\ blocks[b].size >= y.size
      BY <1>2, <1>11 DEF LiveInv
    <2>2. b # a /\ y.size \in Nat
      BY <2>1, <1>2, <1>5 DEF RestTypeOK
    <2>3. a < b \/ b < a
      BY <2>2, <1>5, <1>9
    <2>4. a < b => End(blocks, a) <= b
      BY <1>2, <1>5, <2>1 DEF Good, Tiled
    <2>5. b < a => End(blocks, b) <= a
      BY <1>2, <1>5, <2>1 DEF Good, Tiled
    <2>6. QED
      BY <2>1, <2>2, <2>3, <2>4, <2>5, <1>3, <1>5, <1>7, <1>9
  <1>12. x \in live' \ live
    BY <1>6, <1>7
  <1>13. Alloc!Fits(x)
    BY <1>6, <1>7, <1>8, <1>10, <1>11 DEF Alloc!Fits, Alloc!Inside, Alloc!Before
  <1>14. QED
    BY <1>3, <1>7, <1>12, <1>13 DEF Alloc!Malloc

\* So is memory of sqlite3_malloc: it lies behind every address of the heap.
LEMMA OverflowRefines ==
  ASSUME IInv, NEW t \in Threads, Overflow(t)
  PROVE  \E x \in live' \ live : Alloc!Malloc(x)
  <1>1. PICK r \in Requests, m \in Outside :
          /\ \A y \in live : y.mem # m
          /\ live' = live \cup {[mem |-> m, size |-> RoundUp(r)]}
    BY DEF Overflow
  <1> DEFINE x == [mem |-> m, size |-> RoundUp(r)]
  <1>2. x \in live' \ live /\ live' = live \cup {x} /\ x.mem = m
    BY <1>1
  <1>3. x.size \in Nat
    BY RoundUpMultiple, HeapAssumption
  <1> HIDE DEF x
  <1>4. Alloc!Fits(x)
    BY <1>1, <1>2 DEF Alloc!Fits, Alloc!Inside
  <1>5. QED
    BY <1>2, <1>3, <1>4 DEF Alloc!Malloc

\* Every step of the heap is a step of the allocator or leaves it alone.
LEMMA StepRefines ==
  ASSUME IInv, IInv', [Next]_vars
  PROVE  [Alloc!Next]_live
  <1>1. ASSUME NEW t \in Threads, Malloc(t) \/ Overflow(t)
        PROVE  Alloc!Next
    BY <1>1, MallocRefines, OverflowRefines DEF Alloc!Next
  <1>2. ASSUME NEW t \in Threads, Free(t)
        PROVE  Alloc!Next
    BY <1>2 DEF Free, Alloc!Next, Alloc!Free
  <1>3. ASSUME NEW t \in Threads,
               LoadUsed(t) \/ StoreUsed(t) \/ CompareHwm(t) \/ MarkHwm(t)
        PROVE  UNCHANGED live
    BY <1>3 DEF LoadUsed, StoreUsed, CompareHwm, MarkHwm, heap
  <1>4. CASE UNCHANGED vars
    BY <1>4 DEF vars
  <1>5. QED
    BY <1>1, <1>2, <1>3, <1>4 DEF Next

\* What callers see of the private heap is an allocator.
THEOREM RefinesAllocator == Spec => AllocSpec
  <1>1. Init => Alloc!Init
    BY DEF Init, Alloc!Init
  <1>2. QED
    BY <1>1, StepRefines, Invariance, PTL DEF Spec, AllocSpec, Alloc!Spec
=============================================================================
