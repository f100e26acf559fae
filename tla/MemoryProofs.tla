---------------------------- MODULE MemoryProofs ----------------------------
(***************************************************************************)
(* Theorems about the allocators of the kernel, for memory of any size:    *)
(* the physical memory manager (Pmm) and the heap above it (Heap).         *)
(*                                                                         *)
(* Pmm: the blocks of the free lists and the blocks that callers hold are  *)
(* a tiling of the available pages.  The loops of pmm_init, split_block    *)
(* and coalesce_buddies are reasoned about with ListLemmas.                *)
(*                                                                         *)
(* Heap: the free list is the chain of a set of blocks in the order of     *)
(* their addresses; each operation is a few links, cuts and merges, and    *)
(* each of those keeps what the blocks hold together.                      *)
(***************************************************************************)
EXTENDS Pmm, Heap, FiniteSetTheorems, WellFoundedInduction, NaturalsInduction, SequenceTheorems, TLAPS

-----------------------------------------------------------------------------
(* Pmm: the sum over blocks. *)

SizeStep(e, b, n) == n + BlockSize(b[2])
AnyBlock(S) == CHOOSE x \in S : TRUE
Sizes == INSTANCE ListLemmas WITH step <- SizeStep, pick <- AnyBlock

\* The loops of pmm_init, split_block and coalesce_buddies.
AddStep(e, i, m) == IF e[i] \in Available THEN free_list_add(m, get_zone(e[i]), e[i], 0) ELSE m
Boot == INSTANCE ListLemmas WITH step <- AddStep, pick <- Max

SplitStep(e, i, m) ==
    free_list_add(m, e.zone, e.page + BlockSize(e.cur - e.list[i]), e.cur - e.list[i])
Split == INSTANCE ListLemmas WITH step <- SplitStep, pick <- Max

MergeStep(z, k, v) ==
    LET b == get_buddy(v.page, v.order)
    IN  IF v.stop \/ ~CanMerge(v.mem, v.page, v.order)
          THEN [v EXCEPT !.stop = TRUE]
          ELSE [mem |-> free_list_remove(v.mem, z, b, v.order),
                page |-> MergedPage(v.page, b),
                order |-> v.order + 1, stop |-> FALSE]
Merge == INSTANCE ListLemmas WITH step <- MergeStep, pick <- Max

LEMMA SplitIsFold ==
  ASSUME NEW m, NEW z, NEW p, NEW cur, NEW target
  PROVE  LET list == [k \in 1 .. cur - target |-> k]
         IN  split_block(m, z, p, cur, target)
               = Split!Fold([zone |-> z, page |-> p, cur |-> cur, list |-> list], m, DOMAIN list)
  BY DEF split_block, FoldLeft, MapThenFoldSet, Split!Fold, SplitStep

LEMMA MergeIsRec ==
  ASSUME NEW m, NEW z, NEW p, NEW o
  PROVE  LET end == Merge!Rec(z, [mem |-> m, page |-> p, order |-> o, stop |-> FALSE],
                              PMM_MAX_ORDER - o)
         IN  coalesce_buddies(m, z, p, o) = free_list_add(end.mem, z, end.page, end.order)
  BY DEF coalesce_buddies, Merge!Rec, MergeStep

Blank == [flags |-> [p \in Page |-> "RESERVED"], order |-> [p \in Page |-> 0],
          free_lists |-> [z \in Zone |-> [o \in Order |-> << >>]],
          free_pages |-> [z \in Zone |-> 0]]
LEMMA BootIsFold ==
  LET list == [i \in 1..PageCount |-> i - 1]
  IN  pmm_init = Boot!Fold(list, Blank, DOMAIN list)
  BY DEF pmm_init, Blank, FoldLeft, MapThenFoldSet, Boot!Fold, AddStep

-----------------------------------------------------------------------------
(* Pmm: sizes of blocks. *)

\* A block of order 0 is a page, and every order doubles the size.
LEMMA BlockSizes ==
  /\ BlockSize(0) = 1
  /\ \A o \in Nat : BlockSize(o) \in Nat \ {0}
  /\ \A o \in Nat : BlockSize(o + 1) = 2 * BlockSize(o)
<1>1. \A n \in Nat : IsFiniteSet(1 .. n) /\ Cardinality(1 .. n) = n
  BY FS_Interval
<1>2. \A n \in Nat : /\ IsFiniteSet(SUBSET (1 .. n))
                     /\ Cardinality(SUBSET (1 .. n)) = BlockSize(n)
                     /\ BlockSize(n) \in Nat
  <2> SUFFICES ASSUME NEW n \in Nat
               PROVE  /\ IsFiniteSet(SUBSET (1 .. n))
                      /\ Cardinality(SUBSET (1 .. n)) = BlockSize(n)
                      /\ BlockSize(n) \in Nat
    OBVIOUS
  <2>1. IsFiniteSet(SUBSET (1 .. n)) /\ Cardinality(SUBSET (1 .. n)) = 2^Cardinality(1 .. n)
    BY <1>1, FS_SUBSET
  <2> QED
    BY <1>1, <2>1, FS_CardinalityType DEF BlockSize
<1>3. BlockSize(0) = 1
  <2>1. SUBSET (1 .. 0) = {{}}
    OBVIOUS
  <2>2. Cardinality({{}}) = 1
    BY FS_Singleton
  <2> QED
    BY <1>2, <2>1, <2>2
<1>4. ASSUME NEW n \in Nat PROVE BlockSize(n + 1) = 2 * BlockSize(n)
  <2> DEFINE A == SUBSET (1 .. n)
             B == {v \in SUBSET (1 .. n + 1) : n + 1 \in v}
             f == [v \in A |-> v \cup {n + 1}]
  <2>1. SUBSET (1 .. n + 1) = A \cup B /\ A \cap B = {}
    <3>1. \A v : v \in SUBSET (1 .. n + 1) /\ n + 1 \notin v => v \in SUBSET (1 .. n)
      OBVIOUS
    <3>2. \A v \in SUBSET (1 .. n) : v \in SUBSET (1 .. n + 1) /\ n + 1 \notin v
      OBVIOUS
    <3> QED
      BY <3>1, <3>2
  <2>2. f \in Bijection(A, B)
    <3>1. f \in [A -> B]
      <4>1. ASSUME NEW v \in A PROVE v \cup {n + 1} \in B
        OBVIOUS
      <4> QED
        BY <4>1
    <3>2. ASSUME NEW v \in A, NEW t \in A, f[v] = f[t] PROVE v = t
      <4>1. n + 1 \notin v /\ n + 1 \notin t /\ v \cup {n + 1} = t \cup {n + 1}
        BY <3>2
      <4> QED
        BY <4>1
    <3>3. ASSUME NEW t \in B PROVE \E v \in A : f[v] = t
      <4>1. t \ {n + 1} \in A /\ f[t \ {n + 1}] = t
        <5>1. t \ {n + 1} \in A
          OBVIOUS
        <5>2. (t \ {n + 1}) \cup {n + 1} = t
          OBVIOUS
        <5> QED
          BY <5>1, <5>2
      <4> QED
        BY <4>1
    <3> HIDE DEF f, A, B
    <3> QED
      BY <3>1, <3>2, <3>3, Zenon DEF Bijection, Injection, Surjection, IsInjective
  <2>3. IsFiniteSet(A) /\ Cardinality(A) = BlockSize(n) /\ BlockSize(n) \in Nat
    BY <1>2
  <2> HIDE DEF f, A, B
  <2>4. ExistsBijection(A, B)
    BY <2>2 DEF ExistsBijection
  <2>5. IsFiniteSet(B) /\ Cardinality(B) = BlockSize(n)
    BY <2>3, <2>4, FS_Bijection, FS_SameCardinalityBij, Zenon
  <2>6. Cardinality(A \cup B) = Cardinality(A) + Cardinality(B) - Cardinality(A \cap B)
    BY <2>3, <2>5, FS_Union
  <2>7. Cardinality(A \cap B) = 0
    BY <2>1, FS_EmptySet
  <2>8. n + 1 \in Nat
    OBVIOUS
  <2>9. Cardinality(A \cup B) = BlockSize(n + 1)
    BY <1>2, <2>1, <2>8
  <2> QED
    BY <2>3, <2>5, <2>6, <2>7, <2>9
<1>5. ASSUME NEW n \in Nat PROVE BlockSize(n) # 0
  <2>1. {} \in SUBSET (1 .. n)
    OBVIOUS
  <2>2. SUBSET (1 .. n) # {}
    BY <2>1
  <2> QED
    BY <1>2, <2>2, FS_EmptySet
<1> QED
  BY <1>2, <1>3, <1>4, <1>5

\* d divides n.
Multiple(n, d) == \E c \in Nat : n = c * d

LEMMA Divides ==
  ASSUME NEW n \in Nat, NEW d \in Nat \ {0}
  PROVE  n % d = 0 <=> Multiple(n, d)
<1>1. n = d * (n \div d) + (n % d) /\ n \div d \in Nat /\ n % d \in 0 .. d - 1
  OBVIOUS
<1>2. ASSUME n % d = 0 PROVE Multiple(n, d)
  <2>1. n = (n \div d) * d /\ n \div d \in Nat
    BY <1>1, <1>2
  <2> QED
    BY <2>1 DEF Multiple
<1>3. ASSUME Multiple(n, d) PROVE n % d = 0
  <2>1. PICK c \in Nat : n = c * d
    BY <1>3 DEF Multiple
  <2> QED
    BY <2>1
<1> QED
  BY <1>2, <1>3

LEMMA NextMultiple ==
  ASSUME NEW d \in Nat \ {0}, NEW a \in Nat, NEW b \in Nat,
         Multiple(a, d), Multiple(b, d), a < b
  PROVE  a + d <= b
<1>1. PICK c \in Nat : a = c * d
  BY DEF Multiple
<1>2. PICK e \in Nat : b = e * d
  BY DEF Multiple
<1>3. c < e
  <2> SUFFICES ASSUME e <= c PROVE FALSE
    OBVIOUS
  <2>1. PICK x \in Nat : c = e + x
    <3>1. c = e + (c - e) /\ c - e \in Nat
      OBVIOUS
    <3> QED
      BY <3>1
  <2>2. c * d = e * d + x * d /\ x * d \in Nat
    BY <2>1
  <2> QED
    BY <1>1, <1>2, <2>2
<1>4. PICK x \in Nat : e = c + 1 + x
  <2>1. e = c + 1 + (e - c - 1) /\ e - c - 1 \in Nat
    BY <1>3
  <2> QED
    BY <2>1
<1>5. e * d = c * d + d + x * d /\ x * d \in Nat
  BY <1>4
<1> QED
  BY <1>1, <1>2, <1>5

LEMMA MultipleSum ==
  ASSUME NEW d \in Nat \ {0}, NEW a \in Nat, NEW b \in Nat, Multiple(a, d), Multiple(b, d)
  PROVE  Multiple(a + b, d)
<1>1. PICK c \in Nat : a = c * d
  BY DEF Multiple
<1>2. PICK e \in Nat : b = e * d
  BY DEF Multiple
<1>3. a + b = (c + e) * d /\ c + e \in Nat
  BY <1>1, <1>2
<1> QED
  BY <1>3 DEF Multiple

LEMMA MultipleTrans ==
  ASSUME NEW d \in Nat \ {0}, NEW a \in Nat, NEW b \in Nat, Multiple(a, b), Multiple(b, d)
  PROVE  Multiple(a, d)
<1>1. PICK c \in Nat : a = c * b
  BY DEF Multiple
<1>2. PICK e \in Nat : b = e * d
  BY DEF Multiple
<1>3. a = (c * e) * d /\ c * e \in Nat
  BY <1>1, <1>2
<1> QED
  BY <1>3 DEF Multiple

\* The size of a block divides the size of every larger one.
LEMMA SizesDivide ==
  ASSUME NEW k \in Nat, NEW o \in 0 .. k
  PROVE  Multiple(BlockSize(k), BlockSize(o))
<1> DEFINE G == {n \in Nat : \A m \in 0 .. n : Multiple(BlockSize(n), BlockSize(m))}
<1>0. \A n \in Nat : Multiple(BlockSize(n), BlockSize(n))
  <2> SUFFICES ASSUME NEW n \in Nat PROVE Multiple(BlockSize(n), BlockSize(n))
    OBVIOUS
  <2>1. BlockSize(n) = 1 * BlockSize(n)
    BY BlockSizes
  <2> QED
    BY <2>1 DEF Multiple
<1>1. 0 \in G
  BY <1>0
<1>2. ASSUME NEW n \in Nat, n \in G PROVE n + 1 \in G
  <2> SUFFICES ASSUME NEW m \in 0 .. n + 1
               PROVE  Multiple(BlockSize(n + 1), BlockSize(m))
    OBVIOUS
  <2>1. CASE m = n + 1
    BY <1>0, <2>1
  <2>2. CASE m \in 0 .. n
    <3>1. Multiple(BlockSize(n), BlockSize(m))
      BY <1>2, <2>2
    <3>2. Multiple(BlockSize(n + 1), BlockSize(n))
      BY BlockSizes DEF Multiple
    <3>3. BlockSize(m) \in Nat \ {0} /\ BlockSize(n) \in Nat /\ BlockSize(n + 1) \in Nat
      BY BlockSizes
    <3> QED
      BY <3>1, <3>2, <3>3, MultipleTrans
  <2> QED
    BY <2>1, <2>2
<1> HIDE DEF G
<1>3. Nat \subseteq G
  BY <1>1, <1>2, Sizes!NatSetInduction
<1> QED
  BY <1>3 DEF G

-----------------------------------------------------------------------------
(* Pmm: blocks and buddies. *)

\* A block that starts at a multiple of its size.
AlignedAt(p, o) == p \in Nat /\ o \in Nat /\ Multiple(p, BlockSize(o))

LEMMA AlignedDown ==
  ASSUME NEW p, NEW k, AlignedAt(p, k), NEW o \in 0 .. k
  PROVE  AlignedAt(p, o)
<1>1. p \in Nat /\ k \in Nat /\ o \in Nat /\ Multiple(p, BlockSize(k))
  BY DEF AlignedAt
<1>2. Multiple(BlockSize(k), BlockSize(o))
  BY <1>1, SizesDivide
<1>3. BlockSize(o) \in Nat \ {0} /\ BlockSize(k) \in Nat
  BY <1>1, BlockSizes
<1> QED
  BY <1>1, <1>2, <1>3, MultipleTrans DEF AlignedAt

\* Blocks overlap only when one contains the other.
LEMMA Nested ==
  ASSUME NEW p, NEW o, NEW q, NEW k, AlignedAt(p, o), AlignedAt(q, k), o <= k,
         NEW i \in Block(p, o), i \in Block(q, k)
  PROVE  Block(p, o) \subseteq Block(q, k)
<1> DEFINE d == BlockSize(o)
           K == BlockSize(k)
<1>1. p \in Nat /\ q \in Nat /\ o \in Nat /\ k \in Nat
  BY DEF AlignedAt
<1>2. d \in Nat \ {0} /\ K \in Nat \ {0}
  BY <1>1, BlockSizes
<1>3. Multiple(p, d) /\ Multiple(q, d)
  <2>1. AlignedAt(q, o)
    BY <1>1, AlignedDown
  <2> QED
    BY <2>1 DEF AlignedAt
<1>4. Multiple(q + K, d)
  <2>1. Multiple(K, d)
    BY <1>1, SizesDivide
  <2> QED
    BY <1>1, <1>2, <1>3, <2>1, MultipleSum
<1>5. Block(p, o) = p .. p + d - 1 /\ Block(q, k) = q .. q + K - 1
  BY DEF Block
<1> HIDE DEF d, K
<1>6. i \in Nat /\ p <= i /\ i < p + d /\ q <= i /\ i < q + K
  BY <1>1, <1>2, <1>5
<1>7. q <= p
  <2> SUFFICES ASSUME p < q PROVE FALSE
    BY <1>1
  <2>1. p + d <= q
    BY <1>1, <1>2, <1>3, NextMultiple
  <2> QED
    BY <1>1, <1>2, <1>6, <2>1
<1>8. p + d <= q + K
  <2>1. p < q + K /\ q + K \in Nat
    BY <1>1, <1>2, <1>6
  <2> QED
    BY <1>1, <1>2, <1>3, <1>4, <2>1, NextMultiple
<1> QED
  BY <1>1, <1>2, <1>5, <1>7, <1>8

\* The halves of a block are buddies.
LEMMA HalfBlocks ==
  ASSUME NEW p, NEW o \in Nat, AlignedAt(p, o + 1)
  PROVE  LET h == p + BlockSize(o) IN
         /\ AlignedAt(p, o) /\ AlignedAt(h, o)
         /\ get_buddy(p, o) = h /\ get_buddy(h, o) = p
         /\ Block(p, o + 1) = Block(p, o) \cup Block(h, o)
         /\ Block(p, o) \cap Block(h, o) = {}
<1> DEFINE d == BlockSize(o)
           h == p + d
<1>1. p \in Nat /\ o \in Nat /\ Multiple(p, BlockSize(o + 1))
  BY DEF AlignedAt
<1>2. d \in Nat \ {0} /\ BlockSize(o + 1) = 2 * d
  BY BlockSizes
<1>3. PICK c \in Nat : p = c * (2 * d)
  BY <1>1, <1>2 DEF Multiple
<1>4. get_buddy(p, o) = (IF (p \div d) % 2 = 0 THEN p + d ELSE p - d)
  BY DEF get_buddy
<1>5. get_buddy(h, o) = (IF (h \div d) % 2 = 0 THEN h + d ELSE h - d)
  BY DEF get_buddy
<1>6. Block(p, o + 1) = p .. p + 2 * d - 1 /\ Block(p, o) = p .. p + d - 1 /\ Block(h, o) = h .. h + d - 1
  BY <1>2 DEF Block
<1> HIDE DEF d
<1>7. p = (2 * c) * d /\ 2 * c \in Nat /\ h = (2 * c + 1) * d /\ 2 * c + 1 \in Nat
  BY <1>2, <1>3
<1>8. p \div d = 2 * c /\ h \div d = 2 * c + 1
  BY <1>2, <1>7
<1>9. AlignedAt(p, o) /\ AlignedAt(h, o)
  <2>1. h \in Nat
    BY <1>1, <1>2
  <2>2. Multiple(p, d) /\ Multiple(h, d)
    BY <1>7, Zenon DEF Multiple
  <2> QED
    BY <1>1, <2>1, <2>2 DEF AlignedAt, d
<1>10. get_buddy(p, o) = h /\ get_buddy(h, o) = p
  BY <1>1, <1>2, <1>4, <1>5, <1>8
<1>11. Block(p, o + 1) = Block(p, o) \cup Block(h, o) /\ Block(p, o) \cap Block(h, o) = {}
  BY <1>1, <1>2, <1>6
<1> QED
  BY <1>9, <1>10, <1>11 DEF d

\* A block and its buddy are the halves of the block that they are merged to.
LEMMA Buddies ==
  ASSUME NEW p, NEW o, AlignedAt(p, o)
  PROVE  LET b == get_buddy(p, o)
             q == MergedPage(p, b)
         IN  /\ b \in Nat /\ b # p /\ AlignedAt(q, o + 1)
             /\ \/ p = q /\ b = q + BlockSize(o)
                \/ b = q /\ p = q + BlockSize(o)
<1> DEFINE d == BlockSize(o)
           b == get_buddy(p, o)
           q == MergedPage(p, b)
<1>1. p \in Nat /\ o \in Nat /\ Multiple(p, d)
  BY DEF AlignedAt
<1>2. d \in Nat \ {0} /\ BlockSize(o + 1) = 2 * d
  BY <1>1, BlockSizes
<1>3. PICK c \in Nat : p = c * d
  BY <1>1, <1>2 DEF Multiple
<1>4. b = (IF (p \div d) % 2 = 0 THEN p + d ELSE p - d)
  BY DEF get_buddy
<1>5. q = IF b < p THEN b ELSE p
  BY DEF MergedPage
<1>6. AlignedAt(q, o + 1) <=> (q \in Nat /\ \E x \in Nat : q = x * (2 * d))
  BY <1>1, <1>2 DEF AlignedAt, Multiple
<1> HIDE DEF d, b, q
<1>7. p \div d = c
  BY <1>2, <1>3
<1>8. CASE c % 2 = 0
  <2>1. PICK x \in Nat : c = 2 * x
    <3>1. c = 2 * (c \div 2) /\ c \div 2 \in Nat
      BY <1>8
    <3> QED
      BY <3>1
  <2>2. b = p + d /\ q = p
    BY <1>1, <1>2, <1>4, <1>5, <1>7, <1>8
  <2>3. p = x * (2 * d)
    BY <1>2, <1>3, <2>1
  <2>4. AlignedAt(q, o + 1)
    BY <1>1, <1>6, <2>2, <2>3
  <2>5. b \in Nat /\ b # p /\ p = q /\ b = q + d
    BY <1>1, <1>2, <2>2
  <2> QED
    BY <2>4, <2>5 DEF d, b, q
<1>9. CASE c % 2 # 0
  <2>1. PICK x \in Nat : c = 2 * x + 1
    <3>1. c = 2 * (c \div 2) + 1 /\ c \div 2 \in Nat
      BY <1>9
    <3> QED
      BY <3>1
  <2>2. p = x * (2 * d) + d /\ x * (2 * d) \in Nat
    BY <1>2, <1>3, <2>1
  <2>3. b = p - d
    BY <1>1, <1>2, <1>4, <1>7, <1>9
  <2>4. b = x * (2 * d) /\ b \in Nat /\ b < p /\ p = b + d
    BY <1>1, <1>2, <2>2, <2>3
  <2>5. q = b
    BY <1>5, <2>4
  <2>6. AlignedAt(q, o + 1)
    BY <1>6, <2>4, <2>5
  <2>7. b \in Nat /\ b # p /\ b = q /\ p = q + d
    BY <1>1, <2>4, <2>5
  <2> QED
    BY <2>6, <2>7 DEF d, b, q
<1> QED
  BY <1>8, <1>9

\* A block lies in one zone.
LEMMA OneZone ==
  ASSUME NEW p, NEW o \in Order, AlignedAt(p, o), NEW i \in Block(p, o)
  PROVE  get_zone(i) = get_zone(p)
<1> DEFINE d == BlockSize(o)
           K == BlockSize(PMM_MAX_ORDER)
<1>1. p \in Nat /\ o \in Nat /\ Multiple(p, d) /\ PMM_MAX_ORDER \in Nat /\ o \in 0 .. PMM_MAX_ORDER
  BY PmmConstants DEF AlignedAt, Order
<1>2. d \in Nat \ {0} /\ K \in Nat \ {0} /\ Multiple(K, d)
  BY <1>1, BlockSizes, SizesDivide
<1>3. NormalStart \in Nat /\ HighStart \in Nat /\ NormalStart <= HighStart
  BY PmmConstants
<1>4. Multiple(NormalStart, K) /\ Multiple(HighStart, K)
  BY <1>2, <1>3, PmmConstants, Divides
<1>5. Multiple(NormalStart, d) /\ Multiple(HighStart, d)
  BY <1>2, <1>3, <1>4, MultipleTrans
<1>6. Block(p, o) = p .. p + d - 1
  BY DEF Block
<1> HIDE DEF d, K
<1>7. i \in Nat /\ p <= i /\ i < p + d
  BY <1>1, <1>2, <1>6
<1>8. p < NormalStart => p + d <= NormalStart
  BY <1>1, <1>2, <1>3, <1>5, NextMultiple
<1>9. p < HighStart => p + d <= HighStart
  BY <1>1, <1>2, <1>3, <1>5, NextMultiple
<1> QED
  BY <1>1, <1>2, <1>3, <1>7, <1>8, <1>9 DEF get_zone

-----------------------------------------------------------------------------
(* Pmm: tilings of the available memory. *)

Span(b) == Block(b[1], b[2])

\* Aligned blocks that do not overlap and cover the available memory.
Placed(B) == \A b \in B : /\ b \in Page \X Order /\ AlignedAt(b[1], b[2])
                          /\ Span(b) \subseteq Available
Apart(B) == \A b, c \in B : b # c => Span(b) \cap Span(c) = {}
Covers(B) == \A i \in Available : \E b \in B : i \in Span(b)
Tiling(B) == Placed(B) /\ Apart(B) /\ Covers(B)

\* A block has a first page.
LEMMA FirstPage ==
  ASSUME NEW p, NEW o, AlignedAt(p, o)
  PROVE  p \in Block(p, o)
<1>1. p \in Nat /\ BlockSize(o) \in Nat \ {0}
  BY BlockSizes DEF AlignedAt
<1> QED
  BY <1>1 DEF Block

LEMMA Pair ==
  ASSUME NEW b \in Page \X Order
  PROVE  b = <<b[1], b[2]>> /\ b[1] \in Page /\ b[2] \in Order
  OBVIOUS

\* A page heads one block at most.
LEMMA OneHead ==
  ASSUME NEW B, Tiling(B), NEW b \in B, NEW c \in B, b[1] = c[1]
  PROVE  b = c
<1>1. b[1] \in Span(b) /\ c[1] \in Span(c)
  BY FirstPage DEF Tiling, Placed, Span
<1> QED
  BY <1>1 DEF Tiling, Apart

\* Splitting a block: the halves tile what it tiled.
LEMMA SplitTiling ==
  ASSUME NEW B, Tiling(B), NEW p, NEW o \in Nat, <<p, o + 1>> \in B
  PROVE  LET h == p + BlockSize(o)
         IN  /\ Tiling((B \ {<<p, o + 1>>}) \cup {<<p, o>>, <<h, o>>})
             /\ <<p, o>> \notin B /\ <<h, o>> \notin B /\ p # h
             /\ p \in Page /\ h \in Page /\ o \in Order /\ AlignedAt(p, o + 1)
<1> DEFINE h == p + BlockSize(o)
           x == <<p, o + 1>>
           l == <<p, o>>
           u == <<h, o>>
           C == (B \ {x}) \cup {l, u}
<1>1. x \in Page \X Order /\ AlignedAt(p, o + 1) /\ Span(x) \subseteq Available
  BY DEF Tiling, Placed
<1>2. /\ AlignedAt(p, o) /\ AlignedAt(h, o)
      /\ Block(p, o + 1) = Block(p, o) \cup Block(h, o)
      /\ Block(p, o) \cap Block(h, o) = {}
  BY <1>1, HalfBlocks
<1>3. p \in Block(p, o) /\ h \in Block(h, o)
  BY <1>2, FirstPage
<1>4. Span(x) = Block(p, o + 1) /\ Span(l) = Block(p, o) /\ Span(u) = Block(h, o)
  BY DEF Span
<1>5. o \in Order /\ p \in Page
  BY <1>1, PmmConstants DEF Order
<1>6. h \in Page
  BY <1>1, <1>2, <1>3, <1>4 DEF Available
<1> HIDE DEF h
<1>7. l # x /\ u # x
  OBVIOUS
<1>8. p # h
  BY <1>2, <1>3
<1>9. l \notin B /\ u \notin B
  BY <1>2, <1>3, <1>4, <1>7 DEF Tiling, Apart
<1>10. Placed(C)
  <2>1. Placed(B \ {x})
    BY DEF Tiling, Placed
  <2>2. Placed({l, u})
    BY <1>1, <1>2, <1>4, <1>5, <1>6 DEF Placed
  <2> QED
    BY <2>1, <2>2 DEF Placed
<1>11. Span(x) = Span(l) \cup Span(u) /\ Span(l) \cap Span(u) = {}
  BY <1>2, <1>4
<1> HIDE DEF x, l, u
<1>12. Apart(C)
  <2>1. \A b \in B \ {x} : Span(b) \cap Span(x) = {}
    BY DEF Tiling, Apart, x
  <2> QED
    BY <1>11, <2>1 DEF Tiling, Apart
<1>13. Covers(C)
  BY <1>11 DEF Tiling, Covers
<1> QED
  BY <1>1, <1>5, <1>6, <1>8, <1>9, <1>10, <1>12, <1>13 DEF Tiling, h, x, l, u

\* Merging two buddies: their merged block tiles what they tiled.
LEMMA MergeTiling ==
  ASSUME NEW B, Tiling(B), NEW p, NEW o, <<p, o>> \in B, o < PMM_MAX_ORDER,
         <<get_buddy(p, o), o>> \in B
  PROVE  LET b == get_buddy(p, o)
             x == <<MergedPage(p, b), o + 1>>
         IN  Tiling((B \ {<<p, o>>, <<b, o>>}) \cup {x}) /\ x \notin B /\ x \in Page \X Order
<1> DEFINE b == get_buddy(p, o)
           q == MergedPage(p, b)
           x == <<q, o + 1>>
           y == <<p, o>>
           w == <<b, o>>
           C == (B \ {y, w}) \cup {x}
<1>1. /\ y \in Page \X Order /\ AlignedAt(p, o) /\ Span(y) \subseteq Available
      /\ w \in Page \X Order /\ AlignedAt(b, o) /\ Span(w) \subseteq Available
  BY DEF Tiling, Placed
<1>2. o \in Nat /\ o + 1 \in Order
  BY <1>1, PmmConstants DEF AlignedAt, Order
<1>3. /\ AlignedAt(q, o + 1)
      /\ \/ p = q /\ b = q + BlockSize(o)
         \/ b = q /\ p = q + BlockSize(o)
  BY <1>1, Buddies
<1>4. /\ Block(q, o + 1) = Block(q, o) \cup Block(q + BlockSize(o), o)
      /\ Block(q, o) \cap Block(q + BlockSize(o), o) = {}
  BY <1>2, <1>3, HalfBlocks
<1>5. Span(x) = Block(q, o + 1) /\ Span(y) = Block(p, o) /\ Span(w) = Block(b, o)
  BY DEF Span
<1>6. Span(x) = Span(y) \cup Span(w)
  BY <1>3, <1>4, <1>5
<1>7. q \in Page
  BY <1>1, <1>3
<1>8. x \in Page \X Order /\ Span(x) \subseteq Available
  BY <1>1, <1>2, <1>6, <1>7
<1>9. x # y /\ x # w
  BY <1>2
<1>10. p \in Span(y)
  BY <1>1, <1>5, FirstPage
<1> HIDE DEF b, q
<1>11. Placed(C)
  <2>1. Placed(B)
    BY DEF Tiling
  <2>2. Placed({x})
    BY <1>3, <1>8 DEF Placed
  <2> QED
    BY <2>1, <2>2 DEF Placed
<1> HIDE DEF x, y, w
<1>12. x \notin B
  <2>1. y \in B
    BY DEF y
  <2> QED
    BY <1>6, <1>9, <1>10, <2>1 DEF Tiling, Apart
<1>13. Apart(C)
  <2>1. y \in B /\ w \in B
    BY DEF y, w, b
  <2>2. \A c \in B \ {y, w} : Span(c) \cap Span(x) = {}
    BY <1>6, <2>1 DEF Tiling, Apart
  <2> QED
    BY <2>2 DEF Tiling, Apart
<1>14. Covers(C)
  BY <1>6 DEF Tiling, Covers
<1> QED
  BY <1>8, <1>11, <1>12, <1>13, <1>14 DEF Tiling, b, q, x, y, w

\* The page where a buddy would start heads a block that is not larger.
LEMMA BuddyHeads ==
  ASSUME NEW B, Tiling(B), NEW p, NEW o, <<p, o>> \in B, o < PMM_MAX_ORDER,
         get_buddy(p, o) \in Available
  PROVE  \E k \in Order : <<get_buddy(p, o), k>> \in B
<1> DEFINE b == get_buddy(p, o)
           q == MergedPage(p, b)
<1>1. AlignedAt(p, o) /\ o \in Nat /\ <<p, o>>[1] = p /\ <<p, o>>[2] = o
  BY DEF Tiling, Placed, AlignedAt
<1>2. /\ AlignedAt(q, o + 1)
      /\ \/ p = q /\ b = q + BlockSize(o)
         \/ b = q /\ p = q + BlockSize(o)
  BY <1>1, Buddies
<1>3. /\ AlignedAt(b, o)
      /\ Block(q, o + 1) = Block(p, o) \cup Block(b, o)
  BY <1>1, <1>2, HalfBlocks
<1>4. PICK c \in B : b \in Span(c)
  BY DEF Tiling, Covers
<1>5. c \in Page \X Order /\ AlignedAt(c[1], c[2]) /\ c = <<c[1], c[2]>> /\ c[2] \in Order
  BY <1>4 DEF Tiling, Placed
<1>6. b \in Block(b, o) /\ p \in Block(p, o) /\ b \in Block(c[1], c[2])
  BY <1>1, <1>3, <1>4, FirstPage DEF Span
<1>7. c[2] \in Nat
  BY <1>5 DEF AlignedAt
<1> HIDE DEF b, q
<1>8. CASE c[2] <= o
  <2>1. Block(c[1], c[2]) \subseteq Block(b, o)
    BY <1>3, <1>5, <1>6, <1>8, Nested
  <2>2. c[1] \in Block(c[1], c[2])
    BY <1>5, FirstPage
  <2>3. c[1] \in Block(b, o)
    BY <2>1, <2>2
  <2>4. b \in Nat /\ c[1] \in Nat
    BY <1>3, <1>5 DEF AlignedAt
  <2>5. b <= c[1]
    BY <2>3, <2>4 DEF Block
  <2>6. c[1] <= b
    BY <1>6, <2>4 DEF Block
  <2>7. b = c[1]
    BY <2>4, <2>5, <2>6
  <2> QED
    BY <1>5, <2>7 DEF b
<1>9. CASE ~ (c[2] <= o)
  <2>1. o + 1 <= c[2]
    BY <1>1, <1>7, <1>9
  <2>2. b \in Block(q, o + 1)
    BY <1>3, <1>6
  <2>3. Block(q, o + 1) \subseteq Block(c[1], c[2])
    BY <1>2, <1>5, <1>6, <2>1, <2>2, Nested
  <2>4. p \in Span(c) /\ p \in Span(<<p, o>>)
    BY <1>1, <1>3, <1>6, <2>3 DEF Span
  <2>5. c = <<p, o>>
    BY <1>4, <2>4 DEF Tiling, Apart
  <2>6. c[2] = o
    BY <1>1, <2>5
  <2> QED
    BY <1>1, <1>9, <2>6
<1> QED
  BY <1>8, <1>9

-----------------------------------------------------------------------------
(* Pmm: free lists. *)

Free(m) == {b \in Page \X Order : \E z \in Zone : Contains(m.free_lists[z][b[2]], b[1])}

Maps == [flags : [Page -> {"FREE", "PRESENT", "RESERVED"}], order : [Page -> Order],
         free_lists : [Zone -> [Order -> Seq(Page)]], free_pages : [Zone -> Int]]

\* A list holds pages of its zone, none twice.
ZoneList(v, z) == Sizes!Distinct(v) /\ \A p \in Sizes!Elements(v) : get_zone(p) = z
Lists(m) == \A z \in Zone : \A o \in Order : ZoneList(m.free_lists[z][o], z)

LEMMA ZoneOf == \A p : get_zone(p) \in Zone
  BY DEF get_zone, Zone

LEMMA InList ==
  ASSUME NEW v \in Seq(Page), NEW p
  PROVE  Contains(v, p) <=> p \in Sizes!Elements(v)
  BY DEF Contains, Sizes!Elements

\* A free block is on the list of its zone and order.
LEMMA FreeIn ==
  ASSUME NEW m \in Maps, Lists(m), NEW p \in Page, NEW o \in Order
  PROVE  <<p, o>> \in Free(m) <=> p \in Sizes!Elements(m.free_lists[get_zone(p)][o])
<1>1. \A z \in Zone : m.free_lists[z][o] \in Seq(Page)
  BY DEF Maps
<1>2. <<p, o>> \in Free(m) <=> \E z \in Zone : Contains(m.free_lists[z][o], p)
  BY DEF Free
<1>3. \A z \in Zone : Contains(m.free_lists[z][o], p) <=> p \in Sizes!Elements(m.free_lists[z][o])
  BY <1>1, InList
<1>4. \A z \in Zone : p \in Sizes!Elements(m.free_lists[z][o]) => get_zone(p) = z
  BY DEF Lists, ZoneList
<1> QED
  BY <1>2, <1>3, <1>4, ZoneOf

\* When one list changes, the free blocks of the others stay.
LEMMA OtherLists ==
  ASSUME NEW m \in Maps, Lists(m), NEW n \in Maps, Lists(n),
         NEW p \in Page, NEW o \in Order,
         \A z \in Zone : \A k \in Order :
             (z # get_zone(p) \/ k # o) => n.free_lists[z][k] = m.free_lists[z][k]
  PROVE  \A b \in Page \X Order :
             (get_zone(b[1]) # get_zone(p) \/ b[2] # o) => (b \in Free(n) <=> b \in Free(m))
<1> SUFFICES ASSUME NEW b \in Page \X Order, get_zone(b[1]) # get_zone(p) \/ b[2] # o
             PROVE  b \in Free(n) <=> b \in Free(m)
  OBVIOUS
<1>1. b = <<b[1], b[2]>> /\ b[1] \in Page /\ b[2] \in Order
  BY Pair
<1>2. n.free_lists[get_zone(b[1])][b[2]] = m.free_lists[get_zone(b[1])][b[2]]
  BY <1>1, ZoneOf
<1> QED
  BY <1>1, <1>2, FreeIn

LEMMA AddMap ==
  ASSUME NEW m \in Maps, Lists(m), NEW p \in Page, NEW o \in Order, <<p, o>> \notin Free(m)
  PROVE  LET n == free_list_add(m, get_zone(p), p, o)
         IN  /\ n \in Maps /\ Lists(n) /\ Free(n) = Free(m) \cup {<<p, o>>}
             /\ n.flags = [m.flags EXCEPT ![p] = "FREE"]
             /\ n.order = [m.order EXCEPT ![p] = o]
             /\ n.free_pages = [m.free_pages EXCEPT ![get_zone(p)] = @ + BlockSize(o)]
<1> DEFINE y == get_zone(p)
           n == free_list_add(m, y, p, o)
           v == m.free_lists[y][o]
           t == <<p>> \o v
<1>1. y \in Zone /\ v \in Seq(Page) /\ Sizes!Distinct(v) /\ p \notin Sizes!Elements(v)
  <2>1. y \in Zone
    BY ZoneOf
  <2>2. v \in Seq(Page)
    BY <2>1 DEF Maps
  <2>3. Sizes!Distinct(v)
    BY <2>1 DEF Lists, ZoneList
  <2> QED
    BY <2>1, <2>2, <2>3, FreeIn
<1>a. t = <<p>> \o v
  OBVIOUS
<1> HIDE DEF v, t
<1>2. t \in Seq(Page)
  BY ONLY <1>1, <1>a, p \in Page, Sizes!LinkIn, Zenon
<1>3. Sizes!Distinct(t)
  BY ONLY <1>1, <1>a, p \in Page, Sizes!LinkIn, Zenon
<1>4. Sizes!Elements(t) = Sizes!Elements(v) \cup {p}
  BY ONLY <1>1, <1>a, p \in Page, Sizes!LinkIn, ZenonT(60)
<1>5. ZoneList(t, y)
  BY <1>1, <1>3, <1>4 DEF Lists, ZoneList, v
<1>6. BlockSize(o) \in Nat
  BY BlockSizes, PmmConstants DEF Order
<1>7. /\ n.flags = [m.flags EXCEPT ![p] = "FREE"]
      /\ n.order = [m.order EXCEPT ![p] = o]
      /\ n.free_pages = [m.free_pages EXCEPT ![y] = @ + BlockSize(o)]
      /\ n.free_lists = [m.free_lists EXCEPT ![y][o] = t]
  BY DEF free_list_add, v, t
<1>8. n = [flags |-> n.flags, order |-> n.order, free_lists |-> n.free_lists, free_pages |-> n.free_pages]
  BY DEF free_list_add
<1>9. /\ m.flags \in [Page -> {"FREE", "PRESENT", "RESERVED"}] /\ m.order \in [Page -> Order]
      /\ m.free_lists \in [Zone -> [Order -> Seq(Page)]] /\ m.free_pages \in [Zone -> Int]
  BY DEF Maps
<1> HIDE DEF y, n
<1>10. /\ n.flags \in [Page -> {"FREE", "PRESENT", "RESERVED"}] /\ n.order \in [Page -> Order]
       /\ n.free_lists \in [Zone -> [Order -> Seq(Page)]] /\ n.free_pages \in [Zone -> Int]
  BY <1>1, <1>2, <1>6, <1>7, <1>9
<1>11. n \in Maps
  BY <1>8, <1>10 DEF Maps
<1>12. \A z \in Zone : \A k \in Order :
         n.free_lists[z][k] = IF z = y /\ k = o THEN t ELSE m.free_lists[z][k]
  BY <1>1, <1>7, <1>9
<1>13. Lists(n)
  BY <1>5, <1>12 DEF Lists
<1>14. ASSUME NEW b \in Page \X Order
       PROVE  b \in Free(n) <=> b \in Free(m) \cup {<<p, o>>}
  <2>1. b = <<b[1], b[2]>> /\ b[1] \in Page /\ b[2] \in Order
    BY Pair
  <2>2. CASE get_zone(b[1]) # get_zone(p) \/ b[2] # o
    <3>1. b # <<p, o>>
      BY <2>2
    <3>2. \A z \in Zone : \A k \in Order :
            (z # get_zone(p) \/ k # o) => n.free_lists[z][k] = m.free_lists[z][k]
      BY <1>12 DEF y
    <3>3. b \in Free(n) <=> b \in Free(m)
      BY <1>11, <1>13, <2>2, <3>2, OtherLists
    <3> QED
      BY <3>1, <3>3
  <2>3. CASE get_zone(b[1]) = y /\ b[2] = o
    <3>1. b \in Free(n) <=> b[1] \in Sizes!Elements(n.free_lists[get_zone(b[1])][b[2]])
      BY <1>11, <1>13, <2>1, FreeIn
    <3>2. b \in Free(m) <=> b[1] \in Sizes!Elements(m.free_lists[get_zone(b[1])][b[2]])
      BY <2>1, FreeIn
    <3>3. n.free_lists[get_zone(b[1])][b[2]] = t /\ m.free_lists[get_zone(b[1])][b[2]] = v
      BY <1>1, <1>12, <2>3 DEF v
    <3>4. b[1] = p <=> b = <<p, o>>
      BY <2>1, <2>3
    <3> QED
      BY <1>4, <2>3, <3>1, <3>2, <3>3, <3>4
  <2> QED
    BY <2>2, <2>3 DEF y
<1>15. Free(n) = Free(m) \cup {<<p, o>>}
  <2>1. Free(n) \subseteq Page \X Order /\ Free(m) \subseteq Page \X Order /\ <<p, o>> \in Page \X Order
    BY DEF Free
  <2> HIDE DEF Free
  <2> QED
    BY <1>14, <2>1
<1> QED
  BY <1>7, <1>11, <1>13, <1>15 DEF n, y

LEMMA RemoveMap ==
  ASSUME NEW m \in Maps, Lists(m), NEW p \in Page, NEW o \in Order, <<p, o>> \in Free(m)
  PROVE  LET n == free_list_remove(m, get_zone(p), p, o)
         IN  /\ n \in Maps /\ Lists(n) /\ Free(n) = Free(m) \ {<<p, o>>}
             /\ n.flags = m.flags /\ n.order = m.order
             /\ n.free_pages = [m.free_pages EXCEPT ![get_zone(p)] = @ - BlockSize(o)]
<1> DEFINE y == get_zone(p)
           n == free_list_remove(m, y, p, o)
           v == m.free_lists[y][o]
           t == RemoveFirst(v, p)
<1>1. y \in Zone /\ v \in Seq(Page) /\ Sizes!Distinct(v) /\ p \in Sizes!Elements(v)
  <2>1. y \in Zone
    BY ZoneOf
  <2>2. v \in Seq(Page)
    BY <2>1 DEF Maps
  <2>3. Sizes!Distinct(v)
    BY <2>1 DEF Lists, ZoneList
  <2> QED
    BY <2>1, <2>2, <2>3, FreeIn
<1>2. PICK i \in 1 .. Len(v) : v[i] = p /\ t = RemoveAt(v, i)
  <2> DEFINE J == {j \in 1 .. Len(v) : v[j] = p}
  <2>1. \E j \in 1 .. Len(v) : v[j] = p
    BY <1>1 DEF Sizes!Elements
  <2>2. J \subseteq Nat /\ J # {}
    BY <2>1
  <2>3. \E j \in J : \A k \in J : j <= k
    BY <2>2, Sizes!LeastMember
  <2>4. Min(J) \in J
    BY <2>3 DEF Min
  <2>5. t = RemoveAt(v, Min(J))
    BY <2>1, <2>2 DEF RemoveFirst, SelectInSeq
  <2> QED
    BY <2>4, <2>5
<1>a. t = SubSeq(v, 1, i - 1) \o SubSeq(v, i + 1, Len(v))
  BY <1>2 DEF RemoveAt
<1> HIDE DEF t, v
<1>b. t \in Seq(Page)
  BY ONLY <1>1, <1>a, i \in 1 .. Len(v), Sizes!Unlink, Zenon
<1>3. Sizes!Distinct(t)
  BY ONLY <1>1, <1>a, i \in 1 .. Len(v), Sizes!Unlink, Zenon
<1>c. Sizes!Elements(t) = Sizes!Elements(v) \ {v[i]}
  BY ONLY <1>1, <1>a, i \in 1 .. Len(v), Sizes!Unlink, Zenon
<1>4. Sizes!Elements(t) = Sizes!Elements(v) \ {p}
  BY <1>2, <1>c
<1>5. ZoneList(t, y)
  BY <1>1, <1>3, <1>4 DEF Lists, ZoneList, v
<1>6. BlockSize(o) \in Nat
  BY BlockSizes, PmmConstants DEF Order
<1>9. /\ m.flags \in [Page -> {"FREE", "PRESENT", "RESERVED"}] /\ m.order \in [Page -> Order]
      /\ m.free_lists \in [Zone -> [Order -> Seq(Page)]] /\ m.free_pages \in [Zone -> Int]
      /\ m = [flags |-> m.flags, order |-> m.order, free_lists |-> m.free_lists, free_pages |-> m.free_pages]
  BY DEF Maps
<1>7. n = [flags |-> m.flags, order |-> m.order, free_lists |-> [m.free_lists EXCEPT ![y][o] = t],
           free_pages |-> [m.free_pages EXCEPT ![y] = @ - BlockSize(o)]]
  BY DEF free_list_remove, t, v
<1>8. /\ n.flags = m.flags /\ n.order = m.order
      /\ n.free_pages = [m.free_pages EXCEPT ![y] = @ - BlockSize(o)]
      /\ n.free_lists = [m.free_lists EXCEPT ![y][o] = t]
      /\ n = [flags |-> n.flags, order |-> n.order, free_lists |-> n.free_lists, free_pages |-> n.free_pages]
  BY <1>7
<1> HIDE DEF y, n
<1>10. /\ n.flags \in [Page -> {"FREE", "PRESENT", "RESERVED"}] /\ n.order \in [Page -> Order]
       /\ n.free_lists \in [Zone -> [Order -> Seq(Page)]] /\ n.free_pages \in [Zone -> Int]
  BY <1>1, <1>b, <1>6, <1>8, <1>9
<1>11. n \in Maps
  BY <1>8, <1>10 DEF Maps
<1>12. \A z \in Zone : \A k \in Order :
         n.free_lists[z][k] = IF z = y /\ k = o THEN t ELSE m.free_lists[z][k]
  BY <1>1, <1>8, <1>9
<1>13. Lists(n)
  BY <1>5, <1>12 DEF Lists
<1>14. ASSUME NEW b \in Page \X Order
       PROVE  b \in Free(n) <=> b \in Free(m) \ {<<p, o>>}
  <2>1. b = <<b[1], b[2]>> /\ b[1] \in Page /\ b[2] \in Order
    BY Pair
  <2>2. CASE get_zone(b[1]) # get_zone(p) \/ b[2] # o
    <3>1. b # <<p, o>>
      BY <2>2
    <3>2. \A z \in Zone : \A k \in Order :
            (z # get_zone(p) \/ k # o) => n.free_lists[z][k] = m.free_lists[z][k]
      BY <1>12 DEF y
    <3>3. b \in Free(n) <=> b \in Free(m)
      BY <1>11, <1>13, <2>2, <3>2, OtherLists
    <3> QED
      BY <3>1, <3>3
  <2>3. CASE get_zone(b[1]) = y /\ b[2] = o
    <3>1. b \in Free(n) <=> b[1] \in Sizes!Elements(n.free_lists[get_zone(b[1])][b[2]])
      BY <1>11, <1>13, <2>1, FreeIn
    <3>2. b \in Free(m) <=> b[1] \in Sizes!Elements(m.free_lists[get_zone(b[1])][b[2]])
      BY <2>1, FreeIn
    <3>3. n.free_lists[get_zone(b[1])][b[2]] = t /\ m.free_lists[get_zone(b[1])][b[2]] = v
      BY <1>1, <1>12, <2>3 DEF v
    <3>4. b[1] = p <=> b = <<p, o>>
      BY <2>1, <2>3
    <3> QED
      BY <1>4, <3>1, <3>2, <3>3, <3>4
  <2> QED
    BY <2>2, <2>3 DEF y
<1>15. Free(n) = Free(m) \ {<<p, o>>}
  <2>1. Free(n) \subseteq Page \X Order /\ Free(m) \subseteq Page \X Order
    BY DEF Free
  <2> HIDE DEF Free
  <2> QED
    BY <1>14, <2>1
<1> QED
  BY <1>8, <1>11, <1>13, <1>15 DEF n, y

-----------------------------------------------------------------------------
(* Pmm: counting free pages. *)

\* The pages of the blocks of a zone.
Covered(B, z) == {i \in Page : \E b \in B : get_zone(b[1]) = z /\ i \in Span(b)}
Counts(m) == \A z \in Zone : m.free_pages[z] = Cardinality(Covered(Free(m), z))

LEMMA PagesFinite == IsFiniteSet(Page) /\ Cardinality(Page) = PageCount
<1>1. PageCount \in Nat /\ Page = 0 .. PageCount - 1
  BY PmmConstants DEF Page
<1> QED
  BY <1>1, FS_Interval

LEMMA CoveredFinite ==
  ASSUME NEW B, NEW z
  PROVE  /\ IsFiniteSet(Covered(B, z)) /\ Cardinality(Covered(B, z)) \in Nat
         /\ Cardinality(Covered(B, z)) <= PageCount
<1>1. Covered(B, z) \subseteq Page
  BY DEF Covered
<1> QED
  BY <1>1, PagesFinite, FS_Subset, FS_CardinalityType

LEMMA BlockPages ==
  ASSUME NEW p, NEW o, AlignedAt(p, o)
  PROVE  IsFiniteSet(Block(p, o)) /\ Cardinality(Block(p, o)) = BlockSize(o)
<1>1. p \in Nat /\ BlockSize(o) \in Nat \ {0}
  BY BlockSizes DEF AlignedAt
<1>2. Block(p, o) = p .. p + BlockSize(o) - 1
  BY DEF Block
<1> QED
  BY <1>1, <1>2, FS_Interval

\* A block more counts its size more, in its zone.
LEMMA CountOneMore ==
  ASSUME NEW B, NEW x, x \notin B, Placed(B \cup {x}), Apart(B \cup {x}), NEW z \in Zone
  PROVE  Cardinality(Covered(B \cup {x}, z))
           = Cardinality(Covered(B, z)) + (IF get_zone(x[1]) = z THEN BlockSize(x[2]) ELSE 0)
<1>1. AlignedAt(x[1], x[2]) /\ Span(x) \subseteq Page
  BY DEF Placed, Available
<1>2. CASE get_zone(x[1]) = z
  <2>1. Covered(B \cup {x}, z) = Covered(B, z) \cup Span(x)
    BY <1>1, <1>2 DEF Covered
  <2>2. Covered(B, z) \cap Span(x) = {}
    BY DEF Covered, Apart
  <2>3. IsFiniteSet(Span(x)) /\ Cardinality(Span(x)) = BlockSize(x[2])
    BY <1>1, BlockPages DEF Span
  <2>4. IsFiniteSet(Covered(B, z)) /\ Cardinality(Covered(B, z)) \in Nat
    BY CoveredFinite
  <2>5. Cardinality(Covered(B, z) \cup Span(x))
          = Cardinality(Covered(B, z)) + Cardinality(Span(x)) - Cardinality(Covered(B, z) \cap Span(x))
    BY <2>3, <2>4, FS_Union
  <2>6. Cardinality(Covered(B, z) \cap Span(x)) = 0
    BY <2>2, FS_EmptySet
  <2>7. BlockSize(x[2]) \in Nat
    BY <2>3, FS_CardinalityType
  <2>8. Cardinality(Covered(B, z) \cup Span(x)) = Cardinality(Covered(B, z)) + BlockSize(x[2])
    BY <2>3, <2>4, <2>5, <2>6, <2>7
  <2> QED
    BY <1>2, <2>1, <2>8
<1>3. CASE get_zone(x[1]) # z
  <2>1. Covered(B \cup {x}, z) = Covered(B, z)
    BY <1>3 DEF Covered
  <2> QED
    BY <1>3, <2>1, CoveredFinite
<1> QED
  BY <1>2, <1>3

\* What PagesIn adds up.
LEMMA FoldCounts ==
  ASSUME NEW B, Placed(B), Apart(B), NEW z \in Zone
  PROVE  Sizes!Fold(0, 0, {b \in B : get_zone(b[1]) = z}) = Cardinality(Covered(B, z))
<1> DEFINE S == {b \in B : get_zone(b[1]) = z}
           I == [v \in SUBSET S |-> {Cardinality(Covered(v, z))}]
<1>1. IsFiniteSet(S)
  <2>1. IsFiniteSet(Page) /\ IsFiniteSet(Order)
    BY PagesFinite, PmmConstants, FS_Interval DEF Order
  <2>2. IsFiniteSet(Page \X Order)
    BY <2>1, FS_Product
  <2>3. S \subseteq Page \X Order
    BY DEF Placed
  <2> QED
    BY <2>2, <2>3, FS_Subset
<1>2. Sizes!IsFiniteSet(S)
  BY <1>1 DEF IsFiniteSet, Sizes!IsFiniteSet
<1>3. Sizes!Picks(S)
  BY DEF Sizes!Picks, AnyBlock
<1>4. 0 \in I[{}]
  <2>1. Covered({}, z) = {}
    BY DEF Covered
  <2>2. Cardinality({}) = 0
    BY FS_EmptySet
  <2> QED
    BY <2>1, <2>2
<1>5. ASSUME NEW v \in SUBSET S, v # {}, NEW c \in I[v \ {AnyBlock(v)}]
      PROVE  SizeStep(0, AnyBlock(v), c) \in I[v]
  <2> DEFINE x == AnyBlock(v)
             t == v \ {x}
  <2>1. x \in v
    BY <1>5 DEF AnyBlock
  <2>2. t \in SUBSET S /\ v = t \cup {x} /\ x \notin t /\ get_zone(x[1]) = z
    BY <2>1
  <2>3. c = Cardinality(Covered(t, z))
    BY <1>5, <2>2
  <2> HIDE DEF x, t
  <2>4. Placed(t \cup {x}) /\ Apart(t \cup {x})
    BY <2>2 DEF Placed, Apart
  <2>5. Cardinality(Covered(t \cup {x}, z)) = Cardinality(Covered(t, z)) + BlockSize(x[2])
    BY <2>2, <2>4, CountOneMore
  <2>6. SizeStep(0, x, c) = Cardinality(Covered(v, z))
    BY <2>2, <2>3, <2>5 DEF SizeStep
  <2> QED
    BY <2>6 DEF x
<1>6. I[S] = {Cardinality(Covered(S, z))}
  OBVIOUS
<1>7. Covered(S, z) = Covered(B, z)
  BY DEF Covered
<1> HIDE DEF S, I
<1>8. Sizes!Fold(0, 0, S) \in I[S]
  BY <1>2, <1>3, <1>4, <1>5, Sizes!FoldInduction
<1> QED
  BY <1>6, <1>7, <1>8 DEF S

-----------------------------------------------------------------------------
(* Pmm: memory maps.  H are the blocks that callers hold and X those that *)
(* an operation has in its hands.                                          *)

Heads(m, B, f) == \A b \in B : m.flags[b[1]] = f /\ m.order[b[1]] = b[2]
Separate(F, H, X) == F \cap H = {} /\ F \cap X = {} /\ H \cap X = {}

Sound(m, H, X) ==
    /\ m \in Maps /\ Lists(m) /\ Counts(m)
    /\ Separate(Free(m), H, X)
    /\ Tiling(Free(m) \cup H \cup X)
    /\ Heads(m, Free(m), "FREE") /\ Heads(m, H, "PRESENT")
    /\ \A i \in Reserved : m.flags[i] = "RESERVED"

\* A block is put on its free list.
LEMMA PutSound ==
  ASSUME NEW m, NEW H, NEW X, NEW p, NEW o, <<p, o>> \notin X,
         Sound(m, H, X \cup {<<p, o>>})
  PROVE  LET n == free_list_add(m, get_zone(p), p, o)
         IN  Sound(n, H, X) /\ Free(n) = Free(m) \cup {<<p, o>>}
<1> DEFINE x == <<p, o>>
           n == free_list_add(m, get_zone(p), p, o)
           T == Free(m) \cup H \cup (X \cup {x})
<1>1. /\ m \in Maps /\ Lists(m) /\ Counts(m) /\ Separate(Free(m), H, X \cup {x})
      /\ Tiling(T) /\ Heads(m, Free(m), "FREE") /\ Heads(m, H, "PRESENT")
      /\ \A i \in Reserved : m.flags[i] = "RESERVED"
  BY DEF Sound
<1>2. x \in Page \X Order /\ AlignedAt(p, o) /\ Span(x) \subseteq Available
  <2>1. x \in T
    OBVIOUS
  <2>2. x[1] = p /\ x[2] = o
    OBVIOUS
  <2> QED
    BY <1>1, <2>1, <2>2 DEF Tiling, Placed
<1>3. p \in Page /\ o \in Order /\ p \in Available /\ p \notin Reserved
  <2>1. p \in Span(x)
    BY <1>2, FirstPage DEF Span
  <2> QED
    BY <1>2, <2>1 DEF Available
<1>4. x \notin Free(m) /\ x \notin H
  BY <1>1 DEF Separate
<1>5. /\ n \in Maps /\ Lists(n) /\ Free(n) = Free(m) \cup {x}
      /\ n.flags = [m.flags EXCEPT ![p] = "FREE"]
      /\ n.order = [m.order EXCEPT ![p] = o]
      /\ n.free_pages = [m.free_pages EXCEPT ![get_zone(p)] = @ + BlockSize(o)]
  BY <1>1, <1>3, <1>4, AddMap
<1>6. \A b \in Free(m) \cup H : b[1] # p /\ b[1] \in Page
  <2> SUFFICES ASSUME NEW b \in Free(m) \cup H PROVE b[1] # p /\ b[1] \in Page
    OBVIOUS
  <2>1. b \in T /\ x \in T /\ b # x /\ x[1] = p
    BY <1>4
  <2>2. b \in Page \X Order
    BY <1>1, <2>1 DEF Tiling, Placed
  <2> QED
    BY <1>1, <2>1, <2>2, OneHead
<1>7. m.flags \in [Page -> {"FREE", "PRESENT", "RESERVED"}] /\ m.order \in [Page -> Order]
  /\ m.free_pages \in [Zone -> Int]
  BY <1>1 DEF Maps
<1> HIDE DEF n
<1>8. Heads(n, Free(n), "FREE")
  <2>1. n.flags[p] = "FREE" /\ n.order[p] = o /\ x[1] = p /\ x[2] = o
    BY <1>3, <1>5, <1>7
  <2>2. \A b \in Free(m) : n.flags[b[1]] = m.flags[b[1]] /\ n.order[b[1]] = m.order[b[1]]
    BY <1>5, <1>6, <1>7
  <2> HIDE DEF x
  <2> QED
    BY <1>1, <1>5, <2>1, <2>2 DEF Heads
<1>9. Heads(n, H, "PRESENT")
  <2>2. \A b \in H : n.flags[b[1]] = m.flags[b[1]] /\ n.order[b[1]] = m.order[b[1]]
    BY <1>5, <1>6, <1>7
  <2> QED
    BY <1>1, <2>2 DEF Heads
<1>10. \A i \in Reserved : n.flags[i] = "RESERVED"
  <2>1. Reserved \subseteq Page
    BY PmmConstants DEF Page
  <2> QED
    BY <1>1, <1>3, <1>5, <1>7, <2>1
<1>11. Counts(n)
  <2> SUFFICES ASSUME NEW z \in Zone
               PROVE  n.free_pages[z] = Cardinality(Covered(Free(n), z))
    BY DEF Counts
  <2>1. Placed(Free(m) \cup {x}) /\ Apart(Free(m) \cup {x})
    BY <1>1 DEF Tiling, Placed, Apart
  <2>2. Cardinality(Covered(Free(m) \cup {x}, z))
          = Cardinality(Covered(Free(m), z)) + (IF get_zone(p) = z THEN BlockSize(o) ELSE 0)
    <3>1. x[1] = p /\ x[2] = o
      OBVIOUS
    <3> HIDE DEF x
    <3> QED
      BY <1>4, <2>1, <3>1, CountOneMore
  <2>3. m.free_pages[z] = Cardinality(Covered(Free(m), z)) /\ m.free_pages[z] \in Nat
    BY <1>1, CoveredFinite DEF Counts
  <2>4. n.free_pages[z] = m.free_pages[z] + (IF get_zone(p) = z THEN BlockSize(o) ELSE 0)
    <3>1. BlockSize(o) \in Nat
      BY <1>2, BlockSizes DEF AlignedAt
    <3> QED
      BY <1>5, <1>7, <2>3, <3>1
  <2> QED
    BY <1>5, <2>2, <2>3, <2>4
<1>12. Separate(Free(n), H, X) /\ Free(n) \cup H \cup X = T
  BY <1>1, <1>4, <1>5 DEF Separate
<1> QED
  BY <1>1, <1>5, <1>8, <1>9, <1>10, <1>11, <1>12 DEF Sound, n

OneMore(Y, X, x) == x \notin X /\ Y = X \cup {x}

LEMMA PutBack ==
  ASSUME NEW m, NEW H, NEW X, NEW Y, NEW z, NEW p, NEW o,
         Sound(m, H, Y), z = get_zone(p), OneMore(Y, X, <<p, o>>)
  PROVE  /\ Sound(free_list_add(m, z, p, o), H, X)
         /\ OneMore(Free(free_list_add(m, z, p, o)), Free(m), <<p, o>>)
<1>1. Sound(m, H, X \cup {<<p, o>>}) /\ <<p, o>> \notin X
  BY DEF OneMore
<1>2. /\ Sound(free_list_add(m, get_zone(p), p, o), H, X)
      /\ Free(free_list_add(m, get_zone(p), p, o)) = Free(m) \cup {<<p, o>>}
  BY <1>1, PutSound
<1>3. <<p, o>> \notin Free(m)
  BY <1>1 DEF Sound, Separate
<1> QED
  BY <1>2, <1>3 DEF OneMore

\* A free block is taken off its list.
LEMMA TakeSound ==
  ASSUME NEW m, NEW H, NEW X, NEW p, NEW o, <<p, o>> \in Free(m), Sound(m, H, X)
  PROVE  LET n == free_list_remove(m, get_zone(p), p, o)
         IN  Sound(n, H, X \cup {<<p, o>>}) /\ Free(n) = Free(m) \ {<<p, o>>}
<1> DEFINE x == <<p, o>>
           n == free_list_remove(m, get_zone(p), p, o)
           T == Free(m) \cup H \cup X
<1>1. /\ m \in Maps /\ Lists(m) /\ Counts(m) /\ Separate(Free(m), H, X)
      /\ Tiling(T) /\ Heads(m, Free(m), "FREE") /\ Heads(m, H, "PRESENT")
      /\ \A i \in Reserved : m.flags[i] = "RESERVED"
  BY DEF Sound
<1>2. x \in Page \X Order /\ AlignedAt(p, o)
  <2>1. x \in T
    OBVIOUS
  <2>2. x[1] = p /\ x[2] = o
    OBVIOUS
  <2> QED
    BY <1>1, <2>1, <2>2 DEF Tiling, Placed
<1>3. p \in Page /\ o \in Order
  BY <1>2
<1>5. /\ n \in Maps /\ Lists(n) /\ Free(n) = Free(m) \ {x}
      /\ n.flags = m.flags /\ n.order = m.order
      /\ n.free_pages = [m.free_pages EXCEPT ![get_zone(p)] = @ - BlockSize(o)]
  BY <1>1, <1>3, RemoveMap
<1>7. m.free_pages \in [Zone -> Int]
  BY <1>1 DEF Maps
<1> HIDE DEF n
<1>8. /\ Heads(n, Free(n), "FREE") /\ Heads(n, H, "PRESENT")
      /\ \A i \in Reserved : n.flags[i] = "RESERVED"
  BY <1>1, <1>5 DEF Heads
<1>11. Counts(n)
  <2> SUFFICES ASSUME NEW z \in Zone
               PROVE  n.free_pages[z] = Cardinality(Covered(Free(n), z))
    BY DEF Counts
  <2>0. Free(m) = Free(n) \cup {x} /\ x \notin Free(n)
    BY <1>5
  <2>1. Placed(Free(n) \cup {x}) /\ Apart(Free(n) \cup {x})
    BY <1>1, <2>0 DEF Tiling, Placed, Apart
  <2>2. Cardinality(Covered(Free(n) \cup {x}, z))
          = Cardinality(Covered(Free(n), z)) + (IF get_zone(p) = z THEN BlockSize(o) ELSE 0)
    <3>1. x[1] = p /\ x[2] = o
      OBVIOUS
    <3> HIDE DEF x
    <3> QED
      BY <2>0, <2>1, <3>1, CountOneMore
  <2>3. m.free_pages[z] = Cardinality(Covered(Free(m), z)) /\ Cardinality(Covered(Free(n), z)) \in Nat
    BY <1>1, CoveredFinite DEF Counts
  <2>4. n.free_pages[z] = m.free_pages[z] - (IF get_zone(p) = z THEN BlockSize(o) ELSE 0)
    <3>1. BlockSize(o) \in Nat
      BY <1>2, BlockSizes DEF AlignedAt
    <3> QED
      BY <1>5, <1>7, <3>1
  <2>5. BlockSize(o) \in Nat
    BY <1>2, BlockSizes DEF AlignedAt
  <2>6. Cardinality(Covered(Free(m), z))
          = Cardinality(Covered(Free(n), z)) + (IF get_zone(p) = z THEN BlockSize(o) ELSE 0)
    BY <2>0, <2>2
  <2> QED
    BY ONLY <2>3, <2>4, <2>5, <2>6
<1>12. Separate(Free(n), H, X \cup {x}) /\ Free(n) \cup H \cup (X \cup {x}) = T
  BY <1>1, <1>5 DEF Separate
<1> QED
  BY <1>1, <1>5, <1>8, <1>11, <1>12 DEF Sound, n

\* A block in hand is split.
LEMMA SplitSound ==
  ASSUME NEW m, NEW H, NEW p, NEW o \in Nat, Sound(m, H, {<<p, o + 1>>})
  PROVE  LET h == p + BlockSize(o)
         IN  /\ Sound(m, H, {<<p, o>>, <<h, o>>}) /\ <<h, o>> \notin {<<p, o>>}
             /\ get_buddy(h, o) = p /\ get_buddy(p, o) = h
             /\ get_zone(h) = get_zone(p)
<1> DEFINE h == p + BlockSize(o)
           x == <<p, o + 1>>
           B == Free(m) \cup H \cup {x}
           Y == {<<p, o>>, <<h, o>>}
<1>1. Tiling(B) /\ Separate(Free(m), H, {x})
  BY DEF Sound
<1>2. /\ Tiling((B \ {x}) \cup Y)
      /\ <<p, o>> \notin B /\ <<h, o>> \notin B /\ p # h
      /\ p \in Page /\ h \in Page /\ o \in Order /\ AlignedAt(p, o + 1)
  <2>1. <<p, o + 1>> \in B
    OBVIOUS
  <2> HIDE DEF B
  <2> QED
    BY <1>1, <2>1, SplitTiling
<1>3. /\ get_buddy(p, o) = h /\ get_buddy(h, o) = p /\ AlignedAt(h, o)
      /\ Block(p, o + 1) = Block(p, o) \cup Block(h, o)
  BY <1>2, HalfBlocks
<1>4. get_zone(h) = get_zone(p)
  <2>1. h \in Block(p, o + 1)
    BY <1>3, FirstPage
  <2>2. o + 1 \in Order
    <3>1. x \in Page \X Order
      BY <1>1 DEF Tiling, Placed
    <3> QED
      BY <3>1
  <2> QED
    BY <1>2, <2>1, <2>2, OneZone
<1>5. Separate(Free(m), H, Y) /\ Free(m) \cup H \cup Y = (B \ {x}) \cup Y
  BY <1>1, <1>2 DEF Separate
<1> HIDE DEF B, Y, x
<1>6. Sound(m, H, Y)
  BY <1>2, <1>5 DEF Sound
<1>7. <<h, o>> \notin {<<p, o>>}
  BY <1>2
<1> QED
  BY <1>3, <1>4, <1>6, <1>7 DEF Y

\* Two buddies in hand are merged.
LEMMA MergeSound ==
  ASSUME NEW m, NEW H, NEW p, NEW o, o < PMM_MAX_ORDER,
         Sound(m, H, {<<p, o>>, <<get_buddy(p, o), o>>})
  PROVE  LET q == MergedPage(p, get_buddy(p, o))
         IN  Sound(m, H, {<<q, o + 1>>}) /\ get_zone(q) = get_zone(p)
<1> DEFINE b == get_buddy(p, o)
           q == MergedPage(p, b)
           Y == {<<p, o>>, <<b, o>>}
           B == Free(m) \cup H \cup Y
           x == <<q, o + 1>>
<1>1. Tiling(B) /\ Separate(Free(m), H, Y)
  BY DEF Sound
<1>2. Tiling((B \ Y) \cup {x}) /\ x \notin B /\ x \in Page \X Order
  <2>1. <<p, o>> \in B /\ <<get_buddy(p, o), o>> \in B
    OBVIOUS
  <2> HIDE DEF B
  <2> QED
    BY <1>1, <2>1, MergeTiling
<1>3. AlignedAt(p, o)
  <2>1. <<p, o>> \in B /\ <<p, o>>[1] = p /\ <<p, o>>[2] = o
    OBVIOUS
  <2> QED
    BY <1>1, <2>1 DEF Tiling, Placed
<1>4. /\ AlignedAt(q, o + 1)
      /\ \/ p = q /\ b = q + BlockSize(o)
         \/ b = q /\ p = q + BlockSize(o)
  BY <1>3, Buddies
<1>5. get_zone(q) = get_zone(p)
  <2>1. o \in Nat /\ o + 1 \in Order
    BY <1>2, <1>3 DEF AlignedAt
  <2>2. p \in Block(q, o + 1)
    <3>1. Block(q, o + 1) = Block(q, o) \cup Block(q + BlockSize(o), o)
      BY <1>4, <2>1, HalfBlocks
    <3>2. p \in Block(p, o)
      BY <1>3, FirstPage
    <3> QED
      BY <1>4, <3>1, <3>2
  <2> QED
    BY <1>4, <2>1, <2>2, OneZone
<1>6. Separate(Free(m), H, {x}) /\ Free(m) \cup H \cup {x} = (B \ Y) \cup {x}
  BY <1>1, <1>2 DEF Separate
<1>7. Sound(m, H, Y)
  OBVIOUS
<1> HIDE DEF B, Y, x, q
<1>8. Sound(m, H, {x})
  BY <1>2, <1>6, <1>7 DEF Sound
<1> QED
  BY <1>5, <1>8 DEF x, q

\* The flags and the order of its first page tell a free buddy.
LEMMA FoundBuddy ==
  ASSUME NEW m, NEW H, NEW p, NEW o, Sound(m, H, {<<p, o>>})
  PROVE  CanMerge(m, p, o) <=> (o < PMM_MAX_ORDER /\ <<get_buddy(p, o), o>> \in Free(m))
<1> DEFINE b == get_buddy(p, o)
           B == Free(m) \cup H \cup {<<p, o>>}
<1>1. /\ m \in Maps /\ Tiling(B) /\ Heads(m, Free(m), "FREE") /\ Heads(m, H, "PRESENT")
      /\ \A i \in Reserved : m.flags[i] = "RESERVED"
  BY DEF Sound
<1>2. AlignedAt(p, o)
  <2>1. <<p, o>> \in B /\ <<p, o>>[1] = p /\ <<p, o>>[2] = o
    OBVIOUS
  <2> QED
    BY <1>1, <2>1 DEF Tiling, Placed
<1>3. b \in Nat /\ b # p
  BY <1>2, Buddies
<1>4. ASSUME CanMerge(m, p, o) PROVE <<b, o>> \in Free(m)
  <2>1. o < PMM_MAX_ORDER /\ b < PageCount /\ m.flags[b] = "FREE" /\ m.order[b] = o
    BY <1>4 DEF CanMerge
  <2>2. b \in Available
    BY <1>1, <1>3, <2>1, PmmConstants DEF Available, Page
  <2>3. PICK k \in Order : <<b, k>> \in B
    <3>1. <<p, o>> \in B
      OBVIOUS
    <3> HIDE DEF B
    <3> QED
      BY <1>1, <2>1, <2>2, <3>1, BuddyHeads
  <2>4. <<b, k>> # <<p, o>> /\ <<b, k>>[1] = b /\ <<b, k>>[2] = k
    BY <1>3
  <2>5. CASE <<b, k>> \in Free(m)
    <3>1. m.order[b] = k
      BY <1>1, <2>4, <2>5 DEF Heads
    <3> QED
      BY <2>1, <2>5, <3>1
  <2>6. CASE <<b, k>> \in H
    <3>1. m.flags[b] = "PRESENT"
      BY <1>1, <2>4, <2>6 DEF Heads
    <3> QED
      BY <2>1, <3>1
  <2> QED
    BY <2>3, <2>4, <2>5, <2>6
<1>5. ASSUME o < PMM_MAX_ORDER, <<b, o>> \in Free(m) PROVE CanMerge(m, p, o)
  <2>1. <<b, o>>[1] = b /\ <<b, o>>[2] = o
    OBVIOUS
  <2>2. m.flags[b] = "FREE" /\ m.order[b] = o
    BY <1>1, <1>5, <2>1 DEF Heads
  <2>3. b \in Page
    BY <1>5 DEF Free
  <2>4. b < PageCount
    BY <2>3, PmmConstants DEF Page
  <2> QED
    BY <1>5, <2>2, <2>4 DEF CanMerge
<1> QED
  BY <1>4, <1>5 DEF CanMerge

-----------------------------------------------------------------------------
(* Pmm: the loops. *)

NoBuddies(F) ==
    \A b \in F : b[2] \in 1 .. PMM_MAX_ORDER - 1 => <<get_buddy(b[1], b[2]), b[2]>> \notin F

LEMMA BuddyOfBuddy ==
  ASSUME NEW p, NEW o, AlignedAt(p, o)
  PROVE  get_buddy(get_buddy(p, o), o) = p /\ get_buddy(p, o) # p
<1> DEFINE b == get_buddy(p, o)
           q == MergedPage(p, b)
<1>1. /\ AlignedAt(q, o + 1) /\ b # p
      /\ \/ p = q /\ b = q + BlockSize(o)
         \/ b = q /\ p = q + BlockSize(o)
  BY Buddies
<1>2. o \in Nat
  BY DEF AlignedAt
<1>3. get_buddy(q, o) = q + BlockSize(o) /\ get_buddy(q + BlockSize(o), o) = q
  BY <1>1, <1>2, HalfBlocks
<1> HIDE DEF q
<1> QED
  BY <1>1, <1>3

\* A block whose buddy is not free can be added.
LEMMA AddNoBuddies ==
  ASSUME NEW F, NoBuddies(F), Placed(F), NEW p, NEW o, AlignedAt(p, o),
         o \in 1 .. PMM_MAX_ORDER - 1 => <<get_buddy(p, o), o>> \notin F
  PROVE  NoBuddies(F \cup {<<p, o>>})
<1> DEFINE x == <<p, o>>
<1> SUFFICES ASSUME NEW b \in F \cup {x}, b[2] \in 1 .. PMM_MAX_ORDER - 1,
                    <<get_buddy(b[1], b[2]), b[2]>> \in F \cup {x}
             PROVE  FALSE
  BY DEF NoBuddies
<1>1. x[1] = p /\ x[2] = o
  OBVIOUS
<1>2. CASE b = x
  <2>1. <<get_buddy(p, o), o>> # x
    BY BuddyOfBuddy
  <2> QED
    BY <1>1, <1>2, <2>1
<1>3. CASE b \in F
  <2>1. b = <<b[1], b[2]>> /\ AlignedAt(b[1], b[2])
    BY <1>3 DEF Placed
  <2>2. <<get_buddy(b[1], b[2]), b[2]>> = x
    BY <1>3 DEF NoBuddies
  <2>3. get_buddy(b[1], b[2]) = p /\ b[2] = o
    BY <2>2
  <2>4. get_buddy(p, o) = b[1]
    BY <2>1, <2>3, BuddyOfBuddy
  <2>5. <<get_buddy(p, o), o>> = b
    BY <2>1, <2>3, <2>4
  <2> QED
    BY <1>3, <2>3, <2>5
<1> QED
  BY <1>2, <1>3

\* split_block: the upper halves go to the free lists.
LEMMA SplitKeeps ==
  ASSUME NEW m, NEW H, NEW p, NEW k \in Order, NEW o \in 0 .. k,
         Sound(m, H, {<<p, k>>}), NoBuddies(Free(m))
  PROVE  LET n == split_block(m, get_zone(p), p, k, o)
         IN  Sound(n, H, {<<p, o>>}) /\ NoBuddies(Free(n))
<1> DEFINE z == get_zone(p)
           N == k - o
           list == [i \in 1 .. N |-> i]
           e == [zone |-> z, page |-> p, cur |-> k, list |-> list]
           I == [j \in 0 .. N |-> {c \in Maps : Sound(c, H, {<<p, k - j>>}) /\ NoBuddies(Free(c))}]
<1>1. k \in Nat /\ o \in Nat /\ N \in Nat /\ k - N = o
  BY PmmConstants DEF Order
<1>2. m \in I[0]
  <2>1. k - 0 = k /\ 0 \in 0 .. N
    BY <1>1
  <2>2. m \in Maps
    BY DEF Sound
  <2> QED
    BY <2>1, <2>2
<1>3. ASSUME NEW j \in 0 .. N - 1, NEW c \in I[j]
      PROVE  SplitStep(e, j + 1, c) \in I[j + 1]
  <2> DEFINE w == k - (j + 1)
             h == p + BlockSize(w)
             n == free_list_add(c, z, h, w)
  <2>1. j \in 0 .. N /\ j + 1 \in 0 .. N /\ j + 1 \in 1 .. N /\ w \in Nat /\ w + 1 = k - j
    BY <1>1
  <2>2. c \in Maps /\ Sound(c, H, {<<p, k - j>>}) /\ NoBuddies(Free(c))
    BY <2>1
  <2>3. SplitStep(e, j + 1, c) = n
    <3>1. list[j + 1] = j + 1
      BY <2>1
    <3> QED
      BY <3>1 DEF SplitStep
  <2>4. I[j + 1] = {d \in Maps : Sound(d, H, {<<p, w>>}) /\ NoBuddies(Free(d))}
    BY <2>1
  <2> HIDE DEF w, z, N, list, I, e
  <2>5. Sound(c, H, {<<p, w + 1>>})
    BY <2>1, <2>2
  <2>6. /\ Sound(c, H, {<<p, w>>, <<h, w>>}) /\ <<h, w>> \notin {<<p, w>>}
        /\ get_buddy(h, w) = p /\ get_zone(h) = z
    BY <2>1, <2>5, SplitSound DEF z
  <2>7. {<<p, w>>, <<h, w>>} = {<<p, w>>} \cup {<<h, w>>}
    OBVIOUS
  <2>a. OneMore({<<p, w>>, <<h, w>>}, {<<p, w>>}, <<h, w>>)
    BY <2>6, <2>7 DEF OneMore
  <2> HIDE DEF h
  <2>8. Sound(c, H, {<<p, w>>} \cup {<<h, w>>})
    BY <2>6, <2>7
  <2>9. Sound(n, H, {<<p, w>>}) /\ Free(n) = Free(c) \cup {<<h, w>>}
    <3>1. Sound(n, H, {<<p, w>>})
      BY ONLY <2>6, <2>a, PutBack, Zenon
    <3>2. OneMore(Free(n), Free(c), <<h, w>>)
      BY ONLY <2>6, <2>a, PutBack, Zenon
    <3> QED
      BY <3>1, <3>2 DEF OneMore
  <2>10. NoBuddies(Free(n))
    <3>1. <<p, w>> \notin Free(c) /\ Placed(Free(c)) /\ AlignedAt(h, w)
      <4>1. Separate(Free(c), H, {<<p, w>>} \cup {<<h, w>>})
            /\ Tiling(Free(c) \cup H \cup ({<<p, w>>} \cup {<<h, w>>}))
        BY <2>8 DEF Sound
      <4>2. <<h, w>>[1] = h /\ <<h, w>>[2] = w
        OBVIOUS
      <4> QED
        BY <4>1, <4>2 DEF Separate, Tiling, Placed
    <3> QED
      BY <2>2, <2>6, <2>9, <3>1, AddNoBuddies
  <2>11. n \in Maps
    BY <2>9 DEF Sound
  <2> QED
    BY <2>3, <2>4, <2>9, <2>10, <2>11
<1>4. Split!PicksLast(N)
  BY <1>1, Split!GreatestMember DEF Split!PicksLast, Max
<1>5. split_block(m, z, p, k, o) = Split!Fold(e, m, DOMAIN list) /\ DOMAIN list = 1 .. N
  BY SplitIsFold
<1>6. I[N] = {c \in Maps : Sound(c, H, {<<p, o>>}) /\ NoBuddies(Free(c))}
  BY <1>1
<1>7. Split!Fold(e, m, 1 .. N) \in I[N]
  <2> HIDE DEF e, I, N
  <2> QED
    BY <1>1, <1>2, <1>3, <1>4, Split!FoldSeqInduction
<1> HIDE DEF e, I, list, N
<1> QED
  BY <1>5, <1>6, <1>7 DEF z

\* What coalesce_buddies has after k turns: a block in hand that is larger by k
\* orders, or that cannot be merged any more.
MergeState(H, z, o, k) ==
    {v \in [mem : Maps, page : Page, order : Order, stop : BOOLEAN] :
        /\ Sound(v.mem, H, {<<v.page, v.order>>})
        /\ NoBuddies(Free(v.mem))
        /\ get_zone(v.page) = z
        /\ v.stop = FALSE => v.order = o + k
        /\ v.stop = TRUE => ~CanMerge(v.mem, v.page, v.order)}

LEMMA MergeStepKeeps ==
  ASSUME NEW H, NEW z, NEW o \in Order, NEW k \in 0 .. PMM_MAX_ORDER - o - 1,
         NEW v \in MergeState(H, z, o, k)
  PROVE  MergeStep(z, k + 1, v) \in MergeState(H, z, o, k + 1)
<1>1. /\ v \in [mem : Maps, page : Page, order : Order, stop : BOOLEAN]
      /\ Sound(v.mem, H, {<<v.page, v.order>>})
      /\ NoBuddies(Free(v.mem))
      /\ get_zone(v.page) = z
      /\ v.stop = FALSE => v.order = o + k
      /\ v.stop = TRUE => ~CanMerge(v.mem, v.page, v.order)
  BY DEF MergeState
<1>2. o \in Nat /\ k \in Nat /\ PMM_MAX_ORDER \in Nat
  BY PmmConstants DEF Order
<1>3. v.stop \in BOOLEAN
  BY <1>1
<1>4. CASE v.stop = TRUE \/ ~CanMerge(v.mem, v.page, v.order)
  <2> DEFINE r == [v EXCEPT !.stop = TRUE]
  <2>1. MergeStep(z, k + 1, v) = r
    BY <1>3, <1>4 DEF MergeStep
  <2>2. r \in [mem : Maps, page : Page, order : Order, stop : BOOLEAN]
    BY <1>1
  <2>3. r.mem = v.mem /\ r.page = v.page /\ r.order = v.order /\ r.stop = TRUE
    BY <1>1
  <2> HIDE DEF r
  <2>4. r.stop # FALSE
    BY <2>3
  <2> QED
    BY <1>1, <1>4, <2>1, <2>2, <2>3, <2>4 DEF MergeState
<1>5. CASE v.stop = FALSE /\ CanMerge(v.mem, v.page, v.order)
  <2> DEFINE b == get_buddy(v.page, v.order)
             n == free_list_remove(v.mem, z, b, v.order)
             q == MergedPage(v.page, b)
             r == [mem |-> n, page |-> q, order |-> v.order + 1, stop |-> FALSE]
  <2>1. MergeStep(z, k + 1, v) = r
    BY <1>5 DEF MergeStep
  <2>2. v.order < PMM_MAX_ORDER /\ <<b, v.order>> \in Free(v.mem)
    BY <1>1, <1>5, FoundBuddy
  <2>3. AlignedAt(v.page, v.order)
    <3>1. Placed(Free(v.mem) \cup H \cup {<<v.page, v.order>>})
      BY <1>1 DEF Sound, Tiling
    <3>2. <<v.page, v.order>>[1] = v.page /\ <<v.page, v.order>>[2] = v.order
      OBVIOUS
    <3> QED
      BY <3>1, <3>2 DEF Placed
  <2>4. get_zone(b) = z
    <3>1. v.order \in Nat /\ v.order + 1 \in Order
      BY <1>1, <1>2, <2>2 DEF Order
    <3>2. /\ AlignedAt(q, v.order + 1)
          /\ \/ v.page = q /\ b = q + BlockSize(v.order)
             \/ b = q /\ v.page = q + BlockSize(v.order)
      BY <2>3, Buddies
    <3>3. /\ AlignedAt(q, v.order) /\ AlignedAt(q + BlockSize(v.order), v.order)
          /\ Block(q, v.order + 1) = Block(q, v.order) \cup Block(q + BlockSize(v.order), v.order)
      BY <3>1, <3>2, HalfBlocks
    <3>4. b \in Block(q, v.order + 1) /\ v.page \in Block(q, v.order + 1)
      BY <3>2, <3>3, FirstPage
    <3>5. get_zone(b) = get_zone(q) /\ get_zone(v.page) = get_zone(q)
      BY <3>1, <3>2, <3>4, OneZone
    <3> QED
      BY <1>1, <3>5
  <2>5. /\ Sound(n, H, {<<v.page, v.order>>} \cup {<<b, v.order>>})
        /\ Free(n) = Free(v.mem) \ {<<b, v.order>>}
    BY <1>1, <2>2, <2>4, TakeSound
  <2>6. {<<v.page, v.order>>} \cup {<<b, v.order>>} = {<<v.page, v.order>>, <<b, v.order>>}
    OBVIOUS
  <2>7. Sound(n, H, {<<v.page, v.order>>, <<b, v.order>>})
    BY <2>5, <2>6
  <2> HIDE DEF n
  <2>8. Sound(n, H, {<<q, v.order + 1>>}) /\ get_zone(q) = z
    BY <1>1, <2>2, <2>7, MergeSound
  <2>9. NoBuddies(Free(n))
    BY <1>1, <2>5 DEF NoBuddies
  <2>10. n \in Maps /\ q \in Page /\ v.order + 1 \in Order
    <3>1. n \in Maps /\ Placed(Free(n) \cup H \cup {<<q, v.order + 1>>})
      BY <2>8 DEF Sound, Tiling
    <3>2. <<q, v.order + 1>> \in Page \X Order
      BY <3>1 DEF Placed
    <3> QED
      BY <3>1, <3>2
  <2>11. v.order + 1 = o + (k + 1)
    BY <1>1, <1>2, <1>5
  <2> HIDE DEF q
  <2>12. r \in [mem : Maps, page : Page, order : Order, stop : BOOLEAN]
    BY <2>10
  <2>13. r.mem = n /\ r.page = q /\ r.order = v.order + 1 /\ r.stop = FALSE
    OBVIOUS
  <2> HIDE DEF r
  <2>14. r.stop # TRUE
    BY <2>13
  <2> QED
    BY <2>1, <2>8, <2>9, <2>11, <2>12, <2>13, <2>14 DEF MergeState
<1> QED
  BY <1>3, <1>4, <1>5

\* coalesce_buddies: the block is merged as far as it can be and put back.
LEMMA MergeKeeps ==
  ASSUME NEW m, NEW H, NEW p \in Page, NEW o \in Order,
         Sound(m, H, {<<p, o>>}), NoBuddies(Free(m))
  PROVE  LET n == coalesce_buddies(m, get_zone(p), p, o)
         IN  Sound(n, H, {}) /\ NoBuddies(Free(n))
<1> DEFINE z == get_zone(p)
           N == PMM_MAX_ORDER - o
           base == [mem |-> m, page |-> p, order |-> o, stop |-> FALSE]
           I == [k \in 0 .. N |-> MergeState(H, z, o, k)]
           end == Merge!Rec(z, base, N)
<1>1. o \in Nat /\ N \in Nat /\ PMM_MAX_ORDER \in Nat
  BY PmmConstants DEF Order
<1>2. base \in I[0]
  <2>1. I[0] = MergeState(H, z, o, 0)
    BY <1>1
  <2>2. m \in Maps /\ o = o + 0
    BY <1>1 DEF Sound
  <2>3. base \in [mem : Maps, page : Page, order : Order, stop : BOOLEAN]
    BY <2>2
  <2>4. base.mem = m /\ base.page = p /\ base.order = o /\ base.stop = FALSE
    OBVIOUS
  <2> HIDE DEF base
  <2>5. base.stop # TRUE
    BY <2>4
  <2> QED
    BY <2>1, <2>2, <2>3, <2>4, <2>5 DEF MergeState
<1>3. ASSUME NEW k \in 0 .. N - 1, NEW c \in I[k]
      PROVE  MergeStep(z, k + 1, c) \in I[k + 1]
  <2>1. k \in 0 .. N /\ k + 1 \in 0 .. N /\ k \in 0 .. PMM_MAX_ORDER - o - 1
    BY <1>1
  <2>2. c \in MergeState(H, z, o, k) /\ I[k + 1] = MergeState(H, z, o, k + 1)
    BY <2>1
  <2> HIDE DEF z, N, I
  <2> QED
    BY <2>1, <2>2, MergeStepKeeps
<1>4. I[N] = MergeState(H, z, o, N)
  BY <1>1
<1>5. end \in I[N]
  <2> HIDE DEF base, I, N, z
  <2> QED
    BY <1>1, <1>2, <1>3, Merge!RecInduction
<1>6. coalesce_buddies(m, z, p, o) = free_list_add(end.mem, z, end.page, end.order)
  BY MergeIsRec
<1> HIDE DEF base, I, end
<1>7. /\ end \in [mem : Maps, page : Page, order : Order, stop : BOOLEAN]
      /\ Sound(end.mem, H, {<<end.page, end.order>>})
      /\ NoBuddies(Free(end.mem))
      /\ get_zone(end.page) = z
      /\ end.stop = FALSE => end.order = o + N
      /\ end.stop = TRUE => ~CanMerge(end.mem, end.page, end.order)
  BY <1>4, <1>5 DEF MergeState
<1>8. ~CanMerge(end.mem, end.page, end.order)
  <2>1. end.stop \in BOOLEAN
    BY <1>7
  <2>2. CASE end.stop = FALSE
    <3>1. ~ (end.order < PMM_MAX_ORDER)
      BY <1>1, <1>7, <2>2
    <3> QED
      BY <3>1 DEF CanMerge
  <2> QED
    BY <1>7, <2>1, <2>2
<1> DEFINE n == free_list_add(end.mem, z, end.page, end.order)
           x == <<end.page, end.order>>
<1>9. Sound(n, H, {}) /\ Free(n) = Free(end.mem) \cup {x}
  <2>1. OneMore({x}, {}, x)
    BY DEF OneMore
  <2>2. z = get_zone(end.page) /\ Sound(end.mem, H, {x})
    BY <1>7
  <2>3. Sound(n, H, {})
    BY ONLY <2>1, <2>2, PutBack, Zenon
  <2>4. OneMore(Free(n), Free(end.mem), x)
    BY ONLY <2>1, <2>2, PutBack, Zenon
  <2> QED
    BY <2>3, <2>4 DEF OneMore
<1>10. NoBuddies(Free(n))
  <2>1. AlignedAt(end.page, end.order) /\ Placed(Free(end.mem))
    <3>1. Placed(Free(end.mem) \cup H \cup {x})
      BY <1>7 DEF Sound, Tiling
    <3>2. x[1] = end.page /\ x[2] = end.order
      OBVIOUS
    <3> HIDE DEF x
    <3> QED
      BY <3>1, <3>2 DEF Placed
  <2>2. end.order \in 1 .. PMM_MAX_ORDER - 1 => <<get_buddy(end.page, end.order), end.order>> \notin Free(end.mem)
    <3>1. end.order \in 1 .. PMM_MAX_ORDER - 1 => end.order < PMM_MAX_ORDER
      BY <1>1
    <3> QED
      BY <1>7, <1>8, <3>1, FoundBuddy
  <2> QED
    BY <1>7, <1>9, <2>1, <2>2, AddNoBuddies
<1> QED
  BY <1>6, <1>9, <1>10

-----------------------------------------------------------------------------
(* Pmm: the invariant. *)

\* The pages of blocks.
Cover(B) == {i \in Page : \E b \in B : i \in Span(b)}

PmmInv ==
    /\ Sound(Memory, held, {})
    /\ NoBuddies(FreeBlocks)
    /\ free_memory = Cardinality(Cover(FreeBlocks))

LEMMA CoverFinite ==
  ASSUME NEW B
  PROVE  /\ IsFiniteSet(Cover(B)) /\ Cardinality(Cover(B)) \in Nat
         /\ Cardinality(Cover(B)) <= PageCount
<1>1. Cover(B) \subseteq Page
  BY DEF Cover
<1> QED
  BY <1>1, PagesFinite, FS_Subset, FS_CardinalityType

\* The zones divide the pages.
LEMMA ThreeZones ==
  ASSUME NEW B, Apart(B)
  PROVE  Cardinality(Cover(B)) = Cardinality(Covered(B, "DMA"))
           + Cardinality(Covered(B, "NORMAL")) + Cardinality(Covered(B, "HIGH"))
<1> DEFINE D == Covered(B, "DMA")
           M == Covered(B, "NORMAL")
           G == Covered(B, "HIGH")
<1>1. Cover(B) = (D \cup M) \cup G
  BY ZoneOf DEF Cover, Covered, Zone
<1>2. D \cap M = {} /\ (D \cup M) \cap G = {}
  BY DEF Covered, Apart
<1>3. /\ IsFiniteSet(D) /\ IsFiniteSet(M) /\ IsFiniteSet(G)
      /\ Cardinality(D) \in Nat /\ Cardinality(M) \in Nat /\ Cardinality(G) \in Nat
  BY CoveredFinite
<1> HIDE DEF D, M, G
<1>4. IsFiniteSet(D \cup M) /\ Cardinality(D \cup M) = Cardinality(D) + Cardinality(M)
  <2>1. Cardinality(D \cup M) = Cardinality(D) + Cardinality(M) - Cardinality(D \cap M) /\ IsFiniteSet(D \cup M)
    BY <1>3, FS_Union
  <2>2. Cardinality(D \cap M) = 0
    BY <1>2, FS_EmptySet
  <2> QED
    BY <1>3, <2>1, <2>2
<1>5. Cardinality((D \cup M) \cup G) = Cardinality(D \cup M) + Cardinality(G)
  <2>1. Cardinality((D \cup M) \cup G) = Cardinality(D \cup M) + Cardinality(G) - Cardinality((D \cup M) \cap G)
    BY <1>3, <1>4, FS_Union
  <2>2. Cardinality((D \cup M) \cap G) = 0
    BY <1>2, FS_EmptySet
  <2> QED
    BY <1>3, <1>4, <2>1, <2>2
<1> QED
  BY <1>1, <1>3, <1>4, <1>5 DEF D, M, G

\* What one block more in use takes from the free memory.
LEMMA OneMoreHeld ==
  ASSUME NEW F, NEW G, NEW H, NEW x, x \notin H,
         Tiling(F \cup H), F \cap H = {},
         Tiling(G \cup (H \cup {x})), G \cap (H \cup {x}) = {}
  PROVE  Cardinality(Cover(F)) = Cardinality(Cover(G)) + BlockSize(x[2])
<1>1. Cover(F) = Available \ Cover(H)
  <2>1. \A b \in F \cup H : Span(b) \subseteq Available
    BY DEF Tiling, Placed
  <2>2. \A b \in F : \A c \in H : Span(b) \cap Span(c) = {}
    BY DEF Tiling, Apart
  <2>3. Available \subseteq Page
    BY DEF Available
  <2> QED
    BY <2>1, <2>2, <2>3 DEF Cover, Tiling, Covers
<1>2. Cover(G) = Available \ (Cover(H) \cup Span(x))
  <2>1. \A b \in G \cup (H \cup {x}) : Span(b) \subseteq Available
    BY DEF Tiling, Placed
  <2>2. \A b \in G : \A c \in H \cup {x} : Span(b) \cap Span(c) = {}
    BY DEF Tiling, Apart
  <2>3. Available \subseteq Page
    BY DEF Available
  <2> QED
    BY <2>1, <2>2, <2>3 DEF Cover, Tiling, Covers
<1>3. AlignedAt(x[1], x[2]) /\ Span(x) \subseteq Available /\ Span(x) \cap Cover(H) = {}
  BY DEF Tiling, Placed, Apart, Cover
<1>4. Cover(F) = Cover(G) \cup Span(x) /\ Cover(G) \cap Span(x) = {}
  BY <1>1, <1>2, <1>3
<1>5. IsFiniteSet(Span(x)) /\ Cardinality(Span(x)) = BlockSize(x[2]) /\ BlockSize(x[2]) \in Nat
  BY <1>3, BlockPages, FS_CardinalityType DEF Span
<1>6. IsFiniteSet(Cover(G)) /\ Cardinality(Cover(G)) \in Nat
  BY CoverFinite
<1>7. Cardinality(Cover(G) \cup Span(x))
        = Cardinality(Cover(G)) + Cardinality(Span(x)) - Cardinality(Cover(G) \cap Span(x))
  BY <1>5, <1>6, FS_Union
<1>8. Cardinality(Cover(G) \cap Span(x)) = 0
  BY <1>4, FS_EmptySet
<1> QED
  BY <1>4, <1>5, <1>6, <1>7, <1>8

\* The block in hand is marked as in use.
Mark(m, p, o) == [m EXCEPT !.flags[p] = "PRESENT", !.order[p] = o]

LEMMA HoldSound ==
  ASSUME NEW m, NEW H, NEW p, NEW o, Sound(m, H, {<<p, o>>})
  PROVE  /\ Sound(Mark(m, p, o), H \cup {<<p, o>>}, {})
         /\ Free(Mark(m, p, o)) = Free(m) /\ <<p, o>> \notin H /\ <<p, o>> \in Page \X Order
<1> DEFINE x == <<p, o>>
           n == Mark(m, p, o)
           T == Free(m) \cup H \cup {x}
<1>1. /\ m \in Maps /\ Lists(m) /\ Counts(m) /\ Separate(Free(m), H, {x})
      /\ Tiling(T) /\ Heads(m, Free(m), "FREE") /\ Heads(m, H, "PRESENT")
      /\ \A i \in Reserved : m.flags[i] = "RESERVED"
  BY DEF Sound
<1>2. x \in Page \X Order /\ AlignedAt(p, o) /\ Span(x) \subseteq Available
  <2>1. x \in T
    OBVIOUS
  <2>2. x[1] = p /\ x[2] = o
    OBVIOUS
  <2> QED
    BY <1>1, <2>1, <2>2 DEF Tiling, Placed
<1>3. p \in Page /\ o \in Order /\ p \notin Reserved
  <2>1. p \in Span(x)
    BY <1>2, FirstPage DEF Span
  <2> QED
    BY <1>2, <2>1 DEF Available
<1>4. x \notin Free(m) /\ x \notin H
  BY <1>1 DEF Separate
<1>5. m.flags \in [Page -> {"FREE", "PRESENT", "RESERVED"}] /\ m.order \in [Page -> Order]
  BY <1>1 DEF Maps
<1>7. /\ n.flags = [m.flags EXCEPT ![p] = "PRESENT"] /\ n.order = [m.order EXCEPT ![p] = o]
      /\ n.free_lists = m.free_lists /\ n.free_pages = m.free_pages
  BY <1>1, <1>3 DEF Mark, Maps
<1>8. n \in Maps
  BY <1>1, <1>3 DEF Mark, Maps
<1> HIDE DEF n
<1>9. Free(n) = Free(m) /\ Lists(n) /\ Counts(n)
  <2>1. Free(n) = Free(m)
    BY <1>7 DEF Free
  <2> QED
    BY <1>1, <1>7, <2>1 DEF Lists, Counts
<1>10. \A b \in Free(m) \cup H : b[1] # p /\ b[1] \in Page
  <2> SUFFICES ASSUME NEW b \in Free(m) \cup H PROVE b[1] # p /\ b[1] \in Page
    OBVIOUS
  <2>1. b \in T /\ x \in T /\ b # x /\ x[1] = p
    BY <1>4
  <2>2. b \in Page \X Order
    BY <1>1, <2>1 DEF Tiling, Placed
  <2> QED
    BY <1>1, <2>1, <2>2, OneHead
<1>11. \A b \in Free(m) \cup H : n.flags[b[1]] = m.flags[b[1]] /\ n.order[b[1]] = m.order[b[1]]
  BY <1>5, <1>7, <1>10
<1>12. Heads(n, Free(n), "FREE")
  BY <1>1, <1>9, <1>11 DEF Heads
<1>13. Heads(n, H \cup {x}, "PRESENT")
  <2>1. n.flags[p] = "PRESENT" /\ n.order[p] = o /\ x[1] = p /\ x[2] = o
    BY <1>3, <1>5, <1>7
  <2> HIDE DEF x
  <2> QED
    BY <1>1, <1>11, <2>1 DEF Heads
<1>14. \A i \in Reserved : n.flags[i] = "RESERVED"
  <2>1. Reserved \subseteq Page
    BY PmmConstants DEF Page
  <2> QED
    BY <1>1, <1>3, <1>5, <1>7, <2>1
<1>15. Separate(Free(n), H \cup {x}, {}) /\ Free(n) \cup (H \cup {x}) \cup {} = T
  BY <1>1, <1>9 DEF Separate
<1> HIDE DEF x
<1>16. Sound(n, H \cup {x}, {})
  BY <1>1, <1>8, <1>9, <1>12, <1>13, <1>14, <1>15 DEF Sound
<1> QED
  BY <1>2, <1>4, <1>9, <1>16 DEF n, x

LEMMA FreeNow == Free(Memory) = FreeBlocks
  BY DEF Free, Memory, FreeBlocks

LEMMA StoreMap ==
  ASSUME NEW n \in Maps, Store(n)
  PROVE  Memory' = n /\ FreeBlocks' = Free(n)
<1>1. n = [flags |-> n.flags, order |-> n.order, free_lists |-> n.free_lists, free_pages |-> n.free_pages]
  BY DEF Maps
<1>2. Memory' = [flags |-> n.flags, order |-> n.order, free_lists |-> n.free_lists, free_pages |-> n.free_pages]
  BY DEF Store, Memory
<1>3. free_lists' = n.free_lists
  BY DEF Store
<1> QED
  BY <1>1, <1>2, <1>3 DEF FreeBlocks, Free

LEMMA AllocKeeps ==
  ASSUME PmmInv, NEW o \in Order, pmm_alloc_pages(o)
  PROVE  PmmInv'
<1> DEFINE z == SearchedZone(o)
           k == Min(Fits(z, o))
           p == Head(free_lists[z][k])
           r == free_list_remove(Memory, z, p, k)
           m == split_block(r, z, p, k, o)
           x == <<p, o>>
<1>1. /\ z # "HIGH" /\ Store(Mark(m, p, o))
      /\ free_memory' = free_memory - BlockSize(o)
      /\ held' = held \cup {x}
  BY DEF pmm_alloc_pages, Mark
<1>2. Sound(Memory, held, {}) /\ NoBuddies(Free(Memory)) /\ free_memory = Cardinality(Cover(Free(Memory)))
  BY FreeNow DEF PmmInv
<1>3. Memory \in Maps /\ Lists(Memory) /\ Memory.free_lists = free_lists
  BY <1>2 DEF Sound, Memory
<1>4. z \in Zone /\ Fits(z, o) # {}
  BY <1>1 DEF SearchedZone, Zone
<1> HIDE DEF z
<1>5. k \in o .. PMM_MAX_ORDER /\ free_lists[z][k] # << >>
  <2>1. Fits(z, o) \subseteq Nat
    BY PmmConstants DEF Fits, Order
  <2>2. \E i \in Fits(z, o) : \A y \in Fits(z, o) : i <= y
    BY <1>4, <2>1, Sizes!LeastMember
  <2>3. Min(Fits(z, o)) \in Fits(z, o)
    BY <2>2 DEF Min
  <2> QED
    BY <2>3 DEF Fits
<1>6. k \in Order /\ o \in 0 .. k
  BY <1>5, PmmConstants DEF Order
<1> HIDE DEF k
<1>7. free_lists[z][k] \in Seq(Page) /\ ZoneList(free_lists[z][k], z)
  BY <1>3, <1>4, <1>6 DEF Maps, Lists
<1>8. p \in Page /\ p \in Sizes!Elements(free_lists[z][k])
  <2>1. Len(free_lists[z][k]) \in Nat \ {0} /\ p = free_lists[z][k][1] /\ DOMAIN free_lists[z][k] = 1 .. Len(free_lists[z][k])
    BY <1>5, <1>7
  <2> QED
    BY <1>7, <2>1 DEF Sizes!Elements
<1> HIDE DEF p
<1>9. get_zone(p) = z
  BY <1>7, <1>8 DEF ZoneList
<1>10. <<p, k>> \in Free(Memory)
  BY <1>3, <1>6, <1>8, <1>9, FreeIn
<1>11. Sound(r, held, {<<p, k>>}) /\ NoBuddies(Free(r))
  <2>1. Sound(r, held, {} \cup {<<p, k>>}) /\ Free(r) = Free(Memory) \ {<<p, k>>}
    BY <1>2, <1>9, <1>10, TakeSound
  <2>2. {} \cup {<<p, k>>} = {<<p, k>>}
    OBVIOUS
  <2> HIDE DEF r
  <2> QED
    BY <1>2, <2>1, <2>2 DEF NoBuddies
<1> HIDE DEF r
<1>12. Sound(m, held, {x}) /\ NoBuddies(Free(m))
  BY <1>6, <1>9, <1>11, SplitKeeps
<1> HIDE DEF m
<1>13. /\ Sound(Mark(m, p, o), held \cup {x}, {})
       /\ Free(Mark(m, p, o)) = Free(m) /\ x \notin held /\ x \in Page \X Order
  BY <1>12, HoldSound
<1>14. Mark(m, p, o) \in Maps
  BY <1>13 DEF Sound
<1>15. Memory' = Mark(m, p, o) /\ FreeBlocks' = Free(m)
  BY <1>1, <1>13, <1>14, StoreMap
<1>16. free_memory' = Cardinality(Cover(Free(m)))
  <2>1. Tiling(Free(Memory) \cup held) /\ Free(Memory) \cap held = {}
    <3>1. Free(Memory) \cup held \cup {} = Free(Memory) \cup held
      OBVIOUS
    <3> QED
      BY <1>2, <3>1 DEF Sound, Separate
  <2>2. Tiling(Free(m) \cup (held \cup {x})) /\ Free(m) \cap (held \cup {x}) = {}
    <3>1. Free(m) \cup (held \cup {x}) \cup {} = Free(m) \cup (held \cup {x})
      OBVIOUS
    <3> HIDE DEF x
    <3> QED
      BY <1>13, <3>1 DEF Sound, Separate
  <2>3. x[2] = o
    OBVIOUS
  <2> HIDE DEF x
  <2>4. Cardinality(Cover(Free(Memory))) = Cardinality(Cover(Free(m))) + BlockSize(x[2])
    BY <1>13, <2>1, <2>2, OneMoreHeld
  <2>5. Cardinality(Cover(Free(m))) \in Nat /\ BlockSize(o) \in Nat
    BY CoverFinite, BlockSizes, PmmConstants DEF Order
  <2> QED
    BY <1>1, <1>2, <2>3, <2>4, <2>5
<1> HIDE DEF x
<1>17. Sound(Memory', held', {})
  BY <1>1, <1>13, <1>15
<1> QED
  BY <1>12, <1>15, <1>16, <1>17 DEF PmmInv

\* A held block is in use: the test for a second release never fires.
LEMMA FreeKeeps ==
  ASSUME PmmInv, NEW p \in Page, NEW o \in Order, pmm_free_pages(p, o)
  PROVE  PmmInv'
<1> DEFINE x == <<p, o>>
           H == held \ {x}
           n == coalesce_buddies(Memory, get_zone(p), p, o)
<1>1. x \in held /\ held' = H
  BY DEF pmm_free_pages
<1>2. Sound(Memory, held, {}) /\ NoBuddies(Free(Memory)) /\ free_memory = Cardinality(Cover(Free(Memory)))
  BY FreeNow DEF PmmInv
<1>3. p # 0 /\ page_flags[p] # "FREE"
  <2>1. x[1] = p /\ x[2] = o
    OBVIOUS
  <2>2. Memory.flags[p] = "PRESENT" /\ Memory.flags = page_flags
    BY <1>1, <1>2, <2>1 DEF Sound, Heads, Memory
  <2>3. p \in Available
    <3>1. x \in Free(Memory) \cup held \cup {}
      BY <1>1
    <3>2. Span(x) \subseteq Available /\ AlignedAt(p, o)
      BY <1>2, <2>1, <3>1 DEF Sound, Tiling, Placed
    <3> QED
      BY <3>2, FirstPage DEF Span
  <2> QED
    BY <2>2, <2>3, PmmConstants DEF Available
<1>4. Store(n) /\ free_memory' = free_memory + BlockSize(o)
  BY <1>3 DEF pmm_free_pages
<1>5. Sound(Memory, H, {x})
  <2>1. Separate(Free(Memory), H, {x}) /\ Free(Memory) \cup H \cup {x} = Free(Memory) \cup held \cup {}
    BY <1>1, <1>2 DEF Sound, Separate
  <2>2. Heads(Memory, H, "PRESENT")
    BY <1>2 DEF Sound, Heads
  <2> HIDE DEF H, x
  <2> QED
    BY <1>2, <2>1, <2>2 DEF Sound
<1>6. Sound(n, H, {}) /\ NoBuddies(Free(n))
  <2> HIDE DEF H
  <2> QED
    BY <1>2, <1>5, MergeKeeps
<1> HIDE DEF n
<1>7. n \in Maps
  BY <1>6 DEF Sound
<1>8. Memory' = n /\ FreeBlocks' = Free(n)
  BY <1>4, <1>7, StoreMap
<1>9. free_memory' = Cardinality(Cover(Free(n)))
  <2>0. held = H \cup {x} /\ x \notin H /\ x[2] = o
    BY <1>1
  <2> HIDE DEF x, H
  <2>1. Tiling(Free(Memory) \cup (H \cup {x})) /\ Free(Memory) \cap (H \cup {x}) = {}
    <3>1. Free(Memory) \cup held \cup {} = Free(Memory) \cup (H \cup {x})
      BY <2>0
    <3> QED
      BY <1>2, <2>0, <3>1 DEF Sound, Separate
  <2>2. Tiling(Free(n) \cup H) /\ Free(n) \cap H = {}
    <3>1. Free(n) \cup H \cup {} = Free(n) \cup H
      OBVIOUS
    <3> QED
      BY <1>6, <3>1 DEF Sound, Separate
  <2>3. Cardinality(Cover(Free(n))) = Cardinality(Cover(Free(Memory))) + BlockSize(x[2])
    BY <2>0, <2>1, <2>2, OneMoreHeld
  <2> QED
    BY <1>2, <1>4, <2>0, <2>3
<1> HIDE DEF H
<1> QED
  BY <1>1, <1>6, <1>8, <1>9 DEF PmmInv

\* The order-0 blocks of the first k pages, as pmm_init links them.
Booted(k) ==
    {m \in Maps :
        /\ Lists(m) /\ Counts(m)
        /\ Free(m) = {b \in Page \X Order : b[1] \in Available /\ b[1] < k /\ b[2] = 0}
        /\ \A i \in Page : IF i \in Available /\ i < k
                             THEN m.flags[i] = "FREE" /\ m.order[i] = 0
                             ELSE m.flags[i] = "RESERVED"}

\* Blocks of order 0 are aligned and apart.
LEMMA SinglePages ==
  ASSUME NEW B, \A b \in B : b \in Page \X Order /\ b[1] \in Available /\ b[2] = 0
  PROVE  Placed(B) /\ Apart(B) /\ \A b \in B : Span(b) = {b[1]}
<1>1. ASSUME NEW b \in B
      PROVE  Span(b) = {b[1]} /\ AlignedAt(b[1], b[2])
  <2>1. b[1] \in Nat /\ b[2] = 0 /\ BlockSize(0) = 1
    BY PmmConstants, BlockSizes DEF Page
  <2>2. Span(b) = b[1] .. b[1] + 1 - 1
    BY <2>1 DEF Span, Block
  <2>3. b[1] = b[1] * BlockSize(b[2])
    BY <2>1
  <2> QED
    BY <2>1, <2>2, <2>3 DEF AlignedAt, Multiple
<1>2. Placed(B)
  BY <1>1 DEF Placed
<1>3. Apart(B)
  <2>1. \A b, c \in B : b # c => b[1] # c[1]
    OBVIOUS
  <2> QED
    BY <1>1, <2>1 DEF Apart
<1> QED
  BY <1>1, <1>2, <1>3

LEMMA BootStep ==
  ASSUME NEW k \in 0 .. PageCount - 1, NEW m \in Booted(k)
  PROVE  AddStep([i \in 1 .. PageCount |-> i - 1], k + 1, m) \in Booted(k + 1)
<1> DEFINE F(j) == {b \in Page \X Order : b[1] \in Available /\ b[1] < j /\ b[2] = 0}
           x == <<k, 0>>
<1>1. /\ m \in Maps /\ Lists(m) /\ Counts(m) /\ Free(m) = F(k)
      /\ \A i \in Page : IF i \in Available /\ i < k
                           THEN m.flags[i] = "FREE" /\ m.order[i] = 0
                           ELSE m.flags[i] = "RESERVED"
  BY DEF Booted
<1>2. k \in Nat /\ k \in Page /\ 0 \in Order /\ Page \subseteq Nat /\ k + 1 \in 1 .. PageCount
  BY PmmConstants DEF Page, Order
<1>3. [i \in 1 .. PageCount |-> i - 1][k + 1] = k
  BY <1>2
<1>4. AddStep([i \in 1 .. PageCount |-> i - 1], k + 1, m)
        = IF k \in Available THEN free_list_add(m, get_zone(k), k, 0) ELSE m
  BY <1>3 DEF AddStep
<1>5. \A i \in Page : i < k + 1 <=> i < k \/ i = k
  BY <1>2
<1>6. CASE k \notin Available
  <2>1. F(k + 1) = F(k)
    BY <1>5, <1>6
  <2>2. \A i \in Page : IF i \in Available /\ i < k + 1
                          THEN m.flags[i] = "FREE" /\ m.order[i] = 0
                          ELSE m.flags[i] = "RESERVED"
    BY <1>1, <1>5, <1>6
  <2> QED
    BY <1>1, <1>4, <1>6, <2>1, <2>2 DEF Booted
<1>7. CASE k \in Available
  <2> DEFINE n == free_list_add(m, get_zone(k), k, 0)
  <2>1. x \in Page \X Order /\ x \notin F(k) /\ x[1] = k /\ x[2] = 0
    BY <1>2
  <2>2. F(k + 1) = F(k) \cup {x}
    <3>1. ASSUME NEW b \in Page \X Order PROVE b \in F(k + 1) <=> b \in F(k) \cup {x}
      <4>1. b = <<b[1], b[2]>> /\ b[1] \in Page
        BY Pair
      <4>2. (b[1] = k /\ b[2] = 0) <=> b = x
        BY <4>1
      <4> QED
        BY <1>5, <1>7, <4>1, <4>2
    <3>2. F(k + 1) \subseteq Page \X Order /\ F(k) \cup {x} \subseteq Page \X Order
      BY <2>1
    <3> HIDE DEF F
    <3> QED
      BY <3>1, <3>2
  <2>3. /\ n \in Maps /\ Lists(n) /\ Free(n) = F(k + 1)
        /\ n.flags = [m.flags EXCEPT ![k] = "FREE"] /\ n.order = [m.order EXCEPT ![k] = 0]
        /\ n.free_pages = [m.free_pages EXCEPT ![get_zone(k)] = @ + BlockSize(0)]
    <3>1. <<k, 0>> \notin Free(m)
      BY <1>1, <2>1
    <3>2. m \in Maps /\ Lists(m) /\ k \in Page /\ 0 \in Order
      BY <1>1, <1>2
    <3>3. /\ n \in Maps /\ Lists(n) /\ Free(n) = Free(m) \cup {<<k, 0>>}
          /\ n.flags = [m.flags EXCEPT ![k] = "FREE"] /\ n.order = [m.order EXCEPT ![k] = 0]
          /\ n.free_pages = [m.free_pages EXCEPT ![get_zone(k)] = @ + BlockSize(0)]
      BY ONLY <3>1, <3>2, AddMap
    <3>4. Free(n) = F(k + 1)
      <4> HIDE DEF F, n
      <4> QED
        BY <1>1, <2>2, <3>3
    <3> QED
      BY <3>3, <3>4
  <2>4. Placed(F(k + 1)) /\ Apart(F(k + 1))
    <3>1. \A b \in F(k + 1) : b \in Page \X Order /\ b[1] \in Available /\ b[2] = 0
      OBVIOUS
    <3> HIDE DEF F
    <3> QED
      BY <3>1, SinglePages
  <2> HIDE DEF n, x, F
  <2>5. m.flags \in [Page -> {"FREE", "PRESENT", "RESERVED"}] /\ m.order \in [Page -> Order]
        /\ m.free_pages \in [Zone -> Int]
    BY <1>1 DEF Maps
  <2>6. Counts(n)
    <3> SUFFICES ASSUME NEW z \in Zone
                 PROVE  n.free_pages[z] = Cardinality(Covered(Free(n), z))
      BY DEF Counts
    <3>1. Cardinality(Covered(F(k) \cup {x}, z))
            = Cardinality(Covered(F(k), z)) + (IF get_zone(k) = z THEN BlockSize(0) ELSE 0)
      BY <2>1, <2>2, <2>4, CountOneMore
    <3>2. m.free_pages[z] = Cardinality(Covered(F(k), z)) /\ m.free_pages[z] \in Nat
      BY <1>1, CoveredFinite DEF Counts
    <3>3. n.free_pages[z] = m.free_pages[z] + (IF get_zone(k) = z THEN BlockSize(0) ELSE 0)
      BY <2>3, <2>5, <3>2, BlockSizes
    <3> QED
      BY <2>2, <2>3, <3>1, <3>2, <3>3
  <2>7. \A i \in Page : IF i \in Available /\ i < k + 1
                          THEN n.flags[i] = "FREE" /\ n.order[i] = 0
                          ELSE n.flags[i] = "RESERVED"
    BY <1>1, <1>2, <1>5, <1>7, <2>3, <2>5
  <2>8. Free(n) = {b \in Page \X Order : b[1] \in Available /\ b[1] < k + 1 /\ b[2] = 0}
    BY <2>3 DEF F
  <2>9. n \in Booted(k + 1)
    BY <2>3, <2>6, <2>7, <2>8 DEF Booted
  <2> QED
    BY <1>4, <1>7, <2>9 DEF n
<1> QED
  BY <1>6, <1>7

LEMMA BlankBooted == Blank \in Booted(0)
<1>1. 0 \in Order
  BY PmmConstants DEF Order
<1>2. << >> \in Seq(Page)
  OBVIOUS
<1>3. /\ Blank.flags = [p \in Page |-> "RESERVED"] /\ Blank.order = [p \in Page |-> 0]
      /\ Blank.free_lists = [z \in Zone |-> [o \in Order |-> << >>]]
      /\ Blank.free_pages = [z \in Zone |-> 0]
  BY DEF Blank
<1>4. Blank \in Maps
  BY <1>1, <1>2 DEF Blank, Maps
<1>5. Lists(Blank)
  BY <1>3 DEF Lists, ZoneList, Sizes!Distinct, Sizes!Elements
<1>6. Free(Blank) = {}
  BY <1>3 DEF Free, Contains
<1>7. Counts(Blank)
  <2>1. \A z \in Zone : Covered({}, z) = {}
    BY DEF Covered
  <2>2. Cardinality({}) = 0
    BY FS_EmptySet
  <2> QED
    BY <1>3, <1>6, <2>1, <2>2 DEF Counts
<1>8. \A i \in Page : ~ (i < 0)
  BY PmmConstants DEF Page
<1>9. {b \in Page \X Order : b[1] \in Available /\ b[1] < 0 /\ b[2] = 0} = {}
  BY <1>8
<1>10. \A i \in Page : Blank.flags[i] = "RESERVED"
  BY <1>3
<1> QED
  BY <1>4, <1>5, <1>6, <1>7, <1>8, <1>9, <1>10 DEF Booted

\* pmm_init leaves every available page on its own.
LEMMA BootSound ==
  /\ pmm_init \in Maps /\ Sound(pmm_init, {}, {}) /\ NoBuddies(Free(pmm_init))
  /\ Cover(Free(pmm_init)) = Available
<1> DEFINE list == [i \in 1 .. PageCount |-> i - 1]
           I == [k \in 0 .. PageCount |-> Booted(k)]
           m == pmm_init
           F == Free(m)
<1>1. PageCount \in Nat /\ Page = 0 .. PageCount - 1 /\ Available \subseteq Page
  BY PmmConstants DEF Page, Available
<1>2. Blank \in I[0]
  BY <1>1, BlankBooted
<1>3. ASSUME NEW k \in 0 .. PageCount - 1, NEW c \in I[k]
      PROVE  AddStep(list, k + 1, c) \in I[k + 1]
  <2>1. c \in Booted(k) /\ I[k + 1] = Booted(k + 1)
    BY <1>1
  <2> HIDE DEF I
  <2> QED
    BY <2>1, BootStep
<1>4. Boot!PicksLast(PageCount)
  BY <1>1, Boot!GreatestMember DEF Boot!PicksLast, Max
<1>5. m = Boot!Fold(list, Blank, 1 .. PageCount)
  <2>1. DOMAIN list = 1 .. PageCount
    OBVIOUS
  <2> QED
    BY <2>1, BootIsFold
<1>6. Boot!Fold(list, Blank, 1 .. PageCount) \in I[PageCount]
  <2> HIDE DEF list, I
  <2> QED
    BY <1>1, <1>2, <1>3, <1>4, Boot!FoldSeqInduction
<1>7. m \in Booted(PageCount)
  BY <1>1, <1>5, <1>6
<1> HIDE DEF m
<1>8. \A i \in Page : i < PageCount
  BY <1>1
<1>9. /\ m \in Maps /\ Lists(m) /\ Counts(m)
      /\ F = {b \in Page \X Order : b[1] \in Available /\ b[2] = 0}
      /\ \A i \in Page : IF i \in Available
                           THEN m.flags[i] = "FREE" /\ m.order[i] = 0
                           ELSE m.flags[i] = "RESERVED"
  BY <1>7, <1>8 DEF Booted
<1> HIDE DEF F
<1>10. Placed(F) /\ Apart(F) /\ \A b \in F : Span(b) = {b[1]}
  BY <1>9, SinglePages
<1>11. \A i \in Available : <<i, 0>> \in F /\ i \in Span(<<i, 0>>)
  <2> SUFFICES ASSUME NEW i \in Available PROVE <<i, 0>> \in F /\ i \in Span(<<i, 0>>)
    OBVIOUS
  <2>1. <<i, 0>> \in Page \X Order /\ <<i, 0>>[1] = i /\ <<i, 0>>[2] = 0
    BY <1>1, PmmConstants DEF Order
  <2>2. <<i, 0>> \in F
    BY <1>9, <2>1
  <2> QED
    BY <1>10, <2>1, <2>2
<1>12. Covers(F)
  BY <1>11 DEF Covers
<1>13. F \cup {} \cup {} = F
  OBVIOUS
<1>14. Heads(m, F, "FREE")
  BY <1>1, <1>9 DEF Heads
<1>15. \A i \in Reserved : m.flags[i] = "RESERVED"
  BY <1>9, PmmConstants DEF Available, Page
<1>16. Sound(m, {}, {})
  <2>1. Tiling(F \cup {} \cup {}) /\ Separate(F, {}, {}) /\ Heads(m, {}, "PRESENT")
    BY <1>10, <1>12, <1>13 DEF Tiling, Separate, Heads
  <2> QED
    BY <1>9, <1>14, <1>15, <2>1 DEF Sound, F
<1>17. NoBuddies(F)
  <2>1. \A b \in F : b[2] \notin 1 .. PMM_MAX_ORDER - 1
    BY <1>9, PmmConstants
  <2> QED
    BY <2>1 DEF NoBuddies
<1>18. Cover(F) = Available
  BY <1>1, <1>10, <1>11 DEF Cover, Placed
<1> QED
  BY <1>9, <1>16, <1>17, <1>18 DEF m, F

LEMMA PmmInit == Init => PmmInv
<1> SUFFICES ASSUME Init PROVE PmmInv
  OBVIOUS
<1>1. pmm_init = [flags |-> pmm_init.flags, order |-> pmm_init.order,
                  free_lists |-> pmm_init.free_lists, free_pages |-> pmm_init.free_pages]
  BY BootSound DEF Maps
<1>2. Memory = pmm_init
  BY <1>1 DEF Init, Memory
<1>3. free_memory = Cardinality(Available) /\ held = {}
  BY DEF Init
<1>4. FreeBlocks = Free(pmm_init)
  BY <1>2, FreeNow
<1> QED
  BY <1>2, <1>3, <1>4, BootSound DEF PmmInv

LEMMA PmmNext ==
  ASSUME PmmInv, [Next]_vars
  PROVE  PmmInv'
<1>1. CASE UNCHANGED vars
  BY <1>1 DEF vars, PmmInv, Memory, FreeBlocks, Sound, Lists, Counts, Free, Heads
<1>2. CASE Next
  BY <1>2, AllocKeeps, FreeKeeps DEF Next
<1> QED
  BY <1>1, <1>2

\* The heads of the lists, the tiling and the counters are what the properties
\* say of them.
LEMMA PmmInvGives == PmmInv => BuddyInv /\ NoFreeBuddies
<1> SUFFICES ASSUME PmmInv PROVE BuddyInv /\ NoFreeBuddies
  OBVIOUS
<1> DEFINE F == FreeBlocks
<1>1. /\ Memory \in Maps /\ Lists(Memory) /\ Counts(Memory) /\ Separate(F, held, {})
      /\ Tiling(F \cup held \cup {}) /\ Heads(Memory, F, "FREE") /\ Heads(Memory, held, "PRESENT")
  BY FreeNow DEF PmmInv, Sound
<1>2. F \cup held \cup {} = Blocks
  BY DEF Blocks
<1>3. Tiling(Blocks)
  BY <1>1, <1>2
<1>4. /\ Memory.flags = page_flags /\ Memory.order = order
      /\ Memory.free_lists = free_lists /\ Memory.free_pages = free_pages
  BY DEF Memory
<1>5. /\ page_flags \in [Page -> {"FREE", "PRESENT", "RESERVED"}] /\ order \in [Page -> Order]
      /\ free_lists \in [Zone -> [Order -> Seq(Page)]] /\ free_pages \in [Zone -> Int]
  BY <1>1, <1>4 DEF Maps
<1>6. \A z \in Zone : free_pages[z] = Cardinality(Covered(F, z))
  BY <1>1, <1>4, FreeNow DEF Counts
<1>7. PageCount \in Nat
  BY PmmConstants
<1>8. TypeOK
  <2>1. \A z \in Zone : \A o \in Order :
          \A i \in DOMAIN free_lists[z][o] : get_zone(free_lists[z][o][i]) = z
    BY <1>1, <1>4 DEF Lists, ZoneList, Sizes!Elements
  <2>2. \A z \in Zone : free_pages[z] \in 0 .. PageCount
    BY <1>6, <1>7, CoveredFinite
  <2>3. free_memory \in 0 .. PageCount
    BY <1>7, CoverFinite DEF PmmInv
  <2>4. held \subseteq Page \X Order
    BY <1>3 DEF Tiling, Placed, Blocks
  <2> QED
    BY <1>5, <2>1, <2>2, <2>3, <2>4 DEF TypeOK
<1>9. Partition
  <2>1. UNION {Span(b) : b \in Blocks} = Available
    BY <1>3 DEF Tiling, Placed, Covers
  <2> QED
    BY <1>1, <1>3, <2>1 DEF Partition, Tiling, Apart, Span, Separate
<1>10. Aligned
  <2> SUFFICES ASSUME NEW b \in Blocks PROVE b[1] % BlockSize(b[2]) = 0
    BY DEF Aligned
  <2>1. b[1] \in Nat /\ b[2] \in Nat /\ Multiple(b[1], BlockSize(b[2]))
    BY <1>3 DEF Tiling, Placed, AlignedAt
  <2> QED
    BY <2>1, Divides, BlockSizes
<1>11. HeadsExact
  BY <1>1, <1>4 DEF HeadsExact, Heads
<1>12. Placed(F) /\ Apart(F)
  BY <1>3 DEF Tiling, Placed, Apart, Blocks
<1>13. CountsAgree
  <2>1. ASSUME NEW z \in Zone PROVE free_pages[z] = PagesIn(z)
    <3>1. PagesIn(z) = Sizes!Fold(0, 0, {b \in F : get_zone(b[1]) = z})
      BY DEF PagesIn, FoldSet, MapThenFoldSet, Sizes!Fold, SizeStep, AnyBlock
    <3> QED
      BY <1>6, <1>12, <3>1, FoldCounts
  <2>2. free_memory = Cardinality(Cover(F))
    BY DEF PmmInv
  <2>3. "DMA" \in Zone /\ "NORMAL" \in Zone /\ "HIGH" \in Zone
    BY DEF Zone
  <2>4. free_memory = free_pages["DMA"] + free_pages["NORMAL"] + free_pages["HIGH"]
    BY <1>6, <1>12, <2>2, <2>3, ThreeZones
  <2> QED
    BY <2>1, <2>4 DEF CountsAgree
<1>14. NoFreeBuddies
  BY DEF PmmInv, NoBuddies, NoFreeBuddies
<1> QED
  BY <1>8, <1>9, <1>10, <1>11, <1>13, <1>14 DEF BuddyInv

\* PmmInv is an invariant of the allocator (pmm_init, pmm_alloc_pages,
\* pmm_free_pages).
THEOREM PmmInvariant == Spec => []PmmInv
  BY PmmInit, PmmNext, PTL DEF Spec

\* Whatever the size of the memory, its holes and the orders: the free blocks and
\* the blocks in use partition the available memory, every block is aligned and
\* described by its first page, and both counts of free memory are exact
\* (pmm_alloc_pages, pmm_free_pages).
THEOREM MemoryIsPartitioned == Spec => []BuddyInv
  BY PmmInvariant, PmmInvGives, PTL

\* Released memory is merged as far as it can be (coalesce_buddies).
THEOREM BuddiesAreMerged == Spec => []NoFreeBuddies
  BY PmmInvariant, PmmInvGives, PTL
-----------------------------------------------------------------------------
(* Heap: the free list as a set L of addresses, linked in their order. *)

Heaps == [header : [Address -> Header \cup {Nil}], first : Address \cup {Nil}]

Follows(L, b, n) ==
    IF n = Nil THEN \A c \in L : c <= b
    ELSE n \in L /\ b < n /\ \A c \in L : b < c => n <= c
Precedes(L, b, p) ==
    IF p = Nil THEN \A c \in L : b <= c
    ELSE p \in L /\ p < b /\ \A c \in L : c < b => c <= p
Leads(L, f) ==
    IF f = Nil THEN L = {} ELSE f \in L /\ \A c \in L : f <= c

Chain(h, L) ==
    /\ L \subseteq Address
    /\ Leads(L, h.first)
    /\ \A b \in L : h.header[b] \in Header /\ h.header[b].free
    /\ \A b \in L : Follows(L, b, h.header[b].next)
    /\ \A b \in L : Precedes(L, b, h.header[b].prev)

\* The headers of q are those of h but for the links and flags of the blocks B.
SameSizes(q, h, B) ==
    /\ \A a \in B : q.header[a].size = h.header[a].size
    /\ \A a \in Address \ B : q.header[a] = h.header[a]

WithNext(r, n) == [r EXCEPT !.next = n]
WithPrev(r, p) == [r EXCEPT !.prev = p]

LEMMA Addresses == Address \subseteq Nat /\ Nil \notin Address /\ MIN_BLOCK_SIZE \in Nat
                     /\ MIN_BLOCK_SIZE > 1 /\ Top \in Nat /\ \A a \in Address : a < Top
  BY HeapConstants DEF Address, MIN_BLOCK_SIZE

LEMMA SetPrevIs ==
  ASSUME NEW h \in Heaps, NEW b \in Address \cup {Nil}, NEW p \in Address \cup {Nil},
         b # Nil => h.header[b] \in Header
  PROVE  /\ SetPrev(h, b, p) \in Heaps
         /\ SetPrev(h, b, p).first = h.first
         /\ \A a \in Address : SetPrev(h, b, p).header[a] =
              IF a = b THEN WithPrev(h.header[a], p) ELSE h.header[a]
         /\ b # Nil => WithPrev(h.header[b], p) \in Header
<1>1. b # Nil => WithPrev(h.header[b], p) \in Header
  BY DEF Header, WithNext, WithPrev
<1>2. CASE b = Nil
  BY <1>2, Addresses DEF SetPrev
<1>3. CASE b # Nil
  <2>1. b \in Address
    BY <1>3
  <2>2. SetPrev(h, b, p) = [h EXCEPT !.header[b].prev = p]
    BY <1>3 DEF SetPrev
  <2> QED
    BY <1>1, <2>1, <2>2, <1>3 DEF Heaps, WithNext, WithPrev
<1> QED
  BY <1>1, <1>2, <1>3

LEMMA SetNextIs ==
  ASSUME NEW h \in Heaps, NEW b \in Address \cup {Nil}, NEW n \in Address \cup {Nil},
         b # Nil => h.header[b] \in Header
  PROVE  /\ SetNext(h, b, n) \in Heaps
         /\ SetNext(h, b, n).first = IF b = Nil THEN n ELSE h.first
         /\ \A a \in Address : SetNext(h, b, n).header[a] =
              IF a = b THEN WithNext(h.header[a], n) ELSE h.header[a]
         /\ b # Nil => WithNext(h.header[b], n) \in Header
<1>1. b # Nil => WithNext(h.header[b], n) \in Header
  BY DEF Header, WithNext, WithPrev
<1>2. CASE b = Nil
  BY <1>2, Addresses DEF SetNext, Heaps
<1>3. CASE b # Nil
  <2>1. b \in Address
    BY <1>3
  <2>2. SetNext(h, b, n) = [h EXCEPT !.header[b].next = n]
    BY <1>3 DEF SetNext
  <2> QED
    BY <1>1, <2>1, <2>2, <1>3 DEF Heaps, WithNext, WithPrev
<1> QED
  BY <1>1, <1>2, <1>3

\* The members of a header, and of one that was changed.
LEMMA Fields ==
  ASSUME NEW r \in Header, NEW x \in Address \cup {Nil}
  PROVE  /\ r.size \in Nat /\ r.free \in BOOLEAN
         /\ r.next \in Address \cup {Nil} /\ r.prev \in Address \cup {Nil}
         /\ WithNext(r, x).next = x /\ WithNext(r, x).prev = r.prev
         /\ WithNext(r, x).size = r.size /\ WithNext(r, x).free = r.free
         /\ WithPrev(r, x).prev = x /\ WithPrev(r, x).next = r.next
         /\ WithPrev(r, x).size = r.size /\ WithPrev(r, x).free = r.free
         /\ WithNext(r, x) \in Header /\ WithPrev(r, x) \in Header
  BY DEF Header, WithNext, WithPrev

\* A block between p and n.
LEMMA LinkChain ==
  ASSUME NEW h \in Heaps, NEW L, Chain(h, L), NEW b \in Address, b \notin L,
         h.header[b] \in Header, NEW p, Precedes(L, b, p)
  PROVE  /\ Link(h, p, b) \in Heaps
         /\ Chain(Link(h, p, b), L \cup {b})
         /\ SameSizes(Link(h, p, b), h, L \cup {b})
<1> DEFINE n == IF p = Nil THEN h.first ELSE h.header[p].next
           r == [h.header[b] EXCEPT !.free = TRUE, !.next = n, !.prev = p]
           h1 == [h EXCEPT !.header[b] = r]
           h2 == SetNext(h1, p, b)
           q == SetPrev(h2, n, b)
<1>1. Link(h, p, b) = q
  BY DEF Link
<1>2. L \subseteq Address /\ p \in Address \cup {Nil} /\ n \in Address \cup {Nil} /\ p # b
  <2>1. L \subseteq Address /\ (p # Nil => p \in L)
    BY DEF Chain, Precedes
  <2>2. h.first \in Address \cup {Nil}
    BY DEF Heaps
  <2>3. p # Nil => h.header[p] \in Header
    BY <2>1 DEF Chain
  <2>4. p # Nil => h.header[p].next \in Address \cup {Nil}
    BY <2>3 DEF Header
  <2>5. p # b
    BY <2>1, Addresses
  <2> QED
    BY <2>1, <2>2, <2>4, <2>5
<1>3. /\ p # Nil => p \in L /\ h.header[p] \in Header /\ p < b
      /\ n # Nil => n \in L /\ h.header[n] \in Header
      /\ n = Nil => \A c \in L : c < b
      /\ n # Nil => b < n /\ \A c \in L : b < c => n <= c
  <2>1. CASE p = Nil
    <3>1. n = h.first /\ Leads(L, n) /\ \A c \in L : b <= c
      BY <2>1 DEF Chain, Precedes
    <3> HIDE DEF n
    <3>2. n = Nil => L = {}
      BY <3>1 DEF Leads
    <3>3. n # Nil => n \in L /\ \A c \in L : n <= c
      BY <3>1 DEF Leads
    <3>4. \A c \in L : c \in Nat /\ c # b /\ h.header[c] \in Header
      BY Addresses DEF Chain
    <3>5. b \in Nat
      BY Addresses
    <3>6. n # Nil => n \in L /\ h.header[n] \in Header
      BY <3>3, <3>4
    <3>7. n # Nil => b < n
      BY <3>1, <3>3, <3>4, <3>5
    <3> QED
      BY <2>1, <3>2, <3>3, <3>6, <3>7
  <2>2. CASE p # Nil
    <3>1. n = h.header[p].next /\ p \in L /\ p < b /\ \A c \in L : c < b => c <= p
      BY <2>2 DEF Precedes
    <3>2. Follows(L, p, n) /\ h.header[p] \in Header
      BY <3>1 DEF Chain
    <3>3. \A c \in L : c \in Nat /\ c # b
      BY Addresses DEF Chain
    <3>4. b \in Nat /\ p \in Nat
      BY <3>1, <3>3, Addresses
    <3>5. n = Nil => \A c \in L : c < b
      BY <3>1, <3>2, <3>3, <3>4 DEF Follows
    <3>6. n # Nil => n \in L /\ p < n /\ \A c \in L : p < c => n <= c
      BY <3>2 DEF Follows
    <3>7. n # Nil => b < n
      <4> SUFFICES ASSUME n # Nil, ~(b < n) PROVE FALSE
        OBVIOUS
      <4>1. n \in L /\ p < n /\ n \in Nat /\ n # b
        BY <3>3, <3>6
      <4>2. n <= p
        BY <3>1, <3>4, <4>1
      <4> QED
        BY <3>4, <4>1, <4>2
    <3>8. \A c \in L : b < c => p < c
      BY <3>1, <3>3, <3>4
    <3> QED
      BY <3>1, <3>2, <3>5, <3>6, <3>7, <3>8 DEF Chain
  <2> QED
    BY <2>1, <2>2
<1>0. n # b
  BY <1>3, Addresses
<1> HIDE DEF n
<1>4. r \in Header /\ r.size = h.header[b].size /\ r.free = TRUE /\ r.next = n /\ r.prev = p
  BY <1>2 DEF Header
<1> HIDE DEF r
<1>5. h1 \in Heaps /\ h1.first = h.first /\ \A a \in Address : h1.header[a] = IF a = b THEN r ELSE h.header[a]
  BY <1>4 DEF Heaps
<1> HIDE DEF h1
<1>6. p # Nil => p \in Address /\ h1.header[p] = h.header[p] /\ h1.header[p] \in Header
  BY <1>2, <1>3, <1>5
<1>7. /\ h2 \in Heaps
      /\ h2.first = IF p = Nil THEN b ELSE h1.first
      /\ \A a \in Address : h2.header[a] = IF a = p THEN WithNext(h1.header[a], b) ELSE h1.header[a]
  <2>1. b \in Address \cup {Nil}
    OBVIOUS
  <2>2. p \in Address \cup {Nil}
    BY <1>2
  <2>3. h1 \in Heaps
    BY <1>5
  <2>4. p # Nil => h1.header[p] \in Header
    BY <1>6
  <2> QED
    BY ONLY <2>1, <2>2, <2>3, <2>4, SetNextIs
<1> HIDE DEF h2
<1>8. n # p \/ n = Nil
  <2>1. n # Nil /\ p # Nil => p < b /\ b < n /\ p \in Nat /\ n \in Nat /\ b \in Nat
    BY <1>2, <1>3, Addresses
  <2> QED
    BY <2>1
<1>9. n # Nil => n \in Address /\ h2.header[n] = h.header[n] /\ h2.header[n] \in Header
  BY <1>2, <1>3, <1>5, <1>7, <1>8
<1>10. /\ q \in Heaps
       /\ q.first = IF p = Nil THEN b ELSE h.first
       /\ \A a \in Address : q.header[a] = IF a = n THEN WithPrev(h2.header[a], b) ELSE h2.header[a]
  <2>1. b \in Address \cup {Nil}
    OBVIOUS
  <2>2. /\ q \in Heaps
        /\ q.first = h2.first
        /\ \A a \in Address : q.header[a] = IF a = n THEN WithPrev(h2.header[a], b) ELSE h2.header[a]
    <3>1. n \in Address \cup {Nil} /\ h2 \in Heaps
      BY <1>2, <1>7
    <3>2. n # Nil => h2.header[n] \in Header
      BY <1>9
    <3> QED
      BY ONLY <2>1, <3>1, <3>2, SetPrevIs
  <2> QED
    BY <2>2, <1>5, <1>7
<1>11. \A a \in Address : q.header[a] = IF a = b THEN r
                                        ELSE IF a = p THEN WithNext(h.header[a], b)
                                        ELSE IF a = n THEN WithPrev(h.header[a], b)
                                        ELSE h.header[a]
  <2> SUFFICES ASSUME NEW a \in Address
               PROVE  q.header[a] = IF a = b THEN r
                                    ELSE IF a = p THEN WithNext(h.header[a], b)
                                    ELSE IF a = n THEN WithPrev(h.header[a], b)
                                    ELSE h.header[a]
    OBVIOUS
  <2>1. a # Nil
    BY Addresses
  <2>2. CASE a = b
    BY <2>2, <1>0, <1>2, <1>5, <1>7, <1>10
  <2>3. CASE a # b /\ a = p
    BY <2>1, <2>3, <1>5, <1>7, <1>8, <1>10
  <2>4. CASE a # b /\ a # p
    BY <2>4, <1>5, <1>7, <1>10
  <2> QED
    BY <2>2, <2>3, <2>4
<1> HIDE DEF q
<1>12. \A c \in L : c \in Address /\ h.header[c] \in Header /\ h.header[c].free = TRUE /\ c # b /\ c \in Nat
  BY Addresses, Fields DEF Chain
<1>13. \A c \in L : /\ q.header[c] \in Header /\ q.header[c].free = TRUE
                    /\ q.header[c].size = h.header[c].size
                    /\ q.header[c].next = IF c = p THEN b ELSE h.header[c].next
                    /\ q.header[c].prev = IF c = n THEN b ELSE h.header[c].prev
  <2> SUFFICES ASSUME NEW c \in L
               PROVE  /\ q.header[c] \in Header /\ q.header[c].free = TRUE
                      /\ q.header[c].size = h.header[c].size
                      /\ q.header[c].next = IF c = p THEN b ELSE h.header[c].next
                      /\ q.header[c].prev = IF c = n THEN b ELSE h.header[c].prev
    OBVIOUS
  <2>1. c \in Address /\ c # b /\ c # Nil /\ h.header[c] \in Header /\ h.header[c].free = TRUE
    BY <1>12, Addresses
  <2>5. b \in Address \cup {Nil}
    OBVIOUS
  <2>2. CASE c = p
    <3>1. q.header[c] = WithNext(h.header[c], b) /\ c # n
      BY <2>1, <2>2, <1>8, <1>11
    <3>2. /\ WithNext(h.header[c], b) \in Header
          /\ WithNext(h.header[c], b).next = b
          /\ WithNext(h.header[c], b).prev = h.header[c].prev
          /\ WithNext(h.header[c], b).size = h.header[c].size
          /\ WithNext(h.header[c], b).free = h.header[c].free
      BY ONLY <2>1, <2>5, Fields, Zenon
    <3> QED
      BY <3>1, <3>2, <2>1, <2>2, Zenon
  <2>3. CASE c # p /\ c = n
    <3>1. q.header[c] = WithPrev(h.header[c], b)
      BY <2>1, <2>3, <1>11
    <3>2. /\ WithPrev(h.header[c], b) \in Header
          /\ WithPrev(h.header[c], b).prev = b
          /\ WithPrev(h.header[c], b).next = h.header[c].next
          /\ WithPrev(h.header[c], b).size = h.header[c].size
          /\ WithPrev(h.header[c], b).free = h.header[c].free
      BY ONLY <2>1, <2>5, Fields, Zenon
    <3> QED
      BY <3>1, <3>2, <2>1, <2>3, Zenon
  <2>4. CASE c # p /\ c # n
    BY <2>1, <2>4, <1>11
  <2> QED
    BY <2>2, <2>3, <2>4
<1>14. q.header[b] = r
  BY <1>11
<1>15. SameSizes(q, h, L \cup {b})
  <2>1. \A a \in L \cup {b} : q.header[a].size = h.header[a].size
    BY <1>4, <1>13, <1>14
  <2>2. \A a \in Address \ (L \cup {b}) : q.header[a] = h.header[a]
    BY <1>3, <1>11, Addresses
  <2> QED
    BY <2>1, <2>2 DEF SameSizes
<1>16. Leads(L \cup {b}, q.first)
  <2>1. CASE p = Nil
    BY <2>1, <1>10, <1>12, Addresses DEF Leads, Precedes
  <2>2. CASE p # Nil
    <3>1. h.first \in L /\ \A c \in L : h.first <= c
      BY <1>3, <2>2, Addresses DEF Chain, Leads
    <3>2. h.first <= p /\ p < b /\ h.first \in Nat /\ p \in Nat /\ b \in Nat
      BY <3>1, <1>3, <1>12, <2>2, Addresses
    <3> QED
      BY <2>2, <1>10, <1>12, <3>1, <3>2, Addresses DEF Leads
  <2> QED
    BY <2>1, <2>2
<1>17. ASSUME NEW c \in L \cup {b} PROVE Follows(L \cup {b}, c, q.header[c].next)
  <2>1. CASE c = b
    BY <2>1, <1>3, <1>4, <1>12, <1>14, Addresses DEF Follows
  <2>2. CASE c # b /\ c = p
    <3>1. \A d \in L : d < b => d <= p
      BY <2>2, <1>2, Addresses DEF Precedes
    <3> QED
      BY <2>2, <3>1, <1>3, <1>12, <1>13, Addresses DEF Follows
  <2>3. CASE c # b /\ c # p
    <3>1. c \in L /\ q.header[c].next = h.header[c].next /\ Follows(L, c, h.header[c].next)
      BY <2>3, <1>13 DEF Chain
    <3>2. c < b => p # Nil /\ c < p
      <4> HAVE c < b
      <4>1. p # Nil
        BY <3>1, <1>12, Addresses DEF Precedes
      <4>2. c <= p
        BY <4>1, <3>1, <1>12 DEF Precedes
      <4> QED
        BY <4>1, <4>2, <2>3, <3>1, <1>3, <1>12
    <3>3. CASE h.header[c].next = Nil
      <4>1. \A d \in L : d <= c
        BY <3>1, <3>3 DEF Follows
      <4>2. ~(c < b)
        BY <3>1, <3>2, <4>1, <1>3, <1>12
      <4> QED
        BY <3>1, <3>3, <4>1, <4>2, <1>12, Addresses DEF Follows
    <3>4. CASE h.header[c].next # Nil
      <4> DEFINE m == h.header[c].next
      <4>1. m \in L /\ c < m /\ \A d \in L : c < d => m <= d
        BY <3>1, <3>4 DEF Follows
      <4>2. c < b => m <= b
        BY <3>1, <3>2, <4>1, <1>3, <1>12, Addresses
      <4> QED
        BY <3>1, <3>4, <4>1, <4>2 DEF Follows
    <3> QED
      BY <3>3, <3>4
  <2> QED
    BY <2>1, <2>2, <2>3
<1>18. ASSUME NEW c \in L \cup {b} PROVE Precedes(L \cup {b}, c, q.header[c].prev)
  <2>1. CASE c = b
    <3>1. q.header[c].prev = p
      BY <2>1, <1>4, <1>14
    <3> QED
      BY <2>1, <3>1, <1>12, Addresses DEF Precedes
  <2>2. CASE c # b /\ c = n
    BY <2>2, <1>3, <1>12, <1>13, Addresses DEF Precedes
  <2>3. CASE c # b /\ c # n
    <3>1. c \in L /\ q.header[c].prev = h.header[c].prev /\ Precedes(L, c, h.header[c].prev)
      BY <2>3, <1>13 DEF Chain
    <3>2. b < c => n # Nil /\ n < c
      BY <2>3, <3>1, <1>3, <1>12, Addresses
    <3>3. CASE h.header[c].prev = Nil
      <4>1. \A d \in L : c <= d
        BY <3>1, <3>3 DEF Precedes
      <4>2. ~(b < c)
        BY <3>1, <3>2, <4>1, <1>3, <1>12
      <4> QED
        BY <3>1, <3>3, <4>1, <4>2, <1>12, Addresses DEF Precedes
    <3>4. CASE h.header[c].prev # Nil
      <4> DEFINE m == h.header[c].prev
      <4>1. m \in L /\ m < c /\ \A d \in L : d < c => d <= m
        BY <3>1, <3>4 DEF Precedes
      <4>2. b < c => b <= m
        BY <3>1, <3>2, <4>1, <1>3, <1>12, Addresses
      <4> QED
        BY <3>1, <3>4, <4>1, <4>2 DEF Precedes
    <3> QED
      BY <3>3, <3>4
  <2> QED
    BY <2>1, <2>2, <2>3
<1>19. Chain(q, L \cup {b})
  <2>1. \A c \in L \cup {b} : q.header[c] \in Header /\ q.header[c].free
    BY <1>4, <1>13, <1>14
  <2> QED
    BY <1>2, <1>16, <1>17, <1>18, <2>1 DEF Chain
<1> QED
  BY <1>1, <1>10, <1>15, <1>19

\* What the links of a block of the list say.
LEMMA Neighbours ==
  ASSUME NEW h \in Heaps, NEW L, Chain(h, L), NEW b \in L
  PROVE  /\ b \in Address /\ h.header[b] \in Header /\ h.header[b].free = TRUE
         /\ h.header[b].next \in L \cup {Nil} /\ h.header[b].prev \in L \cup {Nil}
         /\ h.header[b].next \in Address \cup {Nil} /\ h.header[b].prev \in Address \cup {Nil}
         /\ h.header[b].next # b /\ h.header[b].prev # b
         /\ h.header[b].next # h.header[b].prev \/ h.header[b].next = Nil
         /\ h.header[b].next # Nil => b < h.header[b].next
         /\ h.header[b].prev # Nil => h.header[b].prev < b
         /\ \A c \in L : c < b => h.header[b].prev # Nil /\ c <= h.header[b].prev
         /\ \A c \in L : b < c => h.header[b].next # Nil /\ h.header[b].next <= c
<1> DEFINE n == h.header[b].next
           p == h.header[b].prev
<1>1. b \in Address /\ L \subseteq Address /\ \A c \in L : c \in Nat
  BY Addresses DEF Chain
<1>2. h.header[b] \in Header /\ h.header[b].free = TRUE
  <2>1. h.header[b] \in Header /\ h.header[b].free
    BY DEF Chain
  <2> QED
    BY <2>1 DEF Header
<1>3. Follows(L, b, n) /\ Precedes(L, b, p)
  BY DEF Chain
<1> HIDE DEF n, p
<1>4. n # Nil => n \in L /\ b < n
  BY <1>3 DEF Follows
<1>5. p # Nil => p \in L /\ p < b
  BY <1>3 DEF Precedes
<1>6. n # b /\ p # b
  BY <1>1, <1>4, <1>5, Addresses
<1>7. n # p \/ n = Nil
  BY <1>1, <1>4, <1>5
<1>8. \A c \in L : c < b => p # Nil /\ c <= p
  BY <1>1, <1>3 DEF Precedes
<1>9. \A c \in L : b < c => n # Nil /\ n <= c
  BY <1>1, <1>3 DEF Follows
<1>10. n \in L \cup {Nil} /\ p \in L \cup {Nil} /\ n \in Address \cup {Nil} /\ p \in Address \cup {Nil}
  BY <1>1, <1>4, <1>5
<1> QED
  BY <1>1, <1>2, <1>4, <1>5, <1>6, <1>7, <1>8, <1>9, <1>10 DEF n, p

\* The links in the other direction.
LEMMA LinksAgree ==
  ASSUME NEW h \in Heaps, NEW L, Chain(h, L), NEW b \in L, NEW c \in L
  PROVE  h.header[b].next = c <=> h.header[c].prev = b
<1> DEFINE n == h.header[b].next
           p == h.header[c].prev
<1>1. /\ b \in Nat /\ c \in Nat /\ b # Nil /\ c # Nil
      /\ \A x \in L : x \in Nat
  BY Addresses DEF Chain
<1>2. /\ n \in L \cup {Nil}
      /\ n # Nil => b < n
      /\ \A x \in L : b < x => n # Nil /\ n <= x
  BY Neighbours, Zenon
<1>3. /\ p \in L \cup {Nil}
      /\ p # Nil => p < c
      /\ \A x \in L : x < c => p # Nil /\ x <= p
  BY Neighbours, Zenon
<1> HIDE DEF n, p
<1>4. ASSUME n = c PROVE p = b
  <2>1. b < c /\ p # Nil /\ b <= p /\ p \in L /\ p < c
    BY <1>1, <1>2, <1>3, <1>4
  <2>2. ~(b < p)
    BY <1>1, <1>2, <1>4, <2>1
  <2> QED
    BY <1>1, <2>1, <2>2
<1>5. ASSUME p = b PROVE n = c
  <2>1. b < c /\ n # Nil /\ n <= c /\ n \in L /\ b < n
    BY <1>1, <1>2, <1>3, <1>5
  <2>2. ~(n < c)
    BY <1>1, <1>3, <1>5, <2>1
  <2> QED
    BY <1>1, <2>1, <2>2
<1> QED
  BY <1>4, <1>5 DEF n, p

\* The blocks around b linked to each other.
Around(h, b) ==
    LET n == h.header[b].next
        p == h.header[b].prev
    IN  SetPrev(SetNext(h, p, n), n, p)

LEMMA AroundIs ==
  ASSUME NEW h \in Heaps, NEW L, Chain(h, L), NEW b \in L
  PROVE  /\ Around(h, b) \in Heaps
         /\ Around(h, b).first = IF h.header[b].prev = Nil THEN h.header[b].next ELSE h.first
         /\ \A a \in Address :
              Around(h, b).header[a] =
                IF a = h.header[b].prev THEN WithNext(h.header[a], h.header[b].next)
                ELSE IF a = h.header[b].next THEN WithPrev(h.header[a], h.header[b].prev)
                ELSE h.header[a]
<1> DEFINE n == h.header[b].next
           p == h.header[b].prev
           h1 == SetNext(h, p, n)
           q == SetPrev(h1, n, p)
<1>1. n \in Address \cup {Nil} /\ p \in Address \cup {Nil} /\ (n # p \/ n = Nil)
  BY Neighbours, Zenon
<1>2. (n # Nil => h.header[n] \in Header) /\ (p # Nil => h.header[p] \in Header)
  <2>1. n \in L \cup {Nil} /\ p \in L \cup {Nil}
    BY Neighbours, Zenon
  <2> QED
    BY <2>1 DEF Chain
<1> HIDE DEF n, p
<1>3. /\ h1 \in Heaps
      /\ h1.first = IF p = Nil THEN n ELSE h.first
      /\ \A a \in Address : h1.header[a] = IF a = p THEN WithNext(h.header[a], n) ELSE h.header[a]
  BY ONLY h \in Heaps, <1>1, <1>2, SetNextIs
<1> HIDE DEF h1
<1>4. n # Nil => h1.header[n] \in Header
  BY <1>1, <1>2, <1>3
<1>5. /\ q \in Heaps
      /\ q.first = h1.first
      /\ \A a \in Address : q.header[a] = IF a = n THEN WithPrev(h1.header[a], p) ELSE h1.header[a]
  <2>1. h1 \in Heaps /\ n \in Address \cup {Nil} /\ p \in Address \cup {Nil}
    BY <1>1, <1>3
  <2> QED
    BY ONLY <2>1, <1>4, SetPrevIs
<1>6. Around(h, b) = q
  BY DEF Around, n, p, h1
<1> HIDE DEF q
<1>7. ASSUME NEW a \in Address
      PROVE  q.header[a] = IF a = p THEN WithNext(h.header[a], n)
                           ELSE IF a = n THEN WithPrev(h.header[a], p) ELSE h.header[a]
  <2>1. a # Nil
    BY Addresses
  <2>2. CASE a = p
    BY <2>1, <2>2, <1>1, <1>3, <1>5
  <2>3. CASE a # p
    BY <2>1, <2>3, <1>1, <1>3, <1>5
  <2> QED
    BY <2>2, <2>3
<1>8. q.first = IF p = Nil THEN n ELSE h.first
  BY <1>3, <1>5
<1> QED
  BY <1>5, <1>6, <1>7, <1>8 DEF n, p

\* A heap in which the blocks other than b are linked around b.
LEMMA AroundChain ==
  ASSUME NEW h \in Heaps, NEW L, Chain(h, L), NEW b \in L, NEW q \in Heaps,
         q.first = Around(h, b).first,
         \A a \in L \ {b} : /\ q.header[a] \in Header /\ q.header[a].free = TRUE
                            /\ q.header[a].next = Around(h, b).header[a].next
                            /\ q.header[a].prev = Around(h, b).header[a].prev
  PROVE  Chain(q, L \ {b})
<1> DEFINE n == h.header[b].next
           p == h.header[b].prev
           K == L \ {b}
<1>1. /\ n \in L \cup {Nil} /\ p \in L \cup {Nil} /\ n # b /\ p # b
      /\ (n # p \/ n = Nil)
      /\ n # Nil => b < n
      /\ p # Nil => p < b
      /\ \A c \in L : c < b => p # Nil /\ c <= p
      /\ \A c \in L : b < c => n # Nil /\ n <= c
  BY Neighbours, Zenon
<1>2. L \subseteq Address /\ b \in Nat /\ b # Nil /\ \A c \in L : c \in Nat /\ c # Nil
  BY Addresses DEF Chain
<1>3. n \in K \cup {Nil} /\ p \in K \cup {Nil}
  BY <1>1
<1>4. n \in Address \cup {Nil} /\ p \in Address \cup {Nil}
  BY <1>1, <1>2
<1>5. ASSUME NEW c \in K
      PROVE  /\ q.header[c].next = IF c = p THEN n ELSE h.header[c].next
             /\ q.header[c].prev = IF c = n THEN p ELSE h.header[c].prev
  <2>1. c \in Address /\ c \in L /\ h.header[c] \in Header
    BY <1>2 DEF Chain
  <2>2. Around(h, b).header[c] =
                IF c = p THEN WithNext(h.header[c], n)
                ELSE IF c = n THEN WithPrev(h.header[c], p)
                ELSE h.header[c]
    BY ONLY <2>1, AroundIs, h \in Heaps, Chain(h, L), b \in L
  <2>3. /\ WithNext(h.header[c], n).next = n /\ WithNext(h.header[c], n).prev = h.header[c].prev
        /\ WithPrev(h.header[c], p).prev = p /\ WithPrev(h.header[c], p).next = h.header[c].next
    <3>1. \A r \in Header, x \in Address \cup {Nil} :
            /\ WithNext(r, x).next = x /\ WithNext(r, x).prev = r.prev
            /\ WithPrev(r, x).prev = x /\ WithPrev(r, x).next = r.next
      BY DEF Header, WithNext, WithPrev
    <3> HIDE DEF n, p
    <3> QED
      BY ONLY <1>4, <2>1, <3>1, Zenon
  <2>4. /\ q.header[c].next = Around(h, b).header[c].next
        /\ q.header[c].prev = Around(h, b).header[c].prev
    OBVIOUS
  <2>5. c = p => c # n
    BY <1>1, <1>2, <2>1
  <2> HIDE DEF n, p
  <2>6. CASE c = p
    BY <2>2, <2>3, <2>4, <2>5, <2>6, Zenon
  <2>7. CASE c # p /\ c = n
    BY <2>2, <2>3, <2>4, <2>7, Zenon
  <2>8. CASE c # p /\ c # n
    BY <2>2, <2>4, <2>8, Zenon
  <2> QED
    BY <2>6, <2>7, <2>8
<1>6. q.first = IF p = Nil THEN n ELSE h.first
  BY AroundIs
<1>7. ASSUME NEW c \in K
      PROVE  /\ Follows(L, c, h.header[c].next) /\ Precedes(L, c, h.header[c].prev)
             /\ h.header[c].next = b <=> c = p
             /\ h.header[c].prev = b <=> c = n
  <2>1. c \in L
    OBVIOUS
  <2>2. h.header[c].next = b <=> h.header[b].prev = c
    BY <2>1, LinksAgree
  <2>3. h.header[b].next = c <=> h.header[c].prev = b
    BY <2>1, LinksAgree
  <2>4. Follows(L, c, h.header[c].next) /\ Precedes(L, c, h.header[c].prev)
    BY <2>1 DEF Chain
  <2> QED
    BY <2>2, <2>3, <2>4
<1>8. Leads(L, h.first)
  BY DEF Chain
<1> HIDE DEF n, p
<1>9. Leads(K, q.first)
  <2>1. CASE p = Nil
    BY <2>1, <1>1, <1>2, <1>3, <1>6 DEF Leads
  <2>2. CASE p # Nil
    <3>1. h.first # Nil /\ h.first \in L /\ \A c \in L : h.first <= c
      BY <1>8 DEF Leads
    <3>2. h.first # b
      BY <2>2, <3>1, <1>1, <1>2
    <3> QED
      BY <2>2, <3>1, <3>2, <1>6 DEF Leads
  <2> QED
    BY <2>1, <2>2
<1>10. ASSUME NEW c \in K PROVE Follows(K, c, q.header[c].next)
  <2>1. CASE c = p
    BY <2>1, <1>1, <1>2, <1>3, <1>5 DEF Follows
  <2>2. CASE c # p
    <3>1. q.header[c].next = h.header[c].next /\ h.header[c].next # b
      BY <2>2, <1>5, <1>7
    <3> QED
      BY <3>1, <1>7 DEF Follows
  <2> QED
    BY <2>1, <2>2
<1>11. ASSUME NEW c \in K PROVE Precedes(K, c, q.header[c].prev)
  <2>1. CASE c = n
    BY <2>1, <1>1, <1>2, <1>3, <1>5 DEF Precedes
  <2>2. CASE c # n
    <3>1. q.header[c].prev = h.header[c].prev /\ h.header[c].prev # b
      BY <2>2, <1>5, <1>7
    <3> QED
      BY <3>1, <1>7 DEF Precedes
  <2> QED
    BY <2>1, <2>2
<1>12. \A c \in K : q.header[c] \in Header /\ q.header[c].free
  OBVIOUS
<1>13. K \subseteq Address
  BY <1>2
<1> QED
  BY <1>9, <1>10, <1>11, <1>12, <1>13 DEF Chain

\* A header whose block is not in the list.
Single(r) == [r EXCEPT !.next = Nil, !.prev = Nil, !.free = FALSE]

LEMMA RemoveChain ==
  ASSUME NEW h \in Heaps, NEW L, Chain(h, L), NEW b \in L
  PROVE  /\ heap_list_remove(h, b) \in Heaps
         /\ Chain(heap_list_remove(h, b), L \ {b})
         /\ SameSizes(heap_list_remove(h, b), h, L)
         /\ heap_list_remove(h, b).header[b] \in Header
         /\ heap_list_remove(h, b).header[b].free = FALSE
<1> DEFINE g == Around(h, b)
           n == h.header[b].next
           p == h.header[b].prev
           r == Single(g.header[b])
           q == [g EXCEPT !.header[b] = r]
<1>1. heap_list_remove(h, b) = q
  BY DEF heap_list_remove, Around, Single
<1>2. /\ g \in Heaps
      /\ \A a \in Address :
           g.header[a] = IF a = p THEN WithNext(h.header[a], n)
                         ELSE IF a = n THEN WithPrev(h.header[a], p) ELSE h.header[a]
  BY AroundIs
<1>3. /\ b \in Address /\ h.header[b] \in Header /\ n # b /\ p # b
      /\ n \in L \cup {Nil} /\ p \in L \cup {Nil}
      /\ n \in Address \cup {Nil} /\ p \in Address \cup {Nil}
  BY Neighbours, Zenon
<1> HIDE DEF g, n, p
<1>4. g.header[b] = h.header[b]
  BY <1>2, <1>3
<1>5. r \in Header /\ r.free = FALSE /\ r.size = h.header[b].size
  BY <1>3, <1>4 DEF Single, Header
<1> HIDE DEF r
<1>6. /\ q \in Heaps /\ q.first = g.first
      /\ \A a \in Address : q.header[a] = IF a = b THEN r ELSE g.header[a]
  BY <1>2, <1>3, <1>5 DEF Heaps
<1> HIDE DEF q
<1>7. ASSUME NEW a \in L \ {b}
      PROVE  /\ q.header[a] = g.header[a]
             /\ g.header[a] \in Header /\ g.header[a].free = TRUE
             /\ g.header[a].size = h.header[a].size
  <2>1. a \in Address /\ h.header[a] \in Header /\ h.header[a].free = TRUE
    BY Neighbours, Zenon
  <2>2. q.header[a] = g.header[a]
    BY <2>1, <1>6
  <2>3. \A w \in Header, x \in Address \cup {Nil} :
          /\ WithNext(w, x) \in Header /\ WithNext(w, x).free = w.free /\ WithNext(w, x).size = w.size
          /\ WithPrev(w, x) \in Header /\ WithPrev(w, x).free = w.free /\ WithPrev(w, x).size = w.size
    BY DEF Header, WithNext, WithPrev
  <2>4. g.header[a] \in {WithNext(h.header[a], n), WithPrev(h.header[a], p), h.header[a]}
    BY <1>2, <2>1
  <2>5. CASE g.header[a] = WithNext(h.header[a], n)
    <3>1. /\ WithNext(h.header[a], n) \in Header /\ WithNext(h.header[a], n).free = h.header[a].free
          /\ WithNext(h.header[a], n).size = h.header[a].size
      BY ONLY <2>1, <2>3, <1>3
    <3> QED
      BY ONLY <3>1, <2>1, <2>2, <2>5
  <2>6. CASE g.header[a] = WithPrev(h.header[a], p)
    <3>1. /\ WithPrev(h.header[a], p) \in Header /\ WithPrev(h.header[a], p).free = h.header[a].free
          /\ WithPrev(h.header[a], p).size = h.header[a].size
      BY ONLY <2>1, <2>3, <1>3
    <3> QED
      BY ONLY <3>1, <2>1, <2>2, <2>6
  <2>7. CASE g.header[a] = h.header[a]
    BY ONLY <2>1, <2>2, <2>7, Zenon
  <2> QED
    BY <2>4, <2>5, <2>6, <2>7
<1>8. Chain(q, L \ {b})
  BY <1>6, <1>7, AroundChain DEF g
<1>9. SameSizes(q, h, L)
  <2>1. \A a \in L : q.header[a].size = h.header[a].size
    BY <1>3, <1>5, <1>6, <1>7
  <2>2. ASSUME NEW a \in Address \ L PROVE q.header[a] = h.header[a]
    <3>1. a # p /\ a # n /\ a # b
      BY <1>3, Addresses
    <3> QED
      BY <3>1, <1>2, <1>6
  <2> QED
    BY <2>1, <2>2 DEF SameSizes
<1> QED
  BY <1>1, <1>3, <1>5, <1>6, <1>8, <1>9

\* The block b takes in the block that follows it in the list.
Larger(r, size, n) == [r EXCEPT !.size = @ + size, !.next = n]

LEMMA AbsorbChain ==
  ASSUME NEW h \in Heaps, NEW L, Chain(h, L), NEW b \in L, h.header[b].next # Nil,
         b + h.header[b].size = h.header[b].next
  PROVE  LET n == h.header[b].next
             q == Absorb(h, b)
         IN  /\ q \in Heaps
             /\ Chain(q, L \ {n})
             /\ q.header[b] \in Header
             /\ q.header[b].size = h.header[b].size + h.header[n].size
             /\ q.header[b].prev = h.header[b].prev
             /\ \A a \in L \ {n, b} : q.header[a].size = h.header[a].size
             /\ \A a \in Address \ L : q.header[a] = h.header[a]
<1> DEFINE n == h.header[b].next
           m == h.header[n].next
           r == Larger(h.header[b], h.header[n].size, m)
           h1 == [h EXCEPT !.header[b] = r]
           q == SetPrev(h1, m, b)
<1>1. b \in Address /\ h.header[b] \in Header /\ h.header[b].free = TRUE /\ n \in L /\ n # b /\ n # Nil
  BY Neighbours, Zenon
<1> HIDE DEF n
<1>2. /\ n \in Address /\ h.header[n] \in Header /\ h.header[n].free = TRUE
      /\ m \in L \cup {Nil} /\ m \in Address \cup {Nil} /\ m # n
      /\ m # Nil => n < m
  BY <1>1, Neighbours, Zenon
<1>3. h.header[n].prev = b
  BY <1>1, LinksAgree DEF n
<1>4. m # b
  <2>1. b < n /\ b \in Nat /\ n \in Nat /\ (m # Nil => m \in Nat) /\ b # Nil
    <3>1. b < n
      BY <1>1, Neighbours, Zenon DEF n
    <3> QED
      BY <3>1, <1>1, <1>2, Addresses
  <2> QED
    BY <2>1, <1>2
<1>5. Absorb(h, b) = q
  <2>1. [h EXCEPT !.header[b].size = @ + h.header[n].size, !.header[b].next = m] = h1
    <3>1. h.header[b] \in Header /\ b \in Address /\ h \in Heaps
      BY <1>1
    <3> QED
      BY <3>1 DEF Heaps, Larger
  <2> QED
    BY <1>1, <1>2, <2>1 DEF Absorb, n
<1> HIDE DEF m
<1>6. /\ r \in Header /\ r.free = TRUE /\ r.size = h.header[b].size + h.header[n].size
      /\ r.next = m /\ r.prev = h.header[b].prev
  <2>1. \A w \in Header, k \in Nat, x \in Address \cup {Nil} :
          /\ Larger(w, k, x) \in Header /\ Larger(w, k, x).free = w.free /\ Larger(w, k, x).size = w.size + k
          /\ Larger(w, k, x).next = x /\ Larger(w, k, x).prev = w.prev
    <3> TAKE w \in Header, k \in Nat, x \in Address \cup {Nil}
    <3> DEFINE v == [w EXCEPT !.size = w.size + k]
    <3>1. v \in Header /\ v.free = w.free /\ v.size = w.size + k /\ v.prev = w.prev
      BY DEF Header
    <3>2. Larger(w, k, x) = WithNext(v, x)
      BY DEF Larger, Header, WithNext
    <3> HIDE DEF v
    <3>3. /\ WithNext(v, x) \in Header /\ WithNext(v, x).free = v.free /\ WithNext(v, x).size = v.size
          /\ WithNext(v, x).next = x /\ WithNext(v, x).prev = v.prev
      BY ONLY <3>1, x \in Address \cup {Nil} DEF Header, WithNext
    <3> QED
      BY ONLY <3>1, <3>2, <3>3
  <2>2. h.header[n].size \in Nat
    BY <1>2 DEF Header
  <2>3. h.header[b] \in Header /\ m \in Address \cup {Nil}
    BY <1>1, <1>2
  <2>4. /\ r \in Header /\ r.free = h.header[b].free /\ r.size = h.header[b].size + h.header[n].size
        /\ r.next = m /\ r.prev = h.header[b].prev
    BY ONLY <2>1, <2>2, <2>3, Zenon
  <2> QED
    BY <2>4, <1>1
<1> HIDE DEF r
<1>7. h1 \in Heaps /\ h1.first = h.first /\ \A a \in Address : h1.header[a] = IF a = b THEN r ELSE h.header[a]
  BY <1>1, <1>6 DEF Heaps
<1> HIDE DEF h1
<1>8. m # Nil => m \in Address /\ h1.header[m] = h.header[m] /\ h1.header[m] \in Header
  <2>1. m # Nil => m \in L
    BY <1>2
  <2> QED
    BY <1>2, <1>4, <1>7, <2>1 DEF Chain
<1>9. /\ q \in Heaps
      /\ q.first = h1.first
      /\ \A a \in Address : q.header[a] = IF a = m THEN WithPrev(h1.header[a], b) ELSE h1.header[a]
  <2>1. b \in Address \cup {Nil} /\ m \in Address \cup {Nil} /\ h1 \in Heaps
    BY <1>1, <1>2, <1>7
  <2>2. m # Nil => h1.header[m] \in Header
    BY <1>8
  <2> QED
    BY ONLY <2>1, <2>2, SetPrevIs
<1>10. \A a \in Address : q.header[a] = IF a = b THEN r ELSE IF a = m THEN WithPrev(h.header[a], b)
                                        ELSE h.header[a]
  BY <1>4, <1>7, <1>9
<1> HIDE DEF q
<1>11. /\ Around(h, n).first = h.first
       /\ \A a \in Address : Around(h, n).header[a] =
            IF a = b THEN WithNext(h.header[a], m)
            ELSE IF a = m THEN WithPrev(h.header[a], b) ELSE h.header[a]
  <2>1. b # Nil
    BY <1>1, Addresses
  <2>2. /\ Around(h, n).first = IF h.header[n].prev = Nil THEN h.header[n].next ELSE h.first
        /\ \A a \in Address :
             Around(h, n).header[a] =
                IF a = h.header[n].prev THEN WithNext(h.header[a], h.header[n].next)
                ELSE IF a = h.header[n].next THEN WithPrev(h.header[a], h.header[n].prev)
                ELSE h.header[a]
    BY <1>1, AroundIs
  <2> QED
    BY <1>3, <2>1, <2>2 DEF m
<1>12. \A w \in Header, x \in Address \cup {Nil} :
          /\ WithNext(w, x).next = x /\ WithNext(w, x).prev = w.prev
          /\ WithPrev(w, x) \in Header /\ WithPrev(w, x).free = w.free /\ WithPrev(w, x).size = w.size
  BY DEF Header, WithNext, WithPrev
<1>13. ASSUME NEW a \in L \ {n}
       PROVE  /\ q.header[a] \in Header /\ q.header[a].free = TRUE
              /\ q.header[a].next = Around(h, n).header[a].next
              /\ q.header[a].prev = Around(h, n).header[a].prev
              /\ a # b => q.header[a].size = h.header[a].size
  <2>1. a \in Address /\ h.header[a] \in Header /\ h.header[a].free = TRUE
    BY Neighbours, Zenon
  <2>2. CASE a = b
    <3>1. q.header[a] = r /\ Around(h, n).header[a] = WithNext(h.header[a], m)
      BY <2>1, <2>2, <1>10, <1>11
    <3>2. WithNext(h.header[a], m).next = m /\ WithNext(h.header[a], m).prev = h.header[a].prev
      BY <2>1, <1>2, <1>12, Zenon
    <3> QED
      BY <2>2, <3>1, <3>2, <1>6
  <2>3. CASE a # b /\ a = m
    <3>1. q.header[a] = WithPrev(h.header[a], b) /\ Around(h, n).header[a] = WithPrev(h.header[a], b)
      BY <2>1, <2>3, <1>10, <1>11
    <3>2. b \in Address \cup {Nil}
      BY <1>1
    <3>3. /\ WithPrev(h.header[a], b) \in Header
          /\ WithPrev(h.header[a], b).free = h.header[a].free /\ WithPrev(h.header[a], b).size = h.header[a].size
      BY <2>1, <3>2, <1>12, Zenon
    <3> QED
      BY <3>1, <3>3, <2>1
  <2>4. CASE a # b /\ a # m
    BY <2>1, <2>4, <1>10, <1>11
  <2> QED
    BY <2>2, <2>3, <2>4
<1>14. Chain(q, L \ {n})
  <2>1. q.first = Around(h, n).first
    BY <1>7, <1>9, <1>11
  <2> QED
    BY <1>1, <1>9, <1>13, <2>1, AroundChain
<1>15. q.header[b] = r
  BY <1>1, <1>10
<1>16. ASSUME NEW a \in Address \ L PROVE q.header[a] = h.header[a]
  <2>1. a # b /\ a # m
    BY <1>1, <1>2, Addresses
  <2> QED
    BY <2>1, <1>10
<1>17. \A a \in L \ {n, b} : q.header[a].size = h.header[a].size
  BY <1>13
<1> QED
  BY <1>5, <1>6, <1>9, <1>14, <1>15, <1>16, <1>17 DEF n

-----------------------------------------------------------------------------
(* Heap: what a walk along the list meets. *)

WalkStep(h, i, b) == IF b = Nil THEN Nil ELSE h.header[b].next
Walk == INSTANCE ListLemmas WITH step <- WalkStep, pick <- AnyBlock

Spaced(L) == \A b, c \in L : b < c => b + MIN_BLOCK_SIZE <= c

LEMMA ListIsWalk ==
  ASSUME NEW h
  PROVE  LET f == CHOOSE f : Walk!IsRec(f, h, h.first, MaxBlocks)
             length == Cardinality({n \in 0 .. MaxBlocks : f[n] # Nil})
         IN  FreeList(h) = [i \in 1 .. length |-> f[i - 1]]
  BY DEF FreeList, Walk!IsRec, WalkStep

\* More blocks than MaxBlocks do not fit.
LEMMA EnoughBlocks ==
  /\ MaxBlocks \in Nat
  /\ MaxBlocks * MIN_BLOCK_SIZE > Top
  /\ \A n \in Nat : (n + 1) * MIN_BLOCK_SIZE = n * MIN_BLOCK_SIZE + MIN_BLOCK_SIZE
  /\ 0 * MIN_BLOCK_SIZE = 0
  /\ \A n \in Nat : n * MIN_BLOCK_SIZE \in Nat
<1>1. ASSUME NEW M \in Nat, M > 1, NEW T \in Nat
      PROVE  /\ T \div M + 1 \in Nat
             /\ (T \div M + 1) * M > T
             /\ \A n \in Nat : (n + 1) * M = n * M + M
             /\ 0 * M = 0
             /\ \A n \in Nat : n * M \in Nat
  <2>0. M \in Nat \ {0}
    BY <1>1
  <2>1. T \div M \in Nat /\ T % M \in 0 .. M - 1 /\ T = (T \div M) * M + (T % M)
    BY <2>0
  <2>2. \A n \in Nat : (n + 1) * M = n * M + M /\ n * M \in Nat
    BY <1>1
  <2>3. (T \div M + 1) * M = (T \div M) * M + M /\ (T \div M) * M \in Nat
    BY <2>1, <2>2
  <2>4. (T \div M + 1) * M > T
    BY <2>1, <2>3
  <2> QED
    BY <2>1, <2>2, <2>4
<1> QED
  BY <1>1, Addresses DEF MaxBlocks

\* The walk up to its place n.
Walked(f, L, n) ==
    IF f[n] = Nil THEN \A c \in L : \E j \in 0 .. n - 1 : f[j] = c
    ELSE /\ f[n] \in L /\ n * MIN_BLOCK_SIZE <= f[n]
         /\ \A j \in 0 .. n - 1 : f[j] \in L /\ f[j] < f[n]
         /\ \A c \in L : c < f[n] => \E j \in 0 .. n - 1 : f[j] = c

LEMMA WalkStart ==
  ASSUME NEW h \in Heaps, NEW L, Chain(h, L), NEW f, f[0] = h.first
  PROVE  Walked(f, L, 0)
<1>1. Leads(L, f[0]) /\ \A c \in L : c \in Nat
  BY Addresses DEF Chain
<1>2. f[0] \in L => 0 * MIN_BLOCK_SIZE <= f[0]
  BY <1>1, EnoughBlocks
<1>3. 0 .. 0 - 1 = {}
  OBVIOUS
<1> QED
  BY <1>1, <1>2, <1>3 DEF Walked, Leads

LEMMA WalkOn ==
  ASSUME NEW h \in Heaps, NEW L, Chain(h, L), Spaced(L), NEW f, NEW n \in Nat,
         Walked(f, L, n), f[n + 1] = WalkStep(h, n + 1, f[n])
  PROVE  Walked(f, L, n + 1)
<1>1. \A c \in L : c \in Nat /\ c # Nil
  BY Addresses DEF Chain
<1>2. 0 .. n + 1 - 1 = (0 .. n - 1) \cup {n}
  OBVIOUS
<1>3. CASE f[n] = Nil
  <2>1. f[n + 1] = Nil /\ \A c \in L : \E j \in 0 .. n - 1 : f[j] = c
    BY <1>3 DEF WalkStep, Walked
  <2> QED
    BY <2>1, <1>2 DEF Walked
<1>4. CASE f[n] # Nil
  <2> DEFINE v == f[n]
             x == f[n + 1]
  <2>1. /\ v \in L /\ n * MIN_BLOCK_SIZE <= v
        /\ \A j \in 0 .. n - 1 : f[j] \in L /\ f[j] < v
        /\ \A c \in L : c < v => \E j \in 0 .. n - 1 : f[j] = c
    BY <1>4 DEF Walked
  <2>2. x = h.header[v].next
    BY <1>4 DEF WalkStep
  <2>3. Follows(L, v, x)
    BY <2>1, <2>2 DEF Chain
  <2>4. \A c \in L : c <= v => \E j \in 0 .. n : f[j] = c
    <3> SUFFICES ASSUME NEW c \in L, c <= v PROVE \E j \in 0 .. n : f[j] = c
      OBVIOUS
    <3>1. CASE c = v
      BY <3>1
    <3>2. CASE c < v
      <4>1. PICK j \in 0 .. n - 1 : f[j] = c
        BY <3>2, <2>1
      <4>2. j \in 0 .. n
        OBVIOUS
      <4> QED
        BY <4>1, <4>2
    <3> QED
      BY <3>1, <3>2, <2>1, <1>1
  <2>5. CASE x = Nil
    <3>1. \A c \in L : c <= v
      BY <2>3, <2>5 DEF Follows
    <3> QED
      BY <3>1, <2>4, <2>5 DEF Walked
  <2>6. CASE x # Nil
    <3>1. x \in L /\ v < x /\ \A c \in L : v < c => x <= c
      BY <2>3, <2>6 DEF Follows
    <3>2. v + MIN_BLOCK_SIZE <= x
      BY <2>1, <3>1 DEF Spaced
    <3>3. (n + 1) * MIN_BLOCK_SIZE <= x
      <4>1. /\ n * MIN_BLOCK_SIZE \in Nat /\ MIN_BLOCK_SIZE \in Nat
            /\ (n + 1) * MIN_BLOCK_SIZE = n * MIN_BLOCK_SIZE + MIN_BLOCK_SIZE
        BY EnoughBlocks, Addresses
      <4>2. v \in Nat /\ x \in Nat /\ n * MIN_BLOCK_SIZE <= v
        BY <2>1, <3>1, <1>1
      <4> HIDE DEF v, x
      <4> QED
        BY <3>2, <4>1, <4>2
    <3>4. \A j \in 0 .. n : f[j] \in L /\ f[j] < x
      <4> SUFFICES ASSUME NEW j \in 0 .. n PROVE f[j] \in L /\ f[j] < x
        OBVIOUS
      <4>1. CASE j = n
        BY <4>1, <2>1, <3>1
      <4>2. CASE j # n
        <5>1. f[j] \in L /\ f[j] < v
          BY <4>2, <2>1
        <5> QED
          BY <5>1, <2>1, <3>1, <1>1
      <4> QED
        BY <4>1, <4>2
    <3>5. \A c \in L : c < x => c <= v
      BY <2>1, <3>1, <1>1
    <3> QED
      BY <2>4, <2>6, <3>1, <3>3, <3>4, <3>5 DEF Walked
  <2> QED
    BY <2>5, <2>6
<1> QED
  BY <1>3, <1>4

LEMMA FreeListIs ==
  ASSUME NEW h \in Heaps, NEW L, Chain(h, L), Spaced(L)
  PROVE  \E k \in Nat :
           /\ FreeList(h) = [i \in 1 .. k |-> FreeList(h)[i]]
           /\ \A i \in 1 .. k : FreeList(h)[i] \in L
           /\ \A i, j \in 1 .. k : i < j => FreeList(h)[i] < FreeList(h)[j]
           /\ \A c \in L : \E i \in 1 .. k : FreeList(h)[i] = c
<1> DEFINE N == MaxBlocks
           f == CHOOSE f : Walk!IsRec(f, h, h.first, N)
           S == {n \in 0 .. N : f[n] # Nil}
<1>1. N \in Nat /\ N * MIN_BLOCK_SIZE > Top
  BY EnoughBlocks
<1>2. Walk!IsRec(f, h, h.first, N)
  BY <1>1, Walk!RecExists
<1>3. FreeList(h) = [i \in 1 .. Cardinality(S) |-> f[i - 1]]
  BY ListIsWalk
<1> HIDE DEF f, N
<1>4. \A i \in 0 .. N : f[i] = IF i = 0 THEN h.first ELSE WalkStep(h, i, f[i - 1])
  BY <1>2 DEF Walk!IsRec
<1> DEFINE G == {n \in Nat : n <= N => Walked(f, L, n)}
<1>5. 0 \in G
  BY <1>1, <1>4, WalkStart
<1>6. ASSUME NEW n \in Nat, n \in G PROVE n + 1 \in G
  <2> SUFFICES ASSUME n + 1 <= N PROVE Walked(f, L, n + 1)
    OBVIOUS
  <2>1. Walked(f, L, n)
    BY <1>1, <1>6
  <2>2. n + 1 \in 0 .. N /\ n + 1 # 0 /\ n + 1 - 1 = n
    BY <1>1
  <2>3. f[n + 1] = WalkStep(h, n + 1, f[n])
    BY <1>4, <2>2
  <2> QED
    BY <2>1, <2>3, WalkOn
<1> HIDE DEF G
<1>7. Nat \subseteq G
  BY <1>5, <1>6, Walk!NatSetInduction
<1>8. \A n \in 0 .. N : Walked(f, L, n)
  BY <1>7 DEF G
<1>9. \A c \in L : c \in Nat /\ c < Top
  BY Addresses DEF Chain
<1>10. f[N] = Nil
  <2> SUFFICES ASSUME f[N] # Nil PROVE FALSE
    OBVIOUS
  <2>1. f[N] \in L /\ N * MIN_BLOCK_SIZE <= f[N]
    BY <1>1, <1>8 DEF Walked
  <2>2. N * MIN_BLOCK_SIZE \in Nat /\ Top \in Nat
    BY <1>1, EnoughBlocks, Addresses
  <2> QED
    BY <2>1, <2>2, <1>1, <1>9
<1> DEFINE E == {n \in 0 .. N : f[n] = Nil}
<1>11. PICK k \in E : \A n \in E : k <= n
  <2>1. E \subseteq Nat /\ N \in E
    BY <1>1, <1>10
  <2> HIDE DEF E
  <2> QED
    BY <2>1, Walk!LeastMember
<1>12. k \in 0 .. N /\ f[k] = Nil /\ \A n \in 0 .. k - 1 : f[n] # Nil
  BY <1>1, <1>11
<1>13. S = 0 .. k - 1
  <2>1. ASSUME NEW n \in 0 .. N, f[n] # Nil PROVE n \in 0 .. k - 1
    <3>1. \A j \in 0 .. n - 1 : f[j] \in L
      BY <1>8, <2>1 DEF Walked
    <3>2. k \notin 0 .. n - 1 /\ k # n
      BY <2>1, <3>1, <1>9, <1>12, Addresses DEF Chain
    <3> QED
      BY <3>2, <1>1, <1>12
  <2>2. \A n \in 0 .. k - 1 : n \in 0 .. N
    BY <1>1, <1>12
  <2> QED
    BY <2>1, <2>2, <1>12
<1>14. Cardinality(S) = k
  <2>1. Cardinality(0 .. k - 1) = k
    BY <1>12, FS_Interval
  <2> QED
    BY <2>1, <1>13
<1> HIDE DEF S, E
<1>15. FreeList(h) = [i \in 1 .. k |-> f[i - 1]] /\ k \in Nat
  BY <1>3, <1>12, <1>14
<1>16. \A i \in 1 .. k : FreeList(h)[i] = f[i - 1] /\ i - 1 \in 0 .. k - 1 /\ i - 1 \in 0 .. N
  BY <1>1, <1>12, <1>15
<1>17. \A n \in 0 .. k - 1 : f[n] \in L
  <2> TAKE n \in 0 .. k - 1
  <2>1. n \in 0 .. N /\ f[n] # Nil
    BY <1>1, <1>12
  <2> QED
    BY <2>1, <1>8 DEF Walked
<1>18. \A i \in 1 .. k : FreeList(h)[i] \in L
  BY <1>16, <1>17
<1>19. ASSUME NEW i \in 1 .. k, NEW j \in 1 .. k, i < j PROVE FreeList(h)[i] < FreeList(h)[j]
  <2>1. f[j - 1] # Nil /\ j - 1 \in 0 .. N /\ i - 1 \in 0 .. (j - 1) - 1
    BY <1>1, <1>12, <1>19
  <2>2. f[i - 1] < f[j - 1]
    BY <2>1, <1>8 DEF Walked
  <2> QED
    BY <2>2, <1>16
<1>20. ASSUME NEW c \in L PROVE \E i \in 1 .. k : FreeList(h)[i] = c
  <2>1. PICK j \in 0 .. k - 1 : f[j] = c
    BY <1>8, <1>12 DEF Walked
  <2>2. j + 1 \in 1 .. k /\ (j + 1) - 1 = j
    BY <1>12
  <2>3. FreeList(h)[j + 1] = c
    BY <2>1, <2>2, <1>16
  <2> QED
    BY <2>2, <2>3
<1>21. FreeList(h) = [i \in 1 .. k |-> FreeList(h)[i]]
  BY <1>15
<1> QED
  BY <1>15, <1>18, <1>19, <1>20, <1>21

\* The last block of the list below b, or none.
LEMMA PredecessorIs ==
  ASSUME NEW h \in Heaps, NEW L, Chain(h, L), Spaced(L), NEW b \in Address, b \notin L
  PROVE  Precedes(L, b, Predecessor(h, b))
<1> DEFINE list == FreeList(h)
<1>1. PICK k \in Nat :
        /\ list = [i \in 1 .. k |-> list[i]]
        /\ \A i \in 1 .. k : list[i] \in L
        /\ \A i, j \in 1 .. k : i < j => list[i] < list[j]
        /\ \A c \in L : \E i \in 1 .. k : list[i] = c
  BY FreeListIs
<1> HIDE DEF list
<1>2. \A c \in L : c \in Nat /\ c # Nil /\ c # b
  BY Addresses DEF Chain
<1>3. b \in Nat
  BY Addresses
<1>4. DOMAIN list = 1 .. k /\ Len(list) = k /\ (list = << >> <=> k = 0)
  <2>1. DOMAIN list = 1 .. k
    BY <1>1
  <2>2. list \in Seq(L)
    BY <1>1
  <2> QED
    BY <2>1, <2>2
<1>5. CASE list = << >> \/ b < list[1]
  <2>1. Predecessor(h, b) = Nil
    BY <1>5 DEF Predecessor, list
  <2>2. ASSUME NEW c \in L PROVE b <= c
    <3>1. PICK i \in 1 .. k : list[i] = c
      BY <1>1
    <3>2. b < list[1] /\ 1 \in 1 .. k /\ list[1] \in L /\ list[1] <= list[i]
      <4>1. k # 0 /\ 1 \in 1 .. k
        BY <3>1
      <4>2. i = 1 \/ 1 < i
        BY <3>1
      <4> QED
        BY <4>1, <4>2, <1>1, <1>2, <1>4, <1>5
    <3> QED
      BY <3>1, <3>2, <1>2, <1>3
  <2> QED
    BY <2>1, <2>2 DEF Precedes
<1>6. CASE ~(list = << >> \/ b < list[1])
  <2> DEFINE D == {i \in DOMAIN list : i = Len(list) \/ list[i + 1] >= b}
             m == Min(D)
  <2>1. Predecessor(h, b) = list[m]
    BY <1>6 DEF Predecessor, list
  <2>2. k \in D /\ D \subseteq 1 .. k /\ D \subseteq Nat
    BY <1>4, <1>6
  <2>3. m \in D /\ \A i \in D : m <= i
    <3> HIDE DEF D
    <3>1. \E i \in D : \A j \in D : i <= j
      BY <2>2, Walk!LeastMember
    <3> QED
      BY <3>1 DEF Min
  <2> HIDE DEF m
  <2>4. m \in 1 .. k /\ list[m] \in L
    BY <2>2, <2>3, <1>1
  <2>5. list[m] < b
    <3>1. CASE m = 1
      BY <3>1, <2>4, <1>2, <1>3, <1>6
    <3>2. CASE m # 1
      <4>1. m - 1 \in 1 .. k /\ m - 1 \notin D /\ m - 1 + 1 = m
        <5>1. m \in Int /\ m - 1 \in 1 .. k /\ m - 1 + 1 = m /\ ~(m <= m - 1)
          BY <3>2, <2>4
        <5> HIDE DEF D
        <5> QED
          BY <5>1, <2>3
      <4>2. ~(list[m] >= b)
        BY <4>1, <1>4
      <4> QED
        BY <4>2, <2>4, <1>2, <1>3
    <3> QED
      BY <3>1, <3>2
  <2>6. ASSUME NEW c \in L, c < b PROVE c <= list[m]
    <3>1. PICK i \in 1 .. k : list[i] = c
      BY <1>1
    <3>2. i <= m
      <4> SUFFICES ASSUME m < i PROVE FALSE
        BY <3>1, <2>4
      <4>1. m # k /\ m + 1 \in 1 .. k /\ list[m + 1] >= b
        BY <2>3, <2>4, <3>1, <1>4
      <4>2. list[m + 1] <= list[i] /\ list[m + 1] \in L
        <5>1. m + 1 = i \/ m + 1 < i
          BY <2>4, <3>1
        <5> QED
          BY <5>1, <4>1, <3>1, <1>1, <1>2
      <4> QED
        BY <4>1, <4>2, <3>1, <2>6, <1>2, <1>3
    <3>3. i = m \/ i < m
      BY <3>1, <3>2, <2>4
    <3> QED
      BY <3>1, <3>3, <2>4, <1>1, <1>2
  <2>7. list[m] # Nil
    BY <2>4, <1>2
  <2> QED
    BY <2>1, <2>4, <2>5, <2>6, <2>7 DEF Precedes
<1> QED
  BY <1>5, <1>6

-----------------------------------------------------------------------------
(* Heap: heaps with the free blocks L and the blocks U in use. *)

Laid(h, B) ==
    /\ B \subseteq Address
    /\ \A b \in B : /\ h.header[b] \in Header
                    /\ h.header[b].size >= MIN_BLOCK_SIZE
                    /\ b + h.header[b].size <= Top
    /\ \A b, c \in B : b < c => b + h.header[b].size <= c

HeapSound(h, L, U) ==
    /\ h \in Heaps
    /\ Chain(h, L)
    /\ L \cap U = {}
    /\ Laid(h, L \cup U)
    /\ \A b \in U : h.header[b].free = FALSE

\* Some block of B holds the unit x.
Owns(h, B, x) == \E b \in B : b <= x /\ x < b + h.header[b].size

\* Free blocks touch only at the addresses D.
Parted(h, L, D) == \A b \in L : b + h.header[b].size \in L => b + h.header[b].size \in D

LEMMA LaidNats ==
  ASSUME NEW h, NEW B, Laid(h, B)
  PROVE  \A b \in B : /\ b \in Nat /\ b # Nil /\ h.header[b].size \in Nat
                      /\ b + h.header[b].size \in Nat
                      /\ b < b + h.header[b].size
<1> TAKE b \in B
<1>1. b \in Nat /\ b # Nil /\ h.header[b] \in Header /\ h.header[b].size >= MIN_BLOCK_SIZE
  BY Addresses DEF Laid
<1>2. h.header[b].size \in Nat
  BY <1>1 DEF Header
<1> QED
  BY <1>1, <1>2, Addresses

LEMMA LaidSame ==
  ASSUME NEW h, NEW q, NEW B, Laid(h, B),
         \A b \in B : q.header[b] \in Header /\ q.header[b].size = h.header[b].size
  PROVE  Laid(q, B)
  BY Zenon DEF Laid

LEMMA LaidSpaced ==
  ASSUME NEW h, NEW B, Laid(h, B), NEW L, L \subseteq B
  PROVE  Spaced(L)
<1> SUFFICES ASSUME NEW b \in L, NEW c \in L, b < c PROVE b + MIN_BLOCK_SIZE <= c
  BY DEF Spaced
<1>1. b \in B /\ c \in B
  OBVIOUS
<1>2. b + h.header[b].size <= c /\ h.header[b].size >= MIN_BLOCK_SIZE
  BY <1>1 DEF Laid
<1>3. b \in Nat /\ c \in Nat /\ h.header[b].size \in Nat
  BY <1>1, LaidNats
<1> QED
  BY <1>2, <1>3, Addresses

LEMMA ChainSame ==
  ASSUME NEW h, NEW q, NEW L, Chain(h, L), q.first = h.first,
         \A b \in L : q.header[b] = h.header[b]
  PROVE  Chain(q, L)
  BY DEF Chain

\* A block in use that is linked in, and one that is taken out of the list.
Added(q, h, L, U, b) ==
    /\ HeapSound(q, L \cup {b}, U \ {b})
    /\ \A a \in L \cup U : q.header[a].size = h.header[a].size
Removed(q, h, L, U, b) ==
    /\ HeapSound(q, L \ {b}, U \cup {b})
    /\ \A a \in L \cup U : q.header[a].size = h.header[a].size

LEMMA AddSound ==
  ASSUME NEW h, NEW L, NEW U, HeapSound(h, L, U), NEW b \in U
  PROVE  Added(heap_list_add(h, b), h, L, U, b)
<1> DEFINE p == Predecessor(h, b)
           q == Link(h, p, b)
<1>0. heap_list_add(h, b) = q
  BY DEF heap_list_add
<1>1. h \in Heaps /\ Chain(h, L) /\ L \cap U = {} /\ Laid(h, L \cup U)
  BY DEF HeapSound
<1>2. b \in Address /\ b \notin L /\ h.header[b] \in Header /\ U \subseteq Address
  BY <1>1 DEF Laid
<1>3. Spaced(L)
  <2>1. L \subseteq L \cup U
    OBVIOUS
  <2> QED
    BY <1>1, <2>1, LaidSpaced
<1>4. Precedes(L, b, p)
  BY <1>1, <1>2, <1>3, PredecessorIs
<1> HIDE DEF p
<1>5. q \in Heaps /\ Chain(q, L \cup {b}) /\ SameSizes(q, h, L \cup {b})
  BY <1>1, <1>2, <1>4, LinkChain
<1> HIDE DEF q
<1>6. \A a \in L \cup {b} : q.header[a] \in Header /\ q.header[a].size = h.header[a].size
  BY <1>5 DEF Chain, SameSizes
<1>7. \A a \in Address : a \notin L \cup {b} => q.header[a] = h.header[a]
  BY <1>5 DEF SameSizes
<1>8. \A a \in U \ {b} : q.header[a] = h.header[a]
  BY <1>1, <1>2, <1>7
<1>9. \A a \in L \cup U : q.header[a] \in Header /\ q.header[a].size = h.header[a].size
  <2> TAKE a \in L \cup U
  <2>1. CASE a \in L \cup {b}
    BY <2>1, <1>6
  <2>2. CASE a \in U \ {b}
    BY <2>2, <1>1, <1>8 DEF Laid
  <2> QED
    BY <2>1, <2>2
<1>10. Laid(q, L \cup U)
  BY <1>1, <1>9, LaidSame
<1>11. (L \cup {b}) \cup (U \ {b}) = L \cup U /\ (L \cup {b}) \cap (U \ {b}) = {}
  BY <1>1
<1>12. \A a \in U \ {b} : q.header[a].free = FALSE
  BY <1>8 DEF HeapSound
<1>13. HeapSound(q, L \cup {b}, U \ {b})
  BY <1>5, <1>10, <1>11, <1>12 DEF HeapSound
<1> QED
  BY <1>0, <1>9, <1>13 DEF Added

LEMMA RemoveSound ==
  ASSUME NEW h, NEW L, NEW U, HeapSound(h, L, U), NEW b \in L
  PROVE  Removed(heap_list_remove(h, b), h, L, U, b)
<1> DEFINE q == heap_list_remove(h, b)
<1>1. h \in Heaps /\ Chain(h, L) /\ L \cap U = {} /\ Laid(h, L \cup U)
  BY DEF HeapSound
<1>2. /\ q \in Heaps /\ Chain(q, L \ {b}) /\ SameSizes(q, h, L)
      /\ q.header[b] \in Header /\ q.header[b].free = FALSE
  BY <1>1, RemoveChain
<1> HIDE DEF q
<1>3. \A a \in L : q.header[a] \in Header /\ q.header[a].size = h.header[a].size
  BY <1>2 DEF Chain, SameSizes
<1>4. \A a \in Address : a \notin L => q.header[a] = h.header[a]
  BY <1>2 DEF SameSizes
<1>5. \A a \in U : q.header[a] = h.header[a]
  BY <1>1, <1>4 DEF Laid
<1>6. \A a \in L \cup U : q.header[a] \in Header /\ q.header[a].size = h.header[a].size
  BY <1>1, <1>3, <1>5 DEF Laid
<1>7. Laid(q, L \cup U)
  BY <1>1, <1>6, LaidSame
<1>8. (L \ {b}) \cup (U \cup {b}) = L \cup U /\ (L \ {b}) \cap (U \cup {b}) = {}
  BY <1>1
<1>9. \A a \in U \cup {b} : q.header[a].free = FALSE
  BY <1>2, <1>5 DEF HeapSound
<1>10. HeapSound(q, L \ {b}, U \cup {b})
  BY <1>2, <1>7, <1>8, <1>9 DEF HeapSound
<1> QED
  BY <1>6, <1>10 DEF Removed, q

\* A block of the list takes in the one behind it, at n, if that is free.
Joined(q, h, L, U, b, n) ==
    \/ n \notin L /\ q = h
    \/ /\ n \in L /\ n # b
       /\ HeapSound(q, L \ {n}, U)
       /\ q.header[b].size = h.header[b].size + h.header[n].size
       /\ \A a \in (L \cup U) \ {b, n} : q.header[a].size = h.header[a].size

LEMMA AbsorbSound ==
  ASSUME NEW h, NEW L, NEW U, HeapSound(h, L, U), NEW b \in L
  PROVE  Joined(Absorb(h, b), h, L, U, b, b + h.header[b].size)
<1> DEFINE q == Absorb(h, b)
           n == b + h.header[b].size
           x == h.header[b].next
<1>1. h \in Heaps /\ Chain(h, L) /\ L \cap U = {} /\ Laid(h, L \cup U)
  BY DEF HeapSound
<1>2. \A a \in L \cup U : /\ a \in Nat /\ a # Nil /\ h.header[a].size \in Nat
                          /\ a + h.header[a].size \in Nat /\ a < a + h.header[a].size
  BY <1>1, LaidNats
<1>3. b \in L \cup U /\ b < n /\ b \in Nat /\ n \in Nat
  BY <1>2
<1>4. /\ x \in L \cup {Nil}
      /\ x # Nil => b < x
      /\ \A c \in L : b < c => x # Nil /\ x <= c
  BY <1>1, Neighbours, Zenon
<1>5. x # Nil => n <= x /\ x \in Nat /\ h.header[x].free
  <2> HAVE x # Nil
  <2>1. x \in L /\ b < x
    BY <1>4
  <2>2. b + h.header[b].size <= x
    BY <1>1, <2>1 DEF Laid
  <2> QED
    BY <1>1, <1>2, <2>1, <2>2 DEF Chain
<1>6. n \in L <=> x # Nil /\ n = x
  <2>1. ASSUME n \in L PROVE x # Nil /\ n = x
    <3>1. x # Nil /\ x <= n
      BY <1>3, <1>4, <2>1
    <3> QED
      BY <3>1, <1>3, <1>5
  <2> QED
    BY <1>4, <2>1
<1>7. CASE n \notin L
  <2>1. ~(x # Nil /\ n = x)
    BY <1>6, <1>7
  <2>2. q = h
    BY <2>1 DEF Absorb
  <2> HIDE DEF q, n
  <2>3. Joined(q, h, L, U, b, n)
    BY <1>7, <2>2 DEF Joined
  <2> QED
    BY <2>3 DEF q, n
<1>8. CASE n \in L
  <2>1. x # Nil /\ b + h.header[b].size = x /\ n = x
    BY <1>6, <1>8
  <2>2. /\ q \in Heaps
        /\ Chain(q, L \ {x})
        /\ q.header[b] \in Header
        /\ q.header[b].size = h.header[b].size + h.header[x].size
        /\ q.header[b].prev = h.header[b].prev
        /\ \A a \in L \ {x, b} : q.header[a].size = h.header[a].size
        /\ \A a \in Address \ L : q.header[a] = h.header[a]
    <3>1. h \in Heaps /\ Chain(h, L) /\ b \in L
      BY <1>1
    <3>2. h.header[b].next # Nil /\ b + h.header[b].size = h.header[b].next
      BY <2>1
    <3> QED
      BY ONLY <3>1, <3>2, AbsorbChain
  <2> HIDE DEF q, x
  <2>3. \A a \in U : q.header[a] = h.header[a] /\ h.header[a] \in Header
    BY <1>1, <2>2 DEF Laid
  <2> DEFINE B == (L \ {x}) \cup U
  <2>4. \A a \in B \ {b} : q.header[a] \in Header /\ q.header[a].size = h.header[a].size
    <3>1. \A a \in L \ {x} : q.header[a] \in Header
      BY <2>2 DEF Chain
    <3> QED
      BY <2>2, <2>3, <3>1
  <2>5. /\ B \subseteq L \cup U /\ x \in L \cup U /\ x \notin B /\ b \in B
    BY <1>1, <1>3, <1>4, <2>1
  <2>6. b + q.header[b].size = x + h.header[x].size
    BY <1>2, <1>3, <2>1, <2>2, <2>5
  <2>7. Laid(q, B)
    <3>1. B \subseteq Address
      BY <1>1, <2>5 DEF Laid
    <3>2. ASSUME NEW a \in B
          PROVE  q.header[a] \in Header /\ q.header[a].size >= MIN_BLOCK_SIZE /\ a + q.header[a].size <= Top
      <4>1. a \in L \cup U /\ h.header[a].size >= MIN_BLOCK_SIZE /\ a + h.header[a].size <= Top
        BY <1>1, <2>5 DEF Laid
      <4>2. CASE a # b
        BY <4>1, <4>2, <2>4
      <4>3. CASE a = b
        <5>1. x + h.header[x].size <= Top
          BY <1>1, <2>5 DEF Laid
        <5> QED
          BY <4>1, <4>3, <5>1, <1>2, <2>2, <2>5, <2>6, Addresses
      <4> QED
        BY <4>2, <4>3
    <3>3. ASSUME NEW a \in B, NEW c \in B, a < c PROVE a + q.header[a].size <= c
      <4>1. a \in L \cup U /\ c \in L \cup U /\ a + h.header[a].size <= c
        BY <1>1, <2>5, <3>3 DEF Laid
      <4>2. CASE a # b
        BY <4>1, <4>2, <2>4
      <4>3. CASE a = b
        <5>1. x # c /\ ~(c < x)
          <6>1. x # c
            BY <2>5
          <6>2. x <= c
            BY <4>1, <4>3, <2>1
          <6> QED
            BY <6>1, <6>2, <4>1, <1>2, <2>5
        <5>2. x < c
          BY <5>1, <4>1, <1>2, <2>5
        <5>3. x + h.header[x].size <= c
          BY <5>2, <4>1, <1>1, <2>5 DEF Laid
        <5> QED
          BY <5>3, <4>3, <2>6
      <4> QED
        BY <4>2, <4>3
    <3> QED
      BY <3>1, <3>2, <3>3 DEF Laid
  <2>8. \A a \in U : q.header[a].free = FALSE
    BY <2>3 DEF HeapSound
  <2>9. HeapSound(q, L \ {x}, U)
    BY <1>1, <2>2, <2>7, <2>8 DEF HeapSound
  <2>10. \A a \in (L \cup U) \ {b, x} : q.header[a].size = h.header[a].size
    BY <2>4
  <2>11. n # b
    BY <1>3
  <2>12. n = x
    BY <2>1
  <2> HIDE DEF n
  <2>13. /\ n \in L /\ n # b
         /\ HeapSound(q, L \ {n}, U)
         /\ q.header[b].size = h.header[b].size + h.header[n].size
         /\ \A a \in (L \cup U) \ {b, n} : q.header[a].size = h.header[a].size
    BY <1>8, <2>2, <2>9, <2>10, <2>11, <2>12, Zenon
  <2>14. Joined(q, h, L, U, b, n)
    BY <2>13, Zenon DEF Joined
  <2> QED
    BY <2>14, Zenon DEF q, n
<1> QED
  BY <1>7, <1>8

\* A new header at a place that no block holds.
LEMMA NewSound ==
  ASSUME NEW h, NEW L, NEW U, HeapSound(h, L, U), NEW new \in Address, new \notin L \cup U,
         NEW q \in Heaps, q.first = h.first,
         \A a \in L : q.header[a] = h.header[a],
         \A a \in U \cup {new} : q.header[a] \in Header /\ q.header[a].free = FALSE,
         \A a \in U \cup {new} : q.header[a].size >= MIN_BLOCK_SIZE /\ a + q.header[a].size <= Top,
         \A a, c \in L \cup U \cup {new} : a < c => a + q.header[a].size <= c
  PROVE  HeapSound(q, L, U \cup {new})
<1>1. h \in Heaps /\ Chain(h, L) /\ L \cap U = {} /\ Laid(h, L \cup U)
  BY DEF HeapSound
<1>2. Chain(q, L)
  BY <1>1, ChainSame
<1>3. L \cap (U \cup {new}) = {} /\ L \cup (U \cup {new}) = L \cup U \cup {new}
  BY <1>1
<1>4. Laid(q, L \cup U \cup {new})
  <2>1. L \cup U \cup {new} \subseteq Address
    BY <1>1 DEF Laid
  <2>2. \A a \in L : q.header[a] \in Header /\ q.header[a].size >= MIN_BLOCK_SIZE /\ a + q.header[a].size <= Top
    BY <1>1 DEF Laid
  <2> QED
    BY <2>1, <2>2 DEF Laid
<1> QED
  BY <1>2, <1>3, <1>4 DEF HeapSound

\* The block b is cut at size, unless the rest is too small for a block.
Cut(r, size, new) == [r EXCEPT !.next = new, !.size = size]

\* A block in use is cut at new, unless the rest would be too small.
Divided(q, h, L, U, b, size, new) ==
    \/ q = h
    \/ /\ new \notin L \cup U
       /\ HeapSound(q, L \cup {new}, U)
       /\ q.header[b].size = size
       /\ q.header[new].size = h.header[b].size - size
       /\ \A a \in (L \cup U) \ {b} : q.header[a].size = h.header[a].size

LEMMA CutKeeps ==
  ASSUME NEW h, NEW L, NEW U, HeapSound(h, L, U), NEW b \in U, NEW size \in Nat,
         size >= MIN_BLOCK_SIZE, size <= h.header[b].size
  PROVE  Divided(heap_split_block(h, b, size), h, L, U, b, size, b + size)
<1> DEFINE old == h.header[b].size
           new == b + size
           rest == (old - size) % U64
           q == heap_split_block(h, b, size)
           r == [size |-> old - size, free |-> FALSE, next |-> Nil, prev |-> b]
           w == Cut(h.header[b], size, new)
           h1 == [h EXCEPT !.header[new] = r, !.header[b] = w]
<1>1. h \in Heaps /\ Chain(h, L) /\ L \cap U = {} /\ Laid(h, L \cup U)
  BY DEF HeapSound
<1>2. \A a \in L \cup U : /\ a \in Nat /\ a # Nil /\ h.header[a].size \in Nat
                          /\ a + h.header[a].size \in Nat /\ a < a + h.header[a].size
  BY <1>1, LaidNats
<1>3. /\ b \in Address /\ b \in Nat /\ old \in Nat /\ b + old <= Top
      /\ h.header[b] \in Header /\ h.header[b].free = FALSE
  BY <1>1, <1>2 DEF Laid, HeapSound
<1>4. rest = old - size /\ old - size \in Nat
  <2>1. old - size \in Nat /\ old - size < U64 /\ U64 \in Nat
    BY <1>3, Addresses, HeapConstants
  <2> HIDE DEF old
  <2> QED
    BY <2>1
<1> HIDE DEF old
<1>5. CASE rest < MIN_BLOCK_SIZE
  <2>1. q = h
    BY <1>5 DEF heap_split_block, old
  <2> QED
    BY <2>1 DEF Divided
<1>6. CASE ~(rest < MIN_BLOCK_SIZE)
  <2>1. new \in Address /\ new \in Nat /\ b < new /\ new < b + old /\ new + (old - size) = b + old
        /\ old - size >= MIN_BLOCK_SIZE
    BY <1>3, <1>4, <1>6, Addresses DEF Address
  <2>2. q = heap_list_add(h1, new)
    <3>1. [h EXCEPT !.header[new] = [size |-> rest, free |-> FALSE, next |-> Nil, prev |-> b],
                    !.header[b].next = new, !.header[b].size = size] = h1
      <4>1. h.header[b] \in Header /\ new # b /\ b \in Address /\ new \in Address /\ h \in Heaps /\ rest = old - size
        BY <1>1, <1>3, <1>4, <2>1
      <4> QED
        BY <4>1 DEF Heaps, Cut
    <3> QED
      BY <3>1, <1>6 DEF heap_split_block, old
  <2>3. r \in Header /\ r.size = old - size /\ r.free = FALSE
    BY <1>3, <1>4 DEF Header
  <2>4. w \in Header /\ w.size = size /\ w.free = FALSE
    BY <1>3, <2>1 DEF Header, Cut
  <2> HIDE DEF r, w, rest
  <2>5. /\ h1 \in Heaps /\ h1.first = h.first
        /\ \A a \in Address : h1.header[a] = IF a = b THEN w ELSE IF a = new THEN r ELSE h.header[a]
    BY <1>1, <1>3, <2>1, <2>3, <2>4 DEF Heaps
  <2> HIDE DEF h1
  <2>6. \A a \in L \cup U : a # b => (b < a => b + old <= a) /\ (a < b => a + h.header[a].size <= b)
    BY <1>1 DEF Laid, old
  <2>7. new \notin L \cup U
    <3> SUFFICES ASSUME new \in L \cup U PROVE FALSE
      OBVIOUS
    <3>1. b + old <= new
      BY <2>1, <2>6, <1>3
    <3> QED
      BY <3>1, <2>1, <1>3
  <2>8. \A a \in L \cup U : a \in Address /\ a # new
    BY <1>1, <2>7 DEF Laid
  <2>9. h1.header[b] = w /\ h1.header[new] = r /\ \A a \in (L \cup U) \ {b} : h1.header[a] = h.header[a]
    BY <1>3, <2>1, <2>5, <2>8
  <2>10. \A a \in L : h1.header[a] = h.header[a]
    BY <1>1, <2>9
  <2>11. \A a \in U \cup {new} : h1.header[a] \in Header /\ h1.header[a].free = FALSE
    <3> TAKE a \in U \cup {new}
    <3>1. CASE a \in {b, new}
      BY <3>1, <2>3, <2>4, <2>9
    <3>2. CASE a \in U \ {b}
      BY <3>2, <2>9, <1>1 DEF Laid, HeapSound
    <3> QED
      BY <3>1, <3>2
  <2>12. \A a \in U \cup {new} : h1.header[a].size >= MIN_BLOCK_SIZE /\ a + h1.header[a].size <= Top
    <3> TAKE a \in U \cup {new}
    <3>1. CASE a = b
      <4>1. h1.header[a].size = size /\ b + size <= Top
        BY <3>1, <2>1, <2>4, <2>9, Addresses
      <4> QED
        BY <3>1, <4>1
    <3>2. CASE a = new
      BY <3>2, <2>1, <2>3, <2>9, <1>3
    <3>3. CASE a \in U \ {b}
      BY <3>3, <2>9, <1>1 DEF Laid
    <3> QED
      BY <3>1, <3>2, <3>3
  <2>13. ASSUME NEW a \in L \cup U \cup {new}, NEW c \in L \cup U \cup {new}, a < c
         PROVE  a + h1.header[a].size <= c
    <3>1. CASE a = new /\ c \in L \cup U
      <4>1. c # b /\ b < c
        BY <3>1, <2>1, <2>13, <1>2, <1>3
      <4>2. b + old <= c
        BY <4>1, <3>1, <2>6
      <4> QED
        BY <3>1, <4>2, <2>1, <2>3, <2>9
    <3>2. CASE a = b /\ c = new
      BY <3>2, <2>4, <2>9
    <3>3. CASE a = b /\ c \in L \cup U
      <4>1. b + old <= c
        BY <3>3, <2>6, <2>13, <1>2
      <4>2. new <= c
        BY <4>1, <3>3, <2>1, <1>2, <1>3
      <4> QED
        BY <3>3, <4>2, <2>4, <2>9
    <3>4. CASE a \in (L \cup U) \ {b} /\ c \in L \cup U
      BY <3>4, <2>9, <2>13, <1>1 DEF Laid
    <3>5. CASE a \in (L \cup U) \ {b} /\ c = new
      <4>1. h1.header[a].size = h.header[a].size /\ a \in Nat /\ h.header[a].size \in Nat
        BY <3>5, <2>9, <1>2
      <4>2. ~(b < a)
        <5> SUFFICES ASSUME b < a PROVE FALSE
          OBVIOUS
        <5>1. b + old <= a
          BY <3>5, <2>6
        <5> QED
          BY <5>1, <4>1, <3>5, <2>13, <2>1, <1>3
      <4>3. a < b
        BY <4>1, <4>2, <3>5, <1>3
      <4>4. a + h.header[a].size <= b
        BY <4>3, <3>5, <2>6
      <4> QED
        BY <4>1, <4>4, <3>5, <2>1, <1>3
    <3>6. ~(a = new /\ c = new)
      BY <2>13, <2>1
    <3> QED
      BY <3>1, <3>2, <3>3, <3>4, <3>5, <3>6
  <2>14. HeapSound(h1, L, U \cup {new})
    <3> HIDE DEF new
    <3> QED
      BY <2>1, <2>5, <2>7, <2>10, <2>11, <2>12, <2>13, NewSound
  <2>15. /\ HeapSound(q, L \cup {new}, (U \cup {new}) \ {new})
         /\ \A a \in L \cup (U \cup {new}) : q.header[a].size = h1.header[a].size
    <3> HIDE DEF new
    <3>1. new \in U \cup {new}
      OBVIOUS
    <3> HIDE DEF q
    <3>2. Added(heap_list_add(h1, new), h1, L, U \cup {new}, new)
      BY ONLY <2>14, <3>1, AddSound
    <3>3. Added(q, h1, L, U \cup {new}, new)
      BY ONLY <2>2, <3>2, Zenon
    <3> QED
      BY <3>3, Zenon DEF Added
  <2>16. (U \cup {new}) \ {new} = U
    BY <2>7
  <2>17. /\ q.header[b].size = size /\ q.header[new].size = old - size
         /\ \A a \in (L \cup U) \ {b} : q.header[a].size = h.header[a].size
    <3> HIDE DEF new, q
    <3> QED
      BY <2>15, <2>9, <2>3, <2>4
  <2> HIDE DEF q, new
  <2>18. /\ new \notin L \cup U
         /\ HeapSound(q, L \cup {new}, U)
         /\ q.header[b].size = size
         /\ q.header[new].size = h.header[b].size - size
         /\ \A a \in (L \cup U) \ {b} : q.header[a].size = h.header[a].size
    BY <2>7, <2>15, <2>16, <2>17 DEF old
  <2>19. Divided(q, h, L, U, b, size, new)
    BY <2>18, Zenon DEF Divided
  <2> QED
    BY <2>19 DEF q, new
<1> QED
  BY <1>5, <1>6

\* What is inside a block in use belongs to its caller.
LEMMA HandOutSound ==
  ASSUME NEW h, NEW L, NEW U, HeapSound(h, L, U), NEW b \in U
  PROVE  /\ HeapSound(HandOut(h, b), L, U)
         /\ \A a \in L \cup U : HandOut(h, b).header[a] = h.header[a]
<1> DEFINE q == HandOut(h, b)
           I == Extend(b, h.header[b].size) \ {b}
<1>1. h \in Heaps /\ Chain(h, L) /\ L \cap U = {} /\ Laid(h, L \cup U)
  BY DEF HeapSound
<1>2. /\ q \in Heaps /\ q.first = h.first
      /\ \A a \in Address : q.header[a] = IF a \in I THEN Nil ELSE h.header[a]
  BY <1>1 DEF HandOut, Heaps
<1> HIDE DEF q
<1>3. ASSUME NEW a \in L \cup U PROVE q.header[a] = h.header[a]
  <2>1. a \in Address
    BY <1>1 DEF Laid
  <2>2. a \in Nat /\ b \in Nat /\ h.header[b].size \in Nat
    BY <1>1, LaidNats
  <2>3. b < a => b + h.header[b].size <= a
    BY <1>1 DEF Laid
  <2>4. a \notin I
    BY <2>2, <2>3 DEF Extend
  <2> QED
    BY <1>2, <2>1, <2>4
<1>4. Chain(q, L)
  BY <1>1, <1>2, <1>3, ChainSame
<1>5. Laid(q, L \cup U)
  <2>1. \A a \in L \cup U : q.header[a] \in Header /\ q.header[a].size = h.header[a].size
    BY <1>1, <1>3 DEF Laid
  <2> QED
    BY <1>1, <2>1, LaidSame
<1>6. \A a \in U : q.header[a].free = FALSE
  BY <1>3 DEF HeapSound
<1>7. HeapSound(q, L, U)
  BY <1>1, <1>2, <1>4, <1>5, <1>6 DEF HeapSound
<1> QED
  BY <1>3, <1>7 DEF q

\* The blocks B in the form the next lemmas use.
InPlace(h, B) ==
    /\ \A a \in B : /\ a \in Address /\ a \in Nat /\ a # Nil /\ h.header[a] \in Header
                    /\ h.header[a].size \in Nat /\ h.header[a].size >= MIN_BLOCK_SIZE
                    /\ a + h.header[a].size \in Nat /\ a < a + h.header[a].size
                    /\ a + h.header[a].size <= Top
    /\ \A a, c \in B : a < c => a + h.header[a].size <= c

LEMMA SoundFacts ==
  ASSUME NEW h, NEW L, NEW U, HeapSound(h, L, U)
  PROVE  h \in Heaps /\ Chain(h, L) /\ L \cap U = {} /\ InPlace(h, L \cup U)
<1>1. h \in Heaps /\ Chain(h, L) /\ L \cap U = {} /\ Laid(h, L \cup U)
  BY DEF HeapSound
<1>2. \A a \in L \cup U : /\ a \in Nat /\ a # Nil /\ h.header[a].size \in Nat
                          /\ a + h.header[a].size \in Nat /\ a < a + h.header[a].size
  BY <1>1, LaidNats
<1> QED
  BY <1>1, <1>2 DEF Laid, InPlace

\* A block that is cut, and its rest, hold what the block held.
LEMMA CutOwns ==
  ASSUME NEW h, NEW B, NEW b \in B, NEW size \in Nat, size <= h.header[b].size,
         \A a \in B : a \in Nat /\ h.header[a].size \in Nat,
         NEW q, q.header[b].size = size, q.header[b + size].size = h.header[b].size - size,
         b + size \notin B, \A a \in B \ {b} : q.header[a].size = h.header[a].size,
         NEW x \in Nat
  PROVE  Owns(q, B \cup {b + size}, x) <=> Owns(h, B, x)
<1> DEFINE new == b + size
           old == h.header[b].size
<1>1. b \in Nat /\ old \in Nat /\ new \in Nat /\ old - size \in Nat /\ new + (old - size) = b + old
  OBVIOUS
<1>2. q.header[new].size = old - size /\ q.header[b].size = size
  OBVIOUS
<1>3. ASSUME NEW a \in B \cup {new}, a <= x, x < a + q.header[a].size PROVE Owns(h, B, x)
  <2>1. CASE a \in B \ {b}
    BY <2>1, <1>3 DEF Owns
  <2>2. CASE a \in {b, new}
    <3>1. b <= x /\ x < b + old
      BY <2>2, <1>1, <1>2, <1>3
    <3> QED
      BY <3>1 DEF Owns
  <2> QED
    BY <2>1, <2>2
<1>4. ASSUME NEW a \in B, a <= x, x < a + h.header[a].size PROVE Owns(q, B \cup {new}, x)
  <2>1. CASE a # b
    <3>1. a \in B \cup {new} /\ q.header[a].size = h.header[a].size
      BY <2>1
    <3> QED
      BY <3>1, <1>4 DEF Owns
  <2>2. CASE a = b /\ x < new
    <3>1. b \in B \cup {new} /\ b <= x /\ x < b + q.header[b].size
      BY <2>2, <1>2, <1>4
    <3> QED
      BY <3>1 DEF Owns
  <2>3. CASE a = b /\ ~(x < new)
    <3>1. new \in B \cup {new} /\ new <= x /\ x < new + q.header[new].size
      BY <2>3, <1>1, <1>2, <1>4
    <3> HIDE DEF new
    <3> QED
      BY <3>1 DEF Owns
  <2> QED
    BY <2>1, <2>2, <2>3
<1> HIDE DEF new
<1>5. Owns(q, B \cup {new}, x) <=> Owns(h, B, x)
  BY <1>3, <1>4 DEF Owns
<1> QED
  BY <1>5 DEF new

LEMMA SameOwns ==
  ASSUME NEW h, NEW q, NEW B, \A a \in B : q.header[a].size = h.header[a].size, NEW x
  PROVE  Owns(q, B, x) <=> Owns(h, B, x)
  BY DEF Owns

\* The rest of kmalloc, once a free block has been found.
Taken(h, b, n) == HandOut(heap_split_block(heap_list_remove(h, b), b, n + HEADER_SIZE), b)

LEMMA TakeKeeps ==
  ASSUME NEW h, NEW L, NEW U, HeapSound(h, L, U), NEW b \in L, NEW n \in Nat \ {0},
         n + HEADER_SIZE <= h.header[b].size
  PROVE  \E K :
           /\ HeapSound(Taken(h, b, n), K, U \cup {b})
           /\ Taken(h, b, n).header[b].size >= n + HEADER_SIZE
           /\ \A a \in U : Taken(h, b, n).header[a].size = h.header[a].size
           /\ \A x \in Nat : Owns(Taken(h, b, n), K \cup (U \cup {b}), x) <=> Owns(h, L \cup U, x)
           /\ \A D : Parted(h, L, D) => Parted(Taken(h, b, n), K, D)
<1> DEFINE size == n + HEADER_SIZE
           h1 == heap_list_remove(h, b)
           h2 == heap_split_block(h1, b, size)
           q == HandOut(h2, b)
           V == U \cup {b}
           M == L \ {b}
           new == b + size
<1>1. /\ L \cap U = {}
      /\ \A a \in L \cup U : /\ a \in Nat /\ h.header[a].size \in Nat
                             /\ a + h.header[a].size \in Nat /\ a < a + h.header[a].size
      /\ \A a, c \in L \cup U : a < c => a + h.header[a].size <= c
  <2>1. L \cap U = {} /\ InPlace(h, L \cup U)
    BY SoundFacts
  <2> QED
    BY <2>1 DEF InPlace
<1>2. size \in Nat /\ size >= MIN_BLOCK_SIZE /\ size > 0
  BY HeapConstants DEF MIN_BLOCK_SIZE
<1>3. HeapSound(h1, M, V) /\ \A a \in L \cup U : h1.header[a].size = h.header[a].size
  <2>1. Removed(h1, h, L, U, b)
    BY RemoveSound
  <2> QED
    BY <2>1, Zenon DEF Removed
<1>4. M \cup V = L \cup U /\ b \in V
  BY <1>1
<1>5. h1.header[b].size = h.header[b].size
  BY <1>3
<1>6. Taken(h, b, n) = q
  BY DEF Taken
<1> HIDE DEF h1, size
<1>7. \/ h2 = h1
      \/ /\ new \notin M \cup V
         /\ HeapSound(h2, M \cup {new}, V)
         /\ h2.header[b].size = size
         /\ h2.header[new].size = h1.header[b].size - size
         /\ \A a \in (M \cup V) \ {b} : h2.header[a].size = h1.header[a].size
  <2>1. size <= h1.header[b].size
    BY <1>5 DEF size
  <2> HIDE DEF M, V
  <2>2. Divided(h2, h1, M, V, b, size, new)
    BY ONLY <1>2, <1>3, <1>4, <2>1, CutKeeps
  <2> HIDE DEF h2, new
  <2> QED
    BY <2>2, Zenon DEF Divided
<1> HIDE DEF h2, M, V
<1>8. CASE h2 = h1
  <2>1. HeapSound(q, M, V) /\ \A a \in M \cup V : q.header[a] = h1.header[a]
    BY <1>3, <1>4, <1>8, HandOutSound
  <2> HIDE DEF q
  <2>2. \A a \in L \cup U : q.header[a].size = h.header[a].size
    BY <2>1, <1>3, <1>4
  <2>3. \A x \in Nat : Owns(q, M \cup V, x) <=> Owns(h, L \cup U, x)
    BY <2>2, <1>4, SameOwns
  <2>4. ASSUME NEW D, Parted(h, L, D) PROVE Parted(q, M, D)
    BY <2>2, <2>4 DEF Parted, M
  <2>5. q.header[b].size >= size
    BY <2>2, <1>1 DEF size
  <2>6. \A a \in U : q.header[a].size = h.header[a].size
    BY <2>2
  <2> QED
    BY <2>1, <2>3, <2>4, <2>5, <2>6, <1>6 DEF V, size
<1>9. CASE h2 # h1
  <2>1. /\ new \notin M \cup V
        /\ HeapSound(h2, M \cup {new}, V)
        /\ h2.header[b].size = size
        /\ h2.header[new].size = h1.header[b].size - size
        /\ \A a \in (M \cup V) \ {b} : h2.header[a].size = h1.header[a].size
    BY <1>7, <1>9
  <2> DEFINE K == M \cup {new}
             old == h.header[b].size
  <2>2. HeapSound(q, K, V) /\ \A a \in K \cup V : q.header[a] = h2.header[a]
    BY <2>1, <1>4, HandOutSound
  <2> HIDE DEF q
  <2>3. /\ q.header[b].size = size
        /\ q.header[new].size = old - size
        /\ \A a \in (L \cup U) \ {b} : q.header[a].size = h.header[a].size
    BY <2>1, <2>2, <1>3, <1>4, <1>5
  <2>4. new \notin L \cup U /\ K \cup V = (L \cup U) \cup {new}
    BY <2>1, <1>4
  <2>5. \A x \in Nat : Owns(q, K \cup V, x) <=> Owns(h, L \cup U, x)
    <3> DEFINE B == L \cup U
    <3>1. b \in B /\ size <= h.header[b].size /\ size \in Nat
      BY <1>2 DEF size
    <3>2. \A a \in B : a \in Nat /\ h.header[a].size \in Nat
      BY <1>1
    <3>3. q.header[b].size = size /\ q.header[b + size].size = h.header[b].size - size
      BY <2>3
    <3>4. b + size \notin B /\ \A a \in B \ {b} : q.header[a].size = h.header[a].size
      BY <2>3, <2>4
    <3>5. K \cup V = B \cup {b + size}
      BY <2>4
    <3> HIDE DEF B
    <3>6. \A x \in Nat : Owns(q, B \cup {b + size}, x) <=> Owns(h, B, x)
      BY ONLY <3>1, <3>2, <3>3, <3>4, CutOwns
    <3> HIDE DEF K
    <3> QED
      BY ONLY <3>5, <3>6, Zenon DEF B
  <2>6. /\ b \in Nat /\ old \in Nat /\ new \in Nat /\ b < new /\ size <= old /\ new <= b + old
        /\ new + (old - size) = b + old
    BY <1>1, <1>2 DEF size
  <2>7. ASSUME NEW D, Parted(h, L, D) PROVE Parted(q, K, D)
    <3> SUFFICES ASSUME NEW c \in K, c + q.header[c].size \in K PROVE c + q.header[c].size \in D
      BY DEF Parted
    <3>1. CASE c = new
      <4>1. c + q.header[c].size = b + old
        BY <3>1, <2>3, <2>6
      <4>2. b + old # new
        <5>1. c < c + q.header[c].size
          <6>1. InPlace(q, K \cup V)
            BY <2>2, SoundFacts
          <6> QED
            BY <6>1, c \in K \cup V DEF InPlace
        <5> QED
          BY <5>1, <4>1, <3>1, <2>6
      <4>3. b + old \in L
        BY <4>1, <4>2 DEF M
      <4> QED
        BY <4>1, <4>3, <2>7 DEF Parted
    <3>2. CASE c # new
      <4>1. c \in L /\ c # b /\ c + q.header[c].size = c + h.header[c].size /\ c \in Nat
        BY <3>2, <2>3, <1>1 DEF M
      <4>2. c + h.header[c].size # new
        <5>1. CASE c < b
          <6>1. c + h.header[c].size <= b
            BY <5>1, <4>1, <1>1
          <6> QED
            BY <6>1, <4>1, <2>6, <1>1
        <5>2. CASE b < c
          <6>1. b + old <= c /\ c < c + h.header[c].size
            BY <5>2, <4>1, <1>1
          <6> QED
            BY <6>1, <4>1, <2>6, <1>1
        <5> QED
          BY <5>1, <5>2, <4>1, <2>6
      <4>3. c + h.header[c].size \in L
        BY <4>1, <4>2 DEF M
      <4> QED
        BY <4>1, <4>3, <2>7 DEF Parted
    <3> QED
      BY <3>1, <3>2
  <2>8. q.header[b].size >= size
    BY <2>3, <1>2
  <2>9. \A a \in U : q.header[a].size = h.header[a].size
    BY <2>3, <1>1
  <2> HIDE DEF K
  <2> QED
    BY <2>2, <2>5, <2>7, <2>8, <2>9, <1>6 DEF V, size
<1> QED
  BY <1>8, <1>9

\* The state after Absorb: the block behind b is no longer one of its own.
Absorbed(q, h, L, U, b) ==
    LET n == b + h.header[b].size
    IN  /\ HeapSound(q, L \ {n}, U)
        /\ b # n
        /\ \A a \in U : q.header[a].size = h.header[a].size
        /\ \A x \in Nat : Owns(q, (L \ {n}) \cup U, x) <=> Owns(h, L \cup U, x)
        /\ \A D : Parted(h, L, D) => Parted(q, L \ {n}, D \ {n})

LEMMA AbsorbKeeps ==
  ASSUME NEW h, NEW L, NEW U, HeapSound(h, L, U), NEW b \in L
  PROVE  Absorbed(Absorb(h, b), h, L, U, b)
<1> DEFINE n == b + h.header[b].size
           q == Absorb(h, b)
<1>1. /\ L \cap U = {}
      /\ \A a \in L \cup U : /\ a \in Nat /\ h.header[a].size \in Nat
                             /\ a + h.header[a].size \in Nat /\ a < a + h.header[a].size
      /\ \A a, c \in L \cup U : a < c => a + h.header[a].size <= c
  <2>1. L \cap U = {} /\ InPlace(h, L \cup U)
    BY SoundFacts
  <2> QED
    BY <2>1 DEF InPlace
<1>2. Joined(q, h, L, U, b, n)
  BY AbsorbSound
<1>3. n \in Nat /\ b \in Nat /\ b < n /\ b # n
  BY <1>1
<1> HIDE DEF q
<1>4. CASE n \notin L
  <2> HIDE DEF n
  <2>1. q = h /\ L \ {n} = L
    BY <1>2, <1>4 DEF Joined
  <2>2. ASSUME NEW D, Parted(h, L, D) PROVE Parted(q, L \ {n}, D \ {n})
    BY <2>1, <2>2, <1>4 DEF Parted
  <2>3. HeapSound(q, L \ {n}, U)
    BY <2>1
  <2>4. \A x \in Nat : Owns(q, (L \ {n}) \cup U, x) <=> Owns(h, L \cup U, x)
    BY <2>1
  <2> QED
    BY <1>3, <2>1, <2>2, <2>3, <2>4 DEF Absorbed, n, q
<1>5. CASE n \in L
  <2> DEFINE K == L \ {n}
             B == K \cup U
             m == h.header[n].size
             w == h.header[b].size
  <2>1. /\ HeapSound(q, K, U)
        /\ q.header[b].size = w + m
        /\ \A a \in (L \cup U) \ {b, n} : q.header[a].size = h.header[a].size
    <3> HIDE DEF n
    <3> QED
      BY <1>2, <1>5 DEF Joined
  <2>2. /\ w \in Nat /\ m \in Nat /\ n + m \in Nat /\ n < n + m
        /\ q.header[b].size \in Nat /\ b + q.header[b].size = n + m
    BY <1>1, <1>3, <1>5, <2>1
  <2>3. B \cup {n} = L \cup U /\ n \notin B /\ b \in B /\ \A a \in B \ {b} : a \in (L \cup U) \ {b, n}
    BY <1>1, <1>3, <1>5
  <2>4. \A a \in U : q.header[a].size = h.header[a].size
    BY <2>1, <2>3, <1>1
  <2>5. ASSUME NEW x \in Nat PROVE Owns(q, B, x) <=> Owns(h, L \cup U, x)
    <3>1. \A a \in B : a \in Nat /\ q.header[a].size \in Nat
      BY <2>1, <2>2, <2>3, <1>1
    <3>2. w <= q.header[b].size /\ h.header[b].size = w /\ n = b + w
      BY <2>1, <2>2
    <3>3. h.header[n].size = q.header[b].size - w
      BY <2>1, <2>2
    <3>4. \A a \in B \ {b} : h.header[a].size = q.header[a].size
      BY <2>1, <2>3
    <3>5. b \in B /\ n \notin B /\ x \in Nat /\ w \in Nat
      BY <2>2, <2>3
    <3> HIDE DEF B, K, w, m, n
    <3>6. Owns(h, B \cup {n}, x) <=> Owns(q, B, x)
      <4>1. b + w \notin B /\ h.header[b + w].size = q.header[b].size - w
        BY ONLY <3>2, <3>3, <3>5
      <4>2. Owns(h, B \cup {b + w}, x) <=> Owns(q, B, x)
        BY ONLY <3>1, <3>2, <3>4, <3>5, <4>1, CutOwns
      <4> QED
        BY ONLY <3>2, <4>2
    <3> QED
      BY <3>6, <2>3
  <2>6. ASSUME NEW D, Parted(h, L, D) PROVE Parted(q, K, D \ {n})
    <3> SUFFICES ASSUME NEW c \in K, c + q.header[c].size \in K PROVE c + q.header[c].size \in D \ {n}
      BY DEF Parted
    <3>1. CASE c = b
      <4>1. c + q.header[c].size = n + m
        BY <3>1, <2>2
      <4> QED
        BY <4>1, <2>6, <1>5 DEF Parted
    <3>2. CASE c # b
      <4>1. q.header[c].size = h.header[c].size
        BY <3>2, <2>1
      <4> QED
        BY <4>1, <2>6 DEF Parted
    <3> QED
      BY <3>1, <3>2
  <2> HIDE DEF n
  <2> QED
    BY <1>3, <2>1, <2>4, <2>5, <2>6 DEF Absorbed, n, q
<1> QED
  BY <1>4, <1>5

LEMMA PartedAt ==
  ASSUME NEW h, NEW L, NEW D, NEW E, Parted(h, L, D),
         \A b \in L : b + h.header[b].size \in D => b + h.header[b].size \in E
  PROVE  Parted(h, L, E)
  BY DEF Parted

\* kfree: the block is linked in and merged with its neighbours.
Freed(h, b) == coalesce(heap_list_add(h, b), b)

LEMMA FreeSound ==
  ASSUME NEW h, NEW L, NEW U, HeapSound(h, L, U), NEW b \in U
  PROVE  \E K :
           /\ HeapSound(Freed(h, b), K, U \ {b})
           /\ \A a \in U \ {b} : Freed(h, b).header[a].size = h.header[a].size
           /\ \A x \in Nat : Owns(Freed(h, b), K \cup (U \ {b}), x) <=> Owns(h, L \cup U, x)
           /\ \A D : Parted(h, L, D) => Parted(Freed(h, b), K, D)
<1> DEFINE V == U \ {b}
           h1 == heap_list_add(h, b)
           L1 == L \cup {b}
           n == b + h1.header[b].size
           h2 == Absorb(h1, b)
           L2 == L1 \ {n}
           p == h2.header[b].prev
           joins == p # Nil /\ h2.header[p].free /\ p + h2.header[p].size = b
           q == IF joins THEN Absorb(h2, p) ELSE h2
<1>1. Freed(h, b) = q
  BY DEF Freed, coalesce
<1>2. /\ L \cap U = {}
      /\ \A a \in L \cup U : /\ a \in Nat /\ h.header[a].size \in Nat
                             /\ a + h.header[a].size \in Nat /\ a < a + h.header[a].size
  <2>1. L \cap U = {} /\ InPlace(h, L \cup U)
    BY SoundFacts
  <2> QED
    BY <2>1 DEF InPlace
<1>3. /\ HeapSound(h1, L1, V)
      /\ \A a \in L \cup U : h1.header[a].size = h.header[a].size
  <2>1. Added(h1, h, L, U, b)
    BY AddSound
  <2> QED
    BY <2>1, Zenon DEF Added
<1>4. L1 \cup V = L \cup U /\ b \in L1
  BY <1>2
<1> HIDE DEF h1, L1, V
<1>5. ASSUME NEW D, Parted(h, L, D) PROVE Parted(h1, L1, D \cup {b, n})
  <2> SUFFICES ASSUME NEW c \in L1, c + h1.header[c].size \in L1
               PROVE  c + h1.header[c].size \in D \cup {b, n}
    BY DEF Parted
  <2>1. CASE c = b
    BY <2>1
  <2>2. CASE c # b
    <3>1. c \in L /\ h1.header[c].size = h.header[c].size
      BY <2>2, <1>3 DEF L1
    <3> QED
      BY <3>1, <1>5 DEF Parted, L1
  <2> QED
    BY <2>1, <2>2
<1>6. Absorbed(h2, h1, L1, V, b)
  BY ONLY <1>3, <1>4, AbsorbKeeps
<1> HIDE DEF h2
<1>7. /\ HeapSound(h2, L2, V)
      /\ b # n
      /\ \A a \in V : h2.header[a].size = h1.header[a].size
      /\ \A x \in Nat : Owns(h2, L2 \cup V, x) <=> Owns(h1, L1 \cup V, x)
      /\ \A D : Parted(h1, L1, D) => Parted(h2, L2, D \ {n})
  BY <1>6 DEF Absorbed
<1> HIDE DEF n
<1>8. b \in L2
  BY <1>4, <1>7
<1>9. \A x \in Nat : Owns(h2, L2 \cup V, x) <=> Owns(h, L \cup U, x)
  <2> TAKE x \in Nat
  <2>1. Owns(h1, L1 \cup V, x) <=> Owns(h, L1 \cup V, x)
    <3>1. \A a \in L1 \cup V : h1.header[a].size = h.header[a].size
      BY <1>3, <1>4
    <3> QED
      BY ONLY <3>1, SameOwns
  <2> QED
    BY <2>1, <1>4, <1>7
<1>10. \A a \in V : h2.header[a].size = h.header[a].size
  BY <1>3, <1>7, <1>4
<1>11. ASSUME NEW D, Parted(h, L, D) PROVE Parted(h2, L2, D \cup {b})
  <2>1. Parted(h2, L2, (D \cup {b, n}) \ {n})
    BY <1>5, <1>7, <1>11
  <2> HIDE DEF L2
  <2> QED
    BY <2>1, PartedAt
<1> HIDE DEF L2
<1>12. /\ Chain(h2, L2)
       /\ \A a \in L2 : /\ a \in Nat /\ h2.header[a].size \in Nat /\ a # Nil
                        /\ a + h2.header[a].size \in Nat /\ a < a + h2.header[a].size
       /\ \A a, c \in L2 : a < c => a + h2.header[a].size <= c
  <2>1. Chain(h2, L2) /\ InPlace(h2, L2 \cup V)
    BY <1>7, SoundFacts
  <2> QED
    BY <2>1 DEF InPlace
<1>13. Precedes(L2, b, p) /\ \A a \in L2 : h2.header[a].free
  BY <1>8, <1>12 DEF Chain
<1>14. CASE joins
  <2>1. p \in L2
    BY <1>13, <1>14 DEF Precedes
  <2>2. q = Absorb(h2, p)
    BY <1>14
  <2>3. Absorbed(q, h2, L2, V, p)
    BY ONLY <2>1, <2>2, <1>7, AbsorbKeeps
  <2> HIDE DEF q, p
  <2>4. p + h2.header[p].size = b
    BY <1>14
  <2>5. /\ HeapSound(q, L2 \ {b}, V)
        /\ \A a \in V : q.header[a].size = h2.header[a].size
        /\ \A x \in Nat : Owns(q, (L2 \ {b}) \cup V, x) <=> Owns(h2, L2 \cup V, x)
        /\ \A D : Parted(h2, L2, D) => Parted(q, L2 \ {b}, D \ {b})
    BY <2>3, <2>4 DEF Absorbed
  <2> DEFINE K == L2 \ {b}
  <2>6. ASSUME NEW D, Parted(h, L, D) PROVE Parted(q, K, D)
    <3>1. Parted(q, K, (D \cup {b}) \ {b})
      BY <1>11, <2>5, <2>6
    <3> HIDE DEF K
    <3> QED
      BY <3>1, PartedAt
  <2>7. \A x \in Nat : Owns(q, K \cup V, x) <=> Owns(h, L \cup U, x)
    BY <2>5, <1>9
  <2>8. \A a \in V : q.header[a].size = h.header[a].size
    BY <2>5, <1>10
  <2>9. HeapSound(q, K, V)
    BY <2>5
  <2> HIDE DEF K
  <2> QED
    BY <2>6, <2>7, <2>8, <2>9, <1>1 DEF V
<1>15. CASE ~joins
  <2>1. q = h2
    BY <1>15
  <2>2. ASSUME NEW c \in L2, c + h2.header[c].size = b PROVE FALSE
    <3>1. c \in Nat /\ c < b /\ b \in Nat
      BY <2>2, <1>8, <1>12
    <3>2. p # Nil
      BY <3>1, <1>13 DEF Precedes
    <3>3. p \in L2 /\ p < b /\ c <= p
      BY <3>1, <3>2, <1>13 DEF Precedes
    <3>4. ~(c < p)
      <4> SUFFICES ASSUME c < p PROVE FALSE
        OBVIOUS
      <4>1. c + h2.header[c].size <= p
        BY <3>3, <1>12
      <4>2. p \in Nat
        BY <3>3, <1>12
      <4>3. b <= p
        BY <4>1, <2>2
      <4> HIDE DEF p
      <4> QED
        BY ONLY <4>2, <4>3, <3>1, <3>3
    <3>5. c = p
      <4>1. p \in Nat
        BY <3>3, <1>12
      <4> HIDE DEF p
      <4> QED
        BY ONLY <4>1, <3>1, <3>3, <3>4
    <3> QED
      BY <3>2, <3>3, <3>5, <2>2, <1>13, <1>15
  <2> HIDE DEF joins, p, q
  <2>3. ASSUME NEW D, Parted(h, L, D) PROVE Parted(q, L2, D)
    <3>1. Parted(h2, L2, D \cup {b})
      BY <1>11, <2>3
    <3> QED
      BY <3>1, <2>1, <2>2, PartedAt
  <2> QED
    BY <1>1, <1>7, <1>9, <1>10, <2>1, <2>3 DEF V
<1> QED
  BY <1>14, <1>15

\* find_free_block finds a free block of the size, or nothing.
LEMMA FindIs ==
  ASSUME NEW h \in Heaps, NEW L, Chain(h, L), Spaced(L), NEW size \in Nat,
         find_free_block(h, size) # Nil
  PROVE  find_free_block(h, size) \in L /\ h.header[find_free_block(h, size)].size >= size
<1> DEFINE list == FreeList(h)
           fit == {i \in DOMAIN list : h.header[list[i]].free /\ h.header[list[i]].size >= size}
           sizes == {h.header[list[i]].size : i \in fit}
           best == {i \in fit : \A k \in fit : h.header[list[i]].size <= h.header[list[k]].size}
           m == Min(best)
<1>1. PICK k \in Nat :
        /\ list = [i \in 1 .. k |-> list[i]]
        /\ \A i \in 1 .. k : list[i] \in L
        /\ \A i, j \in 1 .. k : i < j => list[i] < list[j]
        /\ \A c \in L : \E i \in 1 .. k : list[i] = c
  BY FreeListIs
<1>2. find_free_block(h, size) = list[m] /\ fit # {}
  BY DEF find_free_block
<1> HIDE DEF list
<1>3. DOMAIN list = 1 .. k
  BY <1>1
<1>4. \A i \in fit : h.header[list[i]].size \in Nat
  <2> TAKE i \in fit
  <2>1. list[i] \in L
    BY <1>1, <1>3
  <2>2. h.header[list[i]] \in Header
    BY <2>1 DEF Chain
  <2> QED
    BY <2>2 DEF Header
<1>5. best # {}
  <2>1. sizes \subseteq Nat /\ sizes # {}
    BY <1>2, <1>4
  <2>2. \E w \in sizes : \A t \in sizes : w <= t
    <3> HIDE DEF sizes
    <3> QED
      BY <2>1, Walk!LeastMember
  <2>3. PICK i \in fit : \A t \in sizes : h.header[list[i]].size <= t
    BY <2>2
  <2>4. i \in best
    BY <2>3
  <2> QED
    BY <2>4
<1>6. best \subseteq Nat /\ best \subseteq fit
  BY <1>3
<1>7. m \in best
  <2> HIDE DEF best
  <2>1. \E i \in best : \A j \in best : i <= j
    BY <1>5, <1>6, Walk!LeastMember
  <2> QED
    BY <2>1 DEF Min
<1>8. m \in fit
  BY <1>6, <1>7
<1> QED
  BY <1>1, <1>2, <1>3, <1>8

\* Memory from the PMM becomes a block of the list.
Expanded(h, start) ==
    heap_list_add([h EXCEPT !.header[start] =
                    [size |-> ExpandSize, free |-> FALSE, next |-> Nil, prev |-> Nil]], start)

Grown(q, h, L, U, start) ==
    /\ HeapSound(q, L \cup {start}, U)
    /\ start \notin L \cup U
    /\ \A a \in L \cup U : q.header[a].size = h.header[a].size
    /\ q.header[start].size = ExpandSize

LEMMA ExpandSound ==
  ASSUME NEW h, NEW L, NEW U, HeapSound(h, L, U), NEW start \in Address,
         ExpandSize \in Nat, ExpandSize >= MIN_BLOCK_SIZE, start + ExpandSize <= Top,
         \A x \in Nat : start <= x /\ x < start + ExpandSize => ~Owns(h, L \cup U, x)
  PROVE  Grown(Expanded(h, start), h, L, U, start)
<1> DEFINE r == [size |-> ExpandSize, free |-> FALSE, next |-> Nil, prev |-> Nil]
           h1 == [h EXCEPT !.header[start] = r]
           q == heap_list_add(h1, start)
<1>1. h \in Heaps /\ InPlace(h, L \cup U) /\ L \cap U = {}
  BY SoundFacts
<1>2. \A a \in L \cup U : /\ a \in Address /\ a \in Nat /\ h.header[a] \in Header
                          /\ h.header[a].size \in Nat /\ h.header[a].size >= MIN_BLOCK_SIZE
                          /\ a + h.header[a].size \in Nat /\ a < a + h.header[a].size
                          /\ a + h.header[a].size <= Top
  BY <1>1 DEF InPlace
<1>3. r \in Header /\ r.size = ExpandSize /\ r.free = FALSE
  BY DEF Header
<1> HIDE DEF r
<1>4. /\ h1 \in Heaps /\ h1.first = h.first
      /\ \A a \in Address : h1.header[a] = IF a = start THEN r ELSE h.header[a]
  BY <1>1, <1>3 DEF Heaps
<1>5. Expanded(h, start) = q
  BY DEF Expanded, r
<1> HIDE DEF h1
<1>6. start \in Nat /\ start <= start /\ start < start + ExpandSize
  BY Addresses
<1>7. ~Owns(h, L \cup U, start)
  BY <1>6
<1>8. ASSUME NEW a \in L \cup U PROVE a # start /\ (a < start => a + h.header[a].size <= start)
                                      /\ (start < a => start + ExpandSize <= a)
  <2>1. ~(a <= start /\ start < a + h.header[a].size)
    BY <1>7 DEF Owns
  <2>2. Owns(h, L \cup U, a)
    BY <1>2 DEF Owns
  <2>3. ~(start <= a /\ a < start + ExpandSize)
    BY <1>2, <2>2
  <2> QED
    BY <1>2, <1>6, <2>1, <2>3
<1>9. \A a \in L \cup U : h1.header[a] = h.header[a]
  BY <1>2, <1>4, <1>8
<1>10. h1.header[start] = r
  BY <1>4
<1>11. start \notin L \cup U
  BY <1>8
<1>12. \A a \in U \cup {start} : h1.header[a] \in Header /\ h1.header[a].free = FALSE
  <2>1. \A a \in U : h.header[a].free = FALSE
    BY DEF HeapSound
  <2> QED
    BY <2>1, <1>2, <1>3, <1>9, <1>10
<1>13. \A a \in U \cup {start} : h1.header[a].size >= MIN_BLOCK_SIZE /\ a + h1.header[a].size <= Top
  BY <1>2, <1>3, <1>9, <1>10
<1>14. ASSUME NEW a \in L \cup U \cup {start}, NEW c \in L \cup U \cup {start}, a < c
       PROVE  a + h1.header[a].size <= c
  <2>1. CASE a = start /\ c = start
    BY <2>1, <1>6, <1>14
  <2>2. CASE a = start /\ c \in L \cup U
    BY <2>2, <1>3, <1>8, <1>10, <1>14
  <2>3. CASE a \in L \cup U /\ c = start
    BY <2>3, <1>8, <1>9, <1>14
  <2>4. CASE a \in L \cup U /\ c \in L \cup U
    BY <2>4, <1>1, <1>9, <1>14 DEF InPlace
  <2> QED
    BY <2>1, <2>2, <2>3, <2>4
<1>15. \A a \in L : h1.header[a] = h.header[a]
  BY <1>9
<1>16. HeapSound(h1, L, U \cup {start})
  BY <1>4, <1>11, <1>12, <1>13, <1>14, <1>15, NewSound
<1>17. /\ HeapSound(q, L \cup {start}, (U \cup {start}) \ {start})
       /\ \A a \in L \cup (U \cup {start}) : q.header[a].size = h1.header[a].size
  <2>1. start \in U \cup {start}
    OBVIOUS
  <2>2. Added(q, h1, L, U \cup {start}, start)
    BY ONLY <1>16, <2>1, AddSound
  <2> HIDE DEF q
  <2> QED
    BY <2>2, Zenon DEF Added
<1> HIDE DEF q
<1>18. (U \cup {start}) \ {start} = U
  BY <1>11
<1>19. HeapSound(q, L \cup {start}, U)
  BY <1>17, <1>18
<1>20. \A a \in L \cup U : q.header[a].size = h.header[a].size
  BY <1>9, <1>17
<1>21. q.header[start].size = ExpandSize
  BY <1>3, <1>10, <1>17
<1> QED
  BY <1>5, <1>11, <1>19, <1>20, <1>21 DEF Grown

-----------------------------------------------------------------------------
(* Heap: the units of the blocks in use, counted. *)

Held(h, B) == {x \in Address : Owns(h, B, x)}

LEMMA HeldFinite ==
  ASSUME NEW h, NEW B
  PROVE  IsFiniteSet(Held(h, B)) /\ Cardinality(Held(h, B)) \in Nat
<1>1. IsFiniteSet(Address)
  BY HeapConstants, FS_Interval DEF Address
<1>2. Held(h, B) \subseteq Address
  BY DEF Held
<1> QED
  BY <1>1, <1>2, FS_Subset, FS_CardinalityType

LEMMA HeldSame ==
  ASSUME NEW h, NEW q, NEW B, \A a \in B : q.header[a].size = h.header[a].size
  PROVE  Held(q, B) = Held(h, B)
  BY SameOwns DEF Held

LEMMA HeldOneMore ==
  ASSUME NEW h, NEW B, NEW b, b \notin B, InPlace(h, B \cup {b})
  PROVE  Cardinality(Held(h, B \cup {b})) = Cardinality(Held(h, B)) + h.header[b].size
<1> DEFINE w == h.header[b].size
           E == b .. b + w - 1
<1>1. /\ b \in Nat /\ w \in Nat /\ b < b + w /\ b + w <= Top
      /\ \A a \in B : /\ a \in Nat /\ h.header[a].size \in Nat
                      /\ (a < b => a + h.header[a].size <= b) /\ (b < a => b + w <= a)
  <2>1. b \in B \cup {b} /\ \A a \in B : a \in B \cup {b}
    OBVIOUS
  <2>2. b \in Nat /\ w \in Nat /\ b < b + w /\ b + w <= Top
    BY <2>1 DEF InPlace
  <2>3. \A a \in B : a \in Nat /\ h.header[a].size \in Nat
    BY <2>1 DEF InPlace
  <2>4. \A a \in B : (a < b => a + h.header[a].size <= b) /\ (b < a => b + w <= a)
    BY <2>1, Zenon DEF InPlace
  <2> QED
    BY <2>2, <2>3, <2>4
<1>2. IsFiniteSet(E) /\ Cardinality(E) = w
  <2>1. b \in Int /\ b + w - 1 \in Int /\ b <= b + w - 1 /\ (b + w - 1) - b + 1 = w
    BY <1>1
  <2> HIDE DEF w
  <2> QED
    BY <2>1, FS_Interval
<1>3. Held(h, B) \cap E = {}
  <2> SUFFICES ASSUME NEW x \in Held(h, B), x \in E PROVE FALSE
    OBVIOUS
  <2>1. PICK a \in B : a <= x /\ x < a + h.header[a].size
    BY DEF Held, Owns
  <2>2. x \in Nat /\ b <= x /\ x < b + w
    BY <1>1
  <2>3. a # b
    OBVIOUS
  <2> QED
    BY <1>1, <2>1, <2>2, <2>3
<1>4. Held(h, B \cup {b}) = Held(h, B) \cup E
  <2>1. \A x \in E : x \in Address /\ b <= x /\ x < b + w
    BY <1>1, HeapConstants DEF Address
  <2>2. \A x \in Address : b <= x /\ x < b + w => x \in E
    <3>1. b \in Int /\ w \in Int
      BY <1>1
    <3>2. SUFFICES ASSUME NEW x \in Address, b <= x, x < b + w PROVE x \in E
      OBVIOUS
    <3>3. x \in Int
      BY <3>2, Addresses
    <3> HIDE DEF w
    <3> QED
      BY <3>1, <3>2, <3>3
  <2> HIDE DEF E
  <2> QED
    BY <2>1, <2>2 DEF Held, Owns
<1>5. IsFiniteSet(Held(h, B)) /\ Cardinality(Held(h, B)) \in Nat
  BY HeldFinite
<1>6. Cardinality(Held(h, B) \cup E) = Cardinality(Held(h, B)) + Cardinality(E) - Cardinality(Held(h, B) \cap E)
  <2> HIDE DEF E
  <2> QED
    BY <1>2, <1>5, FS_Union
<1> HIDE DEF E
<1>7. Cardinality(Held(h, B) \cap E) = 0
  BY <1>3, FS_EmptySet
<1>8. Cardinality(Held(h, B) \cup E) = Cardinality(Held(h, B)) + w
  BY <1>1, <1>2, <1>5, <1>6, <1>7
<1> QED
  BY <1>4, <1>8

UsageStep(h, b, sum) == h.header[b].size + sum
Usage == INSTANCE ListLemmas WITH step <- UsageStep, pick <- AnyBlock

\* What UsageExact adds up.
LEMMA UsageIs ==
  ASSUME NEW h, NEW B, InPlace(h, B)
  PROVE  Usage!Fold(h, 0, B) = Cardinality(Held(h, B))
<1> DEFINE I == [v \in SUBSET B |-> {Cardinality(Held(h, v))}]
<1>1. IsFiniteSet(B)
  <2>1. IsFiniteSet(Address)
    BY HeapConstants, FS_Interval DEF Address
  <2>2. B \subseteq Address
    BY DEF InPlace
  <2> QED
    BY <2>1, <2>2, FS_Subset
<1>2. Usage!IsFiniteSet(B)
  BY <1>1 DEF IsFiniteSet, Usage!IsFiniteSet
<1>3. Usage!Picks(B)
  BY DEF Usage!Picks, AnyBlock
<1>4. 0 \in I[{}]
  <2>1. Held(h, {}) = {}
    BY DEF Held, Owns
  <2>2. Cardinality({}) = 0
    BY FS_EmptySet
  <2> QED
    BY <2>1, <2>2
<1>5. ASSUME NEW v \in SUBSET B, v # {}, NEW c \in I[v \ {AnyBlock(v)}]
      PROVE  UsageStep(h, AnyBlock(v), c) \in I[v]
  <2> DEFINE x == AnyBlock(v)
             t == v \ {x}
  <2>1. x \in v
    BY <1>5 DEF AnyBlock
  <2>2. t \in SUBSET B /\ v = t \cup {x} /\ x \notin t
    BY <2>1
  <2>3. c = Cardinality(Held(h, t))
    BY <1>5, <2>2
  <2> HIDE DEF x, t
  <2>4. InPlace(h, t \cup {x}) /\ h.header[x].size \in Nat
    BY <2>2 DEF InPlace
  <2>5. Cardinality(Held(h, t \cup {x})) = Cardinality(Held(h, t)) + h.header[x].size
    BY <2>2, <2>4, HeldOneMore
  <2>6. UsageStep(h, x, c) = Cardinality(Held(h, v))
    BY <2>2, <2>3, <2>4, <2>5, HeldFinite DEF UsageStep
  <2> QED
    BY <2>6 DEF x
<1>6. I[B] = {Cardinality(Held(h, B))}
  OBVIOUS
<1> HIDE DEF I
<1>7. Usage!Fold(h, 0, B) \in I[B]
  BY <1>2, <1>3, <1>4, <1>5, Usage!FoldInduction
<1> QED
  BY <1>6, <1>7

-----------------------------------------------------------------------------
(* Heap: the state.  L are the free blocks, u the blocks in use with the    *)
(* sizes that were asked for, total the usage and R the regions.            *)

InRegion(R, x) == \E w \in R : w <= x /\ x < w + RegionSize(w)
Fills(h, B, R) == \A x \in Nat : Owns(h, B, x) <=> InRegion(R, x)
Roomy(h, u) == \A b \in DOMAIN u : u[b] \in Nat /\ h.header[b].size >= u[b] + HEADER_SIZE

HeapState(h, L, u, total, R) ==
    /\ HeapSound(h, L, DOMAIN u)
    /\ Roomy(h, u)
    /\ Fills(h, L \cup DOMAIN u, R)
    /\ Parted(h, L, R)
    /\ total = Cardinality(Held(h, DOMAIN u))

With(u, b, n) == [a \in DOMAIN u \cup {b} |-> IF a = b THEN n ELSE u[a]]
Without(u, b) == [a \in DOMAIN u \ {b} |-> u[a]]

LEMMA TakeState ==
  ASSUME NEW h, NEW L, NEW u, NEW total, NEW R, HeapState(h, L, u, total, R), NEW b \in L,
         NEW n \in Nat \ {0}, n + HEADER_SIZE <= h.header[b].size
  PROVE  \E K : HeapState(Taken(h, b, n), K, With(u, b, n), total + Taken(h, b, n).header[b].size, R)
<1> DEFINE U == DOMAIN u
           q == Taken(h, b, n)
           v == With(u, b, n)
<1>1. /\ HeapSound(h, L, U) /\ Roomy(h, u) /\ Fills(h, L \cup U, R) /\ Parted(h, L, R)
      /\ total = Cardinality(Held(h, U))
  BY DEF HeapState
<1>2. PICK K :
           /\ HeapSound(q, K, U \cup {b})
           /\ q.header[b].size >= n + HEADER_SIZE
           /\ \A a \in U : q.header[a].size = h.header[a].size
           /\ \A x \in Nat : Owns(q, K \cup (U \cup {b}), x) <=> Owns(h, L \cup U, x)
           /\ \A D : Parted(h, L, D) => Parted(q, K, D)
  <2> HIDE DEF U
  <2> QED
    BY <1>1, TakeKeeps
<1> HIDE DEF q
<1>3. DOMAIN v = U \cup {b} /\ v[b] = n /\ \A a \in U \ {b} : v[a] = u[a]
  BY DEF With
<1> HIDE DEF v, U
<1>4. HeapSound(q, K, DOMAIN v)
  BY <1>2, <1>3
<1>5. b \notin U
  <2>1. L \cap U = {}
    BY <1>1, SoundFacts
  <2> QED
    BY <2>1
<1>6. Roomy(q, v)
  <2>1. \A a \in U : u[a] \in Nat /\ h.header[a].size >= u[a] + HEADER_SIZE
    BY <1>1 DEF Roomy, U
  <2> QED
    BY <2>1, <1>2, <1>3, <1>5 DEF Roomy
<1>7. Fills(q, K \cup DOMAIN v, R)
  BY <1>1, <1>2, <1>3 DEF Fills
<1>8. Parted(q, K, R)
  BY <1>1, <1>2
<1>9. total + q.header[b].size = Cardinality(Held(q, DOMAIN v))
  <2>1. InPlace(q, K \cup (U \cup {b}))
    BY <1>2, SoundFacts
  <2>2. InPlace(q, U \cup {b})
    BY <2>1 DEF InPlace
  <2>3. Held(q, U) = Held(h, U)
    BY <1>2, HeldSame
  <2>4. Cardinality(Held(q, U \cup {b})) = Cardinality(Held(q, U)) + q.header[b].size
    BY <2>2, <1>5, HeldOneMore
  <2> QED
    BY <2>3, <2>4, <1>1, <1>3
<1>10. HeapState(q, K, v, total + q.header[b].size, R)
  BY <1>4, <1>6, <1>7, <1>8, <1>9 DEF HeapState
<1> QED
  BY <1>10 DEF q, v

LEMMA FreeState ==
  ASSUME NEW h, NEW L, NEW u, NEW total, NEW R, HeapState(h, L, u, total, R), NEW b \in DOMAIN u
  PROVE  \E K : HeapState(Freed(h, b), K, Without(u, b), total - h.header[b].size, R)
<1> DEFINE U == DOMAIN u
           q == Freed(h, b)
           v == Without(u, b)
<1>1. /\ HeapSound(h, L, U) /\ Roomy(h, u) /\ Fills(h, L \cup U, R) /\ Parted(h, L, R)
      /\ total = Cardinality(Held(h, U))
  BY DEF HeapState
<1>2. PICK K :
           /\ HeapSound(q, K, U \ {b})
           /\ \A a \in U \ {b} : q.header[a].size = h.header[a].size
           /\ \A x \in Nat : Owns(q, K \cup (U \ {b}), x) <=> Owns(h, L \cup U, x)
           /\ \A D : Parted(h, L, D) => Parted(q, K, D)
  <2>1. b \in U
    OBVIOUS
  <2> HIDE DEF U
  <2> QED
    BY <2>1, <1>1, FreeSound
<1> HIDE DEF q
<1>3. DOMAIN v = U \ {b} /\ \A a \in U \ {b} : v[a] = u[a]
  BY DEF Without
<1>4. b \in U
  OBVIOUS
<1> HIDE DEF v, U
<1>5. HeapSound(q, K, DOMAIN v)
  BY <1>2, <1>3
<1>6. Roomy(q, v)
  <2>1. \A a \in U : u[a] \in Nat /\ h.header[a].size >= u[a] + HEADER_SIZE
    BY <1>1 DEF Roomy, U
  <2> QED
    BY <2>1, <1>2, <1>3 DEF Roomy
<1>7. Fills(q, K \cup DOMAIN v, R)
  BY <1>1, <1>2, <1>3 DEF Fills
<1>8. Parted(q, K, R)
  BY <1>1, <1>2
<1>9. total - h.header[b].size = Cardinality(Held(q, DOMAIN v))
  <2> DEFINE V == U \ {b}
  <2>1. InPlace(h, L \cup U)
    BY <1>1, SoundFacts
  <2>2. V \cup {b} = U /\ b \notin V
    BY <1>4
  <2>3. InPlace(h, V \cup {b}) /\ h.header[b].size \in Nat
    BY <2>1, <2>2, <1>4 DEF InPlace
  <2>4. Held(q, V) = Held(h, V)
    <3>1. \A a \in V : q.header[a].size = h.header[a].size
      BY <1>2
    <3> HIDE DEF V
    <3> QED
      BY <3>1, HeldSame
  <2>6. Cardinality(Held(h, V)) \in Nat
    BY HeldFinite
  <2> HIDE DEF V
  <2>5. Cardinality(Held(h, V \cup {b})) = Cardinality(Held(h, V)) + h.header[b].size
    BY <2>2, <2>3, HeldOneMore
  <2>7. DOMAIN v = V
    BY <1>3 DEF V
  <2>8. Cardinality(Held(h, U)) = Cardinality(Held(h, V)) + h.header[b].size
    BY <2>2, <2>5
  <2>9. Held(q, DOMAIN v) = Held(h, V)
    BY <2>4, <2>7
  <2>10. total - h.header[b].size = Cardinality(Held(h, V))
    BY <2>3, <2>6, <2>8, <1>1
  <2> QED
    BY <2>9, <2>10
<1>10. HeapState(q, K, v, total - h.header[b].size, R)
  BY <1>5, <1>6, <1>7, <1>8, <1>9 DEF HeapState
<1> QED
  BY <1>10 DEF q, v

\* The regions: none of them twice, and apart from each other.
HeapRegions == Expansions \cup {HeapStart}

LEMMA RegionFacts ==
  /\ HeapRegions \subseteq Address /\ HeapRegions \subseteq Nat
  /\ \A w \in HeapRegions : RegionSize(w) \in Nat /\ w + RegionSize(w) <= Top
  /\ \A w, t \in HeapRegions : w < t => w + RegionSize(w) <= t
  /\ \A w \in Expansions : RegionSize(w) = ExpandSize
  BY HeapConstants, Addresses DEF HeapRegions, RegionSize

LEMMA ExpandState ==
  ASSUME NEW h, NEW L, NEW u, NEW total, NEW R, HeapState(h, L, u, total, R),
         R \subseteq HeapRegions, NEW start \in Expansions \ R, ExpandSize >= MIN_BLOCK_SIZE
  PROVE  /\ HeapState(Expanded(h, start), L \cup {start}, u, total, R \cup {start})
         /\ Expanded(h, start).header[start].size = ExpandSize
<1> DEFINE U == DOMAIN u
           q == Expanded(h, start)
           K == L \cup {start}
           end == start + ExpandSize
<1>1. /\ HeapSound(h, L, U) /\ Roomy(h, u) /\ Fills(h, L \cup U, R) /\ Parted(h, L, R)
      /\ total = Cardinality(Held(h, U))
  BY DEF HeapState
<1> HIDE DEF U
<1>2. /\ start \in Address /\ start \in Nat /\ start \in HeapRegions /\ ExpandSize \in Nat
      /\ RegionSize(start) = ExpandSize /\ end <= Top /\ end \in Nat
  BY RegionFacts DEF HeapRegions
<1>3. ASSUME NEW w \in R, NEW x \in Nat, w <= x, x < w + RegionSize(w) PROVE x < start \/ end <= x
  <2>1. w \in HeapRegions /\ w # start /\ w \in Nat /\ RegionSize(w) \in Nat
    BY RegionFacts
  <2>2. w < start => w + RegionSize(w) <= start
    BY <1>2, <2>1, RegionFacts
  <2>3. start < w => start + RegionSize(start) <= w
    BY <1>2, <2>1, RegionFacts
  <2> QED
    BY <1>2, <1>3, <2>1, <2>2, <2>3
<1>4. ASSUME NEW x \in Nat, start <= x, x < end PROVE ~Owns(h, L \cup U, x)
  <2>1. Owns(h, L \cup U, x) <=> InRegion(R, x)
    BY <1>1 DEF Fills
  <2> SUFFICES ASSUME InRegion(R, x) PROVE FALSE
    BY <2>1
  <2>2. PICK w \in R : w <= x /\ x < w + RegionSize(w)
    BY DEF InRegion
  <2>3. x < start \/ end <= x
    BY <1>3, <2>2
  <2> HIDE DEF end
  <2> QED
    BY <1>2, <1>4, <2>3
<1>5. /\ HeapSound(q, L \cup {start}, U)
      /\ start \notin L \cup U
      /\ \A a \in L \cup U : q.header[a].size = h.header[a].size
      /\ q.header[start].size = ExpandSize
  <2>1. \A x \in Nat : start <= x /\ x < start + ExpandSize => ~Owns(h, L \cup U, x)
    BY <1>4
  <2>2. Grown(q, h, L, U, start)
    BY ONLY <1>1, <1>2, <2>1, ExpandSize >= MIN_BLOCK_SIZE, ExpandSound
  <2> HIDE DEF q
  <2> QED
    BY <2>2, Zenon DEF Grown
<1> HIDE DEF q
<1>6. \A a \in L \cup U : a \in Nat /\ h.header[a].size \in Nat /\ a < a + h.header[a].size
  <2>1. InPlace(h, L \cup U)
    BY <1>1, SoundFacts
  <2> QED
    BY <2>1 DEF InPlace
<1>7. Roomy(q, u)
  BY <1>1, <1>5 DEF Roomy, U
<1>8. Fills(q, K \cup U, R \cup {start})
  <2> SUFFICES ASSUME NEW x \in Nat PROVE Owns(q, K \cup U, x) <=> InRegion(R \cup {start}, x)
    BY DEF Fills
  <2>1. Owns(q, K \cup U, x) <=> Owns(h, L \cup U, x) \/ (start <= x /\ x < end)
    BY <1>5 DEF Owns
  <2>2. InRegion(R \cup {start}, x) <=> InRegion(R, x) \/ (start <= x /\ x < end)
    BY <1>2 DEF InRegion
  <2>3. Owns(h, L \cup U, x) <=> InRegion(R, x)
    BY <1>1 DEF Fills
  <2> QED
    BY <2>1, <2>2, <2>3
<1>9. Parted(q, K, R \cup {start})
  <2> SUFFICES ASSUME NEW b \in K, b + q.header[b].size \in K, b + q.header[b].size # start
               PROVE  b + q.header[b].size \in R
    BY DEF Parted
  <2>1. b + q.header[b].size \in L
    OBVIOUS
  <2>2. CASE b # start
    <3>1. b \in L /\ q.header[b].size = h.header[b].size
      BY <2>2, <1>5
    <3> QED
      BY <2>1, <3>1, <1>1 DEF Parted
  <2>3. CASE b = start
    <3>1. b + q.header[b].size = end /\ end \in L
      BY <2>1, <2>3, <1>5
    <3>2. Owns(h, L \cup U, end)
      BY <3>1, <1>2, <1>6 DEF Owns
    <3>3. PICK w \in R : w <= end /\ end < w + RegionSize(w)
      BY <3>2, <1>1, <1>2 DEF Fills, InRegion
    <3>4. w \in HeapRegions /\ w # start /\ w \in Nat /\ RegionSize(w) \in Nat
      BY RegionFacts
    <3>5. (w < start => w + RegionSize(w) <= start) /\ (start < w => end <= w)
      BY <1>2, <3>4, RegionFacts
    <3>6. w = end
      BY <1>2, <3>3, <3>4, <3>5
    <3> QED
      BY <3>1, <3>6
  <2> QED
    BY <2>2, <2>3
<1>10. total = Cardinality(Held(q, U))
  <2>1. Held(q, U) = Held(h, U)
    BY <1>5, HeldSame
  <2> QED
    BY <2>1, <1>1
<1>11. HeapState(q, K, u, total, R \cup {start})
  BY <1>5, <1>7, <1>8, <1>9, <1>10 DEF HeapState, U
<1> QED
  BY <1>5, <1>11 DEF q

\* The set that the list holds, and the list itself.
LEMMA ListOf ==
  ASSUME NEW h, NEW L, NEW U, HeapSound(h, L, U)
  PROVE  ToSet(FreeList(h)) = L
<1>1. h \in Heaps /\ Chain(h, L) /\ Laid(h, L \cup U)
  BY DEF HeapSound
<1>2. Spaced(L)
  <2>1. L \subseteq L \cup U
    OBVIOUS
  <2> QED
    BY <1>1, <2>1, LaidSpaced
<1> DEFINE list == FreeList(h)
<1>3. PICK k \in Nat :
        /\ list = [i \in 1 .. k |-> list[i]]
        /\ \A i \in 1 .. k : list[i] \in L
        /\ \A i, j \in 1 .. k : i < j => list[i] < list[j]
        /\ \A c \in L : \E i \in 1 .. k : list[i] = c
  BY <1>1, <1>2, FreeListIs
<1> HIDE DEF list
<1>4. DOMAIN list = 1 .. k
  BY <1>3
<1>5. ToSet(list) = L
  BY <1>3, <1>4 DEF ToSet
<1> QED
  BY <1>5 DEF list

\* What is found is in the list and large enough.
LEMMA FoundIs ==
  ASSUME NEW h, NEW L, NEW U, HeapSound(h, L, U), NEW size \in Nat, find_free_block(h, size) # Nil
  PROVE  find_free_block(h, size) \in L /\ h.header[find_free_block(h, size)].size >= size
<1>1. h \in Heaps /\ Chain(h, L) /\ Laid(h, L \cup U)
  BY DEF HeapSound
<1>2. L \subseteq L \cup U
  OBVIOUS
<1>3. Spaced(L)
  BY <1>1, <1>2, LaidSpaced
<1> QED
  BY <1>1, <1>3, FindIs

-----------------------------------------------------------------------------
(* Heap: the inductive invariant. *)

HeapParts ==
    /\ DOMAIN regions \subseteq HeapRegions
    /\ \A w \in DOMAIN regions : regions[w] = RegionSize(w)
    /\ HeapState(heap, Linked, used, current_usage, DOMAIN regions)
HeapMoving == moving = Nil \/ (moving[1] \in DOMAIN used /\ moving[2] \in DOMAIN used)
HeapKept == HeapParts /\ HeapMoving
HeapIInv == overrun \/ HeapKept

LEMMA HeapStateLinked ==
  ASSUME NEW h, NEW L, NEW u, NEW total, NEW R, HeapState(h, L, u, total, R)
  PROVE  HeapState(h, ToSet(FreeList(h)), u, total, R)
<1>1. HeapSound(h, L, DOMAIN u)
  BY DEF HeapState
<1>2. ToSet(FreeList(h)) = L
  BY <1>1, ListOf
<1> QED
  BY <1>2

LEMMA TakeStep ==
  ASSUME NEW h, NEW L, NEW R, HeapState(h, L, used, current_usage, R), NEW b \in L,
         NEW n \in RequestSizes, n + HEADER_SIZE <= h.header[b].size, Take(h, b, n)
  PROVE  /\ HeapState(heap', Linked', used', current_usage', R)
         /\ DOMAIN used \subseteq DOMAIN used'
<1>1. /\ heap' = Taken(h, b, n) /\ used' = With(used, b, n)
      /\ current_usage' = current_usage + Taken(h, b, n).header[b].size
  BY DEF Take, Taken, With
<1>2. n \in Nat \ {0}
  BY HeapConstants
<1>3. PICK K : HeapState(Taken(h, b, n), K, With(used, b, n),
                         current_usage + Taken(h, b, n).header[b].size, R)
  BY <1>2, TakeState
<1>4. HeapState(heap', K, used', current_usage', R)
  BY <1>1, <1>3
<1>5. HeapState(heap', ToSet(FreeList(heap')), used', current_usage', R)
  BY <1>4, HeapStateLinked
<1> QED
  BY <1>1, <1>5 DEF Linked, With

LEMMA KmallocStep ==
  ASSUME HeapParts, NEW n \in RequestSizes, kmalloc(n), ~overrun'
  PROVE  HeapParts' /\ DOMAIN used \subseteq DOMAIN used'
<1> DEFINE size == n + HEADER_SIZE
           found == find_free_block(heap, size)
           R == DOMAIN regions
<1>1. HeapState(heap, Linked, used, current_usage, R) /\ R \subseteq HeapRegions
      /\ \A w \in R : regions[w] = RegionSize(w)
  BY DEF HeapParts
<1>2. HeapSound(heap, Linked, DOMAIN used)
  BY <1>1 DEF HeapState
<1>3. size \in Nat /\ ExpandSize \in Nat /\ ExpandSize >= MIN_BLOCK_SIZE
  BY HeapConstants DEF MIN_BLOCK_SIZE
<1>4. CASE found # Nil /\ Take(heap, found, n) /\ regions' = regions
  <2>1. found \in Linked /\ heap.header[found].size >= size
    BY <1>2, <1>3, <1>4, FoundIs
  <2> HIDE DEF found
  <2>2. size <= heap.header[found].size
    <3>1. InPlace(heap, Linked \cup DOMAIN used)
      BY <1>2, SoundFacts
    <3>2. heap.header[found].size \in Nat
      BY <2>1, <3>1 DEF InPlace
    <3> QED
      BY <2>1, <3>2, <1>3
  <2>3. HeapState(heap', Linked', used', current_usage', R) /\ DOMAIN used \subseteq DOMAIN used'
    BY <1>1, <1>4, <2>1, <2>2, TakeStep
  <2> QED
    BY <1>1, <1>4, <2>3 DEF HeapParts
<1>5. ASSUME NEW start \in Expansions \ R,
             regions' = [w \in R \cup {start} |-> IF w = start THEN ExpandSize ELSE regions[w]],
             Take(Expand(start), start, n), overrun' = (n + HEADER_SIZE > ExpandSize)
      PROVE  HeapParts' /\ DOMAIN used \subseteq DOMAIN used'
  <2> DEFINE q == Expanded(heap, start)
  <2>1. Expand(start) = q
    BY DEF Expand, Expanded
  <2>2. /\ HeapState(q, Linked \cup {start}, used, current_usage, R \cup {start})
        /\ q.header[start].size = ExpandSize
    <3> HIDE DEF R
    <3> QED
      BY <1>1, <1>3, ExpandState
  <2> HIDE DEF q
  <2>3. /\ HeapState(heap', Linked', used', current_usage', R \cup {start})
        /\ DOMAIN used \subseteq DOMAIN used'
    <3>0. size <= ExpandSize
      <4>1. ~(n + HEADER_SIZE > ExpandSize)
        BY <1>5, Zenon
      <4> QED
        BY <1>3, <4>1
    <3>1. start \in Linked \cup {start} /\ n + HEADER_SIZE <= q.header[start].size
      BY <2>2, <3>0
    <3>2. Take(q, start, n)
      BY <1>5, <2>1
    <3> QED
      BY <2>2, <3>1, <3>2, TakeStep
  <2>4. /\ DOMAIN regions' = R \cup {start}
        /\ \A w \in R \cup {start} : regions'[w] = RegionSize(w)
        /\ R \cup {start} \subseteq HeapRegions
    BY <1>1, <1>5, RegionFacts DEF HeapRegions
  <2> QED
    BY <2>3, <2>4 DEF HeapParts
<1> QED
  BY <1>4, <1>5 DEF kmalloc

LEMMA KfreeStep ==
  ASSUME HeapParts, NEW b \in DOMAIN used, kfree(b)
  PROVE  HeapParts' /\ DOMAIN used' = DOMAIN used \ {b}
<1> DEFINE R == DOMAIN regions
<1>1. /\ heap' = Freed(heap, b) /\ used' = Without(used, b) /\ regions' = regions
      /\ current_usage' = current_usage - heap.header[b].size
  BY DEF kfree, Freed, Without
<1>2. HeapState(heap, Linked, used, current_usage, R)
  BY DEF HeapParts
<1>3. PICK K : HeapState(Freed(heap, b), K, Without(used, b), current_usage - heap.header[b].size, R)
  BY <1>2, FreeState
<1>4. HeapState(heap', K, used', current_usage', R)
  BY <1>1, <1>3
<1>5. HeapState(heap', ToSet(FreeList(heap')), used', current_usage', R)
  BY <1>4, HeapStateLinked
<1>6. HeapParts'
  BY <1>1, <1>5 DEF HeapParts, Linked
<1> QED
  BY <1>1, <1>6 DEF Without

LEMMA HeapStarts == HeapInit => HeapIInv
<1> SUFFICES ASSUME HeapInit PROVE HeapIInv
  OBVIOUS
<1> DEFINE r == [size |-> InitialSize, free |-> TRUE, next |-> Nil, prev |-> Nil]
           L == {HeapStart}
<1>1. HeapStart \in Address /\ HeapStart \in Nat /\ HeapStart \in HeapRegions
      /\ InitialSize \in Nat /\ InitialSize >= MIN_BLOCK_SIZE /\ HeapStart + InitialSize <= Top
      /\ RegionSize(HeapStart) = InitialSize
  BY HeapConstants, Addresses DEF HeapRegions, RegionSize
<1>2. r \in Header /\ r.size = InitialSize /\ r.free = TRUE /\ r.next = Nil /\ r.prev = Nil
  BY <1>1 DEF Header
<1>3. heap.first = HeapStart /\ heap.header[HeapStart] = r /\ heap \in Heaps
  <2>1. heap.first = HeapStart /\ heap.header = [a \in Address |-> IF a = HeapStart THEN r ELSE Nil]
        /\ heap = [header |-> heap.header, first |-> heap.first]
    BY DEF HeapInit
  <2> HIDE DEF r
  <2>2. heap.header \in [Address -> Header \cup {Nil}]
    BY <1>2, <2>1
  <2> QED
    BY <1>1, <2>1, <2>2 DEF Heaps
<1> HIDE DEF r
<1>4. DOMAIN used = {} /\ DOMAIN regions = {HeapStart} /\ regions[HeapStart] = InitialSize
      /\ current_usage = 0 /\ moving = Nil
  BY DEF HeapInit
<1>5. Chain(heap, L)
  <2>1. HeapStart # Nil /\ HeapStart <= HeapStart
    BY <1>1, Addresses
  <2>2. Leads(L, HeapStart) /\ Follows(L, HeapStart, Nil) /\ Precedes(L, HeapStart, Nil)
    BY <2>1 DEF Leads, Follows, Precedes
  <2> QED
    BY <1>1, <1>2, <1>3, <2>2 DEF Chain
<1>6. Laid(heap, L \cup {})
  BY <1>1, <1>2, <1>3 DEF Laid
<1>7. HeapSound(heap, L, DOMAIN used)
  BY <1>3, <1>4, <1>5, <1>6 DEF HeapSound
<1>8. Linked = L
  BY <1>7, ListOf DEF Linked
<1>9. Fills(heap, L \cup DOMAIN used, DOMAIN regions)
  BY <1>1, <1>2, <1>3, <1>4 DEF Fills, Owns, InRegion
<1>10. Parted(heap, L, DOMAIN regions)
  BY <1>4 DEF Parted
<1>11. current_usage = Cardinality(Held(heap, DOMAIN used))
  <2>1. Held(heap, {}) = {}
    BY DEF Held, Owns
  <2> QED
    BY <1>4, <2>1, FS_EmptySet
<1>12. Roomy(heap, used)
  BY <1>4 DEF Roomy
<1>13. HeapState(heap, Linked, used, current_usage, DOMAIN regions)
  BY <1>7, <1>8, <1>9, <1>10, <1>11, <1>12 DEF HeapState
<1> QED
  BY <1>1, <1>4, <1>13 DEF HeapIInv, HeapKept, HeapParts, HeapMoving, HeapInit

\* A step that does not overrun an expansion.
LEMMA HeapMoves ==
  ASSUME HeapKept, HeapNext, ~overrun'
  PROVE  HeapKept'
<1> USE DEF HeapKept
<1>1. CASE AllocateBlock
  <2>1. PICK n \in RequestSizes : kmalloc(n)
    BY <1>1 DEF AllocateBlock
  <2>2. HeapParts' /\ DOMAIN used \subseteq DOMAIN used'
    BY <2>1, KmallocStep
  <2> QED
    BY <1>1, <2>2 DEF AllocateBlock, HeapMoving
<1>2. CASE FreeBlock
  <2>1. PICK b \in DOMAIN used \ Busy : kfree(b)
    BY <1>2 DEF FreeBlock
  <2>2. HeapParts' /\ DOMAIN used' = DOMAIN used \ {b}
    BY <2>1, KfreeStep
  <2>3. HeapMoving'
    <3>1. moving' = moving
      BY <1>2 DEF FreeBlock
    <3>2. CASE moving = Nil
      BY <3>1, <3>2 DEF HeapMoving
    <3>3. CASE moving # Nil
      <4>1. b # moving[1] /\ b # moving[2]
        BY <2>1, <3>3 DEF Busy
      <4> QED
        BY <2>2, <3>1, <3>3, <4>1 DEF HeapMoving
    <3> QED
      BY <3>2, <3>3
  <2> QED
    BY <2>2, <2>3
<1>3. CASE krealloc_in_place
  <2>1. PICK b \in DOMAIN used, n \in RequestSizes :
          /\ n <= heap.header[b].size - HEADER_SIZE
          /\ used' = [used EXCEPT ![b] = n]
          /\ UNCHANGED <<heap, regions, current_usage, moving>>
    BY <1>3 DEF krealloc_in_place
  <2>2. HeapState(heap, Linked, used, current_usage, DOMAIN regions)
    BY DEF HeapParts
  <2>3. DOMAIN used' = DOMAIN used /\ Linked' = Linked
    BY <2>1 DEF Linked
  <2>4. Roomy(heap, used')
    <3>1. InPlace(heap, Linked \cup DOMAIN used)
      BY <2>2, SoundFacts DEF HeapState
    <3>2. heap.header[b].size \in Nat
      BY <3>1 DEF InPlace
    <3>3. n \in Nat /\ HEADER_SIZE \in Nat
      BY HeapConstants
    <3>4. heap.header[b].size >= n + HEADER_SIZE
      BY <2>1, <3>2, <3>3
    <3>5. \A a \in DOMAIN used : used[a] \in Nat /\ heap.header[a].size >= used[a] + HEADER_SIZE
      BY <2>2 DEF HeapState, Roomy
    <3>6. \A a \in DOMAIN used : used'[a] = IF a = b THEN n ELSE used[a]
      BY <2>1
    <3> QED
      BY <2>3, <3>3, <3>4, <3>5, <3>6 DEF Roomy
  <2>5. HeapState(heap, Linked, used', current_usage, DOMAIN regions)
    BY <2>2, <2>3, <2>4 DEF HeapState
  <2>6. HeapParts'
    BY <2>1, <2>3, <2>5 DEF HeapParts
  <2> QED
    BY <2>1, <2>3, <2>6 DEF HeapMoving
<1>4. CASE krealloc_begin
  <2>1. PICK b \in DOMAIN used, n \in RequestSizes :
          kmalloc(n) /\ \E new \in DOMAIN used' \ DOMAIN used : moving' = <<b, new>>
    BY <1>4 DEF krealloc_begin
  <2>2. HeapParts' /\ DOMAIN used \subseteq DOMAIN used'
    BY <2>1, KmallocStep
  <2>3. moving'[1] \in DOMAIN used' /\ moving'[2] \in DOMAIN used'
    BY <2>1, <2>2
  <2> QED
    BY <2>2, <2>3 DEF HeapMoving
<1>5. CASE krealloc_end
  <2>1. moving[1] \in DOMAIN used /\ kfree(moving[1]) /\ moving' = Nil
    BY <1>5 DEF krealloc_end, HeapMoving
  <2>2. HeapParts'
    BY <2>1, KfreeStep
  <2> QED
    BY <2>1, <2>2 DEF HeapMoving
<1> QED
  BY <1>1, <1>2, <1>3, <1>4, <1>5 DEF HeapNext, krealloc

LEMMA HeapStep == HeapIInv /\ [HeapNext]_heap_vars => HeapIInv'
<1> SUFFICES ASSUME HeapIInv, [HeapNext]_heap_vars PROVE HeapIInv'
  OBVIOUS
<1>a. CASE UNCHANGED heap_vars
  BY <1>a DEF heap_vars, HeapIInv, HeapKept, HeapParts, HeapMoving, Linked
<1>b. CASE HeapNext
  BY <1>b, HeapMoves DEF HeapIInv, HeapNext
<1> QED
  BY <1>a, <1>b

\* The order of the list and its links, from the set.
LEMMA ListIsSound ==
  ASSUME NEW h, NEW L, NEW U, HeapSound(h, L, U)
  PROVE  \A i \in 1 .. Len(FreeList(h)) :
           /\ h.header[FreeList(h)[i]].prev = IF i = 1 THEN Nil ELSE FreeList(h)[i - 1]
           /\ i > 1 => FreeList(h)[i - 1] < FreeList(h)[i]
<1> DEFINE list == FreeList(h)
<1>1. h \in Heaps /\ Chain(h, L) /\ Laid(h, L \cup U)
  BY DEF HeapSound
<1>2. Spaced(L)
  <2>1. L \subseteq L \cup U
    OBVIOUS
  <2> QED
    BY <1>1, <2>1, LaidSpaced
<1>3. PICK k \in Nat :
        /\ list = [i \in 1 .. k |-> list[i]]
        /\ \A i \in 1 .. k : list[i] \in L
        /\ \A i, j \in 1 .. k : i < j => list[i] < list[j]
        /\ \A c \in L : \E i \in 1 .. k : list[i] = c
  BY <1>1, <1>2, FreeListIs
<1> HIDE DEF list
<1>4. Len(list) = k
  <2>1. list \in Seq(L) /\ DOMAIN list = 1 .. k
    BY <1>3
  <2> QED
    BY <2>1
<1>5. \A c \in L : c \in Nat /\ c # Nil
  BY <1>1, Addresses DEF Chain
<1>6. ASSUME NEW i \in 1 .. k
      PROVE  /\ h.header[list[i]].prev = IF i = 1 THEN Nil ELSE list[i - 1]
             /\ i > 1 => list[i - 1] < list[i]
  <2> DEFINE b == list[i]
             p == h.header[b].prev
  <2>1. b \in L /\ Precedes(L, b, p)
    BY <1>1, <1>3 DEF Chain
  <2>2. CASE i = 1
    <3>1. \A c \in L : b <= c
      <4> TAKE c \in L
      <4>1. PICK j \in 1 .. k : list[j] = c
        BY <1>3
      <4>2. j = i \/ i < j
        BY <2>2, <4>1
      <4> QED
        BY <4>1, <4>2, <1>3, <1>5
    <3>2. p = Nil
      <4> SUFFICES ASSUME p # Nil PROVE FALSE
        OBVIOUS
      <4>1. p \in L /\ p < b
        BY <2>1 DEF Precedes
      <4>2. p \in Nat /\ b \in Nat /\ b <= p
        BY <2>1, <3>1, <4>1, <1>5
      <4> HIDE DEF p, b
      <4> QED
        BY <4>1, <4>2
    <3> QED
      BY <2>2, <3>2
  <2>3. CASE i # 1
    <3> DEFINE d == list[i - 1]
    <3>1. i - 1 \in 1 .. k /\ i - 1 < i
      BY <2>3
    <3>2. d \in L /\ d < b
      BY <1>3, <3>1
    <3>3. p # Nil
      <4> SUFFICES ASSUME p = Nil PROVE FALSE
        OBVIOUS
      <4>1. b <= d
        BY <2>1, <3>2 DEF Precedes
      <4>2. b \in Nat /\ d \in Nat
        BY <2>1, <3>2, <1>5
      <4> HIDE DEF b, d
      <4> QED
        BY <4>1, <4>2, <3>2
    <3>4. p \in L /\ p < b /\ d <= p
      BY <2>1, <3>2, <3>3 DEF Precedes
    <3>5. PICK j \in 1 .. k : list[j] = p
      BY <1>3, <3>4
    <3>6. j < i
      <4> SUFFICES ASSUME ~(j < i) PROVE FALSE
        OBVIOUS
      <4>1. i = j \/ i < j
        BY <3>5
      <4>2. b = p \/ b < p
        BY <1>3, <3>5, <4>1
      <4>3. b \in Nat /\ p \in Nat
        BY <2>1, <3>4, <1>5
      <4> HIDE DEF b, p
      <4> QED
        BY <3>4, <4>2, <4>3
    <3>7. j = i - 1
      <4> SUFFICES ASSUME j # i - 1 PROVE FALSE
        OBVIOUS
      <4>1. j < i - 1
        BY <3>5, <3>6
      <4>2. p < d
        BY <1>3, <3>1, <3>5, <4>1
      <4>3. d \in Nat /\ p \in Nat
        BY <3>2, <3>4, <1>5
      <4> HIDE DEF d, p
      <4> QED
        BY <3>4, <4>2, <4>3
    <3> QED
      BY <2>3, <3>2, <3>5, <3>7
  <2> QED
    BY <2>2, <2>3
<1> QED
  BY <1>4, <1>6 DEF list

LEMMA HeapIInvGives == HeapIInv => HeapInv /\ RoomAsAsked /\ NoFreeNeighbours
<1>0. CASE overrun
  BY <1>0 DEF HeapInv, RoomAsAsked, NoFreeNeighbours
<1> SUFFICES ASSUME HeapKept PROVE HeapInv /\ RoomAsAsked /\ NoFreeNeighbours
  BY <1>0 DEF HeapIInv
<1> DEFINE U == DOMAIN used
           R == DOMAIN regions
<1>1. /\ R \subseteq HeapRegions /\ \A w \in R : regions[w] = RegionSize(w)
      /\ HeapSound(heap, Linked, U) /\ Roomy(heap, used)
      /\ Fills(heap, Linked \cup U, R) /\ Parted(heap, Linked, R)
      /\ current_usage = Cardinality(Held(heap, U)) /\ HeapMoving
  BY DEF HeapKept, HeapParts, HeapState
<1>2. RoomAsAsked
  BY <1>1 DEF RoomAsAsked, Roomy
<1>3. NoFreeNeighbours
  BY <1>1 DEF NoFreeNeighbours, Parted
<1>4. heap \in Heaps /\ Chain(heap, Linked) /\ Linked \cap U = {} /\ InPlace(heap, Linked \cup U)
  BY <1>1, SoundFacts
<1>5. HeapBlocks = Linked \cup U
  BY DEF HeapBlocks
<1>6. HeapTypeOK
  <2>1. heap.first \in Address \cup {Nil} /\ \A a \in Address : heap.header[a] \in Header \cup {Nil}
    BY <1>4 DEF Heaps
  <2>2. \A b \in HeapBlocks : heap.header[b] \in Header
    BY <1>4, <1>5 DEF InPlace
  <2>3. current_usage \in Nat
    BY <1>1, HeldFinite
  <2> QED
    BY <1>1, <2>1, <2>2, <2>3 DEF HeapTypeOK, HeapMoving
<1>7. Tiled
  <2>1. \A b \in HeapBlocks : b \in Nat /\ heap.header[b].size \in Nat
    BY <1>4, <1>5 DEF InPlace
  <2>2. ASSUME NEW b \in HeapBlocks, NEW x
        PROVE  x \in BlockAt(b) <=> x \in Nat /\ b <= x /\ x < b + heap.header[b].size
    BY <2>1 DEF BlockAt, Extend
  <2>3. ASSUME NEW w \in R, NEW x
        PROVE  x \in Extend(w, regions[w]) <=> x \in Nat /\ w <= x /\ x < w + RegionSize(w)
    <3>1. w \in Nat /\ RegionSize(w) \in Nat /\ regions[w] = RegionSize(w)
      BY <1>1, RegionFacts
    <3> QED
      BY <3>1 DEF Extend
  <2>4. UNION {BlockAt(b) : b \in HeapBlocks} = UNION {Extend(w, regions[w]) : w \in R}
    <3>1. ASSUME NEW x
          PROVE  x \in UNION {BlockAt(b) : b \in HeapBlocks} <=> x \in Nat /\ Owns(heap, HeapBlocks, x)
      BY <2>2 DEF Owns
    <3>2. ASSUME NEW x
          PROVE  x \in UNION {Extend(w, regions[w]) : w \in R} <=> x \in Nat /\ InRegion(R, x)
      BY <2>3 DEF InRegion
    <3>3. \A x \in Nat : Owns(heap, HeapBlocks, x) <=> InRegion(R, x)
      BY <1>1, <1>5 DEF Fills
    <3> QED
      BY <3>1, <3>2, <3>3
  <2>5. ASSUME NEW b \in HeapBlocks, NEW c \in HeapBlocks, b # c PROVE BlockAt(b) \cap BlockAt(c) = {}
    <3> SUFFICES ASSUME NEW x \in BlockAt(b), x \in BlockAt(c) PROVE FALSE
      OBVIOUS
    <3>1. /\ x \in Nat /\ b <= x /\ x < b + heap.header[b].size
          /\ c <= x /\ x < c + heap.header[c].size
      BY <2>2
    <3>2. (b < c => b + heap.header[b].size <= c) /\ (c < b => c + heap.header[c].size <= b)
      BY <1>4, <1>5 DEF InPlace
    <3> QED
      BY <2>1, <2>5, <3>1, <3>2
  <2> QED
    BY <1>4, <2>4, <2>5 DEF Tiled
<1>8. ListSound
  <2>1. \A i \in 1 .. Len(FreeList(heap)) :
           /\ heap.header[FreeList(heap)[i]].prev = IF i = 1 THEN Nil ELSE FreeList(heap)[i - 1]
           /\ i > 1 => FreeList(heap)[i - 1] < FreeList(heap)[i]
    BY <1>1, ListIsSound
  <2>2. \A b \in HeapBlocks : heap.header[b].free <=> b \in Linked
    BY <1>1, <1>4, <1>5 DEF Chain, HeapSound
  <2> QED
    BY <2>1, <2>2 DEF ListSound
<1>9. UsageExact
  <2>1. InPlace(heap, U)
    BY <1>4 DEF InPlace
  <2>2. Usage!Fold(heap, 0, U) = Cardinality(Held(heap, U))
    BY <2>1, UsageIs
  <2>3. FoldSet(LAMBDA b, sum : heap.header[b].size + sum, 0, DOMAIN used) = Usage!Fold(heap, 0, U)
    BY DEF FoldSet, MapThenFoldSet, Usage!Fold, UsageStep, AnyBlock
  <2> QED
    BY <1>1, <2>2, <2>3 DEF UsageExact
<1> QED
  BY <1>2, <1>3, <1>6, <1>7, <1>8, <1>9 DEF HeapInv

\* HeapIInv is an invariant of the heap (heap_init, kmalloc, kfree, krealloc):
\* whatever sizes are asked for, the heap is kept in order until a request larger
\* than an expansion meets a list without a block for it.
THEOREM HeapInvariant == HeapSpec => []HeapIInv
  BY HeapStarts, HeapStep, PTL DEF HeapSpec

\* Wherever the PMM puts the expansions and however the callers' requests, of
\* any size, follow each other, until one has overrun its expansion: the blocks of the list and the blocks in use partition
\* the memory of the heap, the list is in order, and linked and marked as it
\* should be, and current_usage is exact (kmalloc, kfree, krealloc).
THEOREM HeapIsTiled == HeapSpec => []HeapInv
  BY HeapInvariant, HeapIInvGives, PTL

\* A caller has the room it asked for, until a request has overrun its expansion
\* (heap_split_block, krealloc).
THEOREM RoomIsAsAsked == HeapSpec => []RoomAsAsked
  BY HeapInvariant, HeapIInvGives, PTL

\* Released memory is merged with its free neighbours, until a request has
\* overrun its expansion (coalesce).
THEOREM FreeBlocksAreMerged == HeapSpec => []NoFreeNeighbours
  BY HeapInvariant, HeapIInvGives, PTL
=============================================================================
