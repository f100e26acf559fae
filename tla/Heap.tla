-------------------------------- MODULE Heap --------------------------------
(***************************************************************************)
(* The kernel heap (src/mm/heap.c): a best-fit allocator over blocks with  *)
(* headers, the free ones linked in both directions in the order of their  *)
(* addresses.                                                              *)
(*                                                                         *)
(* Addresses and sizes count units of 16 bytes, to which kmalloc rounds    *)
(* every request.  A header takes HEADER_SIZE units at the start of its    *)
(* block; what a caller is given may be overwritten at once, so the        *)
(* headers that earlier blocks left inside it are gone.                    *)
(*                                                                         *)
(* Every operation holds heap_lock throughout and is one action, except    *)
(* krealloc, which lets go of it between its kmalloc and its kfree.        *)
(*                                                                         *)
(* An expansion is four pages however large the request is.  A request     *)
(* that does not fit is served all the same: its block reaches beyond the  *)
(* memory the heap owns, and the header of a remainder whose size wrapped  *)
(* around is written behind it.  The model records that this happened      *)
(* (overrun) and ends there, for from then on the heap and its neighbours  *)
(* overwrite each other.                                                   *)
(***************************************************************************)
EXTENDS Integers, FiniteSets, SequencesExt

CONSTANTS
    HEADER_SIZE,        \* 2 units
    HeapStart,          \* where heap_init got its pages
    InitialSize,        \* 16 pages
    ExpandSize,         \* 4 pages
    Expansions,         \* addresses the PMM may return to an expansion
    Top,                \* bound: addresses are below this
    RequestSizes,       \* requests of callers, in units without the header
    Nil,
    U64                 \* wrap-around of size_t

VARIABLES
    heap,           \* the block headers by address, and free_list
    regions,        \* start |-> size of the memory taken from the PMM
    current_usage,  \* heap_stats.current_usage
    used,           \* blocks that callers hold |-> the size they asked for
    moving,         \* <<old, new>> of a krealloc between its two halves
    overrun         \* history: an expansion was too small for its request

heap_vars == <<heap, regions, current_usage, used, moving, overrun>>

Address == 0 .. Top - 1
MIN_BLOCK_SIZE == HEADER_SIZE + 1
Header == [size: Nat, free: BOOLEAN, next: Address \cup {Nil}, prev: Address \cup {Nil}]

Extend(b, size) == b .. b + size - 1

RegionSize(start) == IF start = HeapStart THEN InitialSize ELSE ExpandSize

\* The PMM hands out no page twice.  Requests may be of any size for which
\* adding the header does not wrap around.
ASSUME HeapConstants ==
    /\ HEADER_SIZE \in Nat \ {0} /\ Top \in Nat /\ U64 \in Nat /\ U64 > Top
    /\ InitialSize \in Nat /\ InitialSize >= MIN_BLOCK_SIZE
    /\ ExpandSize \in Nat /\ ExpandSize >= MIN_BLOCK_SIZE
    /\ Expansions \subseteq Address /\ HeapStart \in Address \ Expansions
    /\ \A s \in Expansions \cup {HeapStart} : s + RegionSize(s) <= Top
    /\ \A s, t \in Expansions \cup {HeapStart} : s < t => s + RegionSize(s) <= t
    /\ RequestSizes \subseteq Nat \ {0}
    /\ \A n \in RequestSizes : n + HEADER_SIZE < U64
    /\ Nil \notin Address

-----------------------------------------------------------------------------
(* The free list.  h is a heap, b the address of a block. *)

\* The blocks of the list in the order in which a walk meets them.
MaxBlocks == Top \div MIN_BLOCK_SIZE + 1
FreeList(h) ==
    LET walk[n \in 0 .. MaxBlocks] ==
            IF n = 0 THEN h.first
            ELSE LET before == walk[n - 1]
                 IN  IF before = Nil THEN Nil ELSE h.header[before].next
        length == Cardinality({n \in 0 .. MaxBlocks : walk[n] # Nil})
    IN  [i \in 1 .. length |-> walk[i - 1]]

SetPrev(h, b, p) == IF b = Nil THEN h ELSE [h EXCEPT !.header[b].prev = p]
SetNext(h, b, n) ==
    IF b = Nil THEN [h EXCEPT !.first = n] ELSE [h EXCEPT !.header[b].next = n]

\* b is linked in behind p, or as the first.
Link(h, p, b) ==
    LET n == IF p = Nil THEN h.first ELSE h.header[p].next
    IN  SetPrev(SetNext([h EXCEPT !.header[b] = [@ EXCEPT !.free = TRUE,
                                                          !.next = n, !.prev = p]],
                        p, b),
                n, b)

\* The walk stops at the last block, or before the first one above b.
Predecessor(h, b) ==
    LET list == FreeList(h)
    IN  IF list = << >> \/ b < list[1] THEN Nil
        ELSE list[Min({i \in DOMAIN list : i = Len(list) \/ list[i + 1] >= b})]
heap_list_add(h, b) == Link(h, Predecessor(h, b), b)

heap_list_remove(h, b) ==
    LET n == h.header[b].next
        p == h.header[b].prev
    IN  [SetPrev(SetNext(h, p, n), n, p) EXCEPT
            !.header[b] = [@ EXCEPT !.next = Nil, !.prev = Nil, !.free = FALSE]]

\* The block b absorbs the next block of the list if that follows it in memory.
Absorb(h, b) ==
    LET n == h.header[b].next
    IN  IF n # Nil /\ b + h.header[b].size = n /\ h.header[n].free
          THEN SetPrev([h EXCEPT !.header[b].size = @ + h.header[n].size,
                                 !.header[b].next = h.header[n].next],
                       h.header[n].next, b)
          ELSE h
coalesce_next_only(h, b) == Absorb(h, b)
coalesce(h, b) ==
    LET after == Absorb(h, b)
        p == after.header[b].prev
    IN  IF p # Nil /\ after.header[p].free /\ p + after.header[p].size = b
          THEN Absorb(after, p)
          ELSE after

-----------------------------------------------------------------------------
(* Allocation and release. *)

\* The first of the smallest blocks that are large enough.
find_free_block(h, size) ==
    LET list == FreeList(h)
        fit == {i \in DOMAIN list : h.header[list[i]].free /\ h.header[list[i]].size >= size}
        best == {i \in fit : \A k \in fit : h.header[list[i]].size <= h.header[list[k]].size}
    IN  IF fit = {} THEN Nil ELSE list[Min(best)]

\* The remainder becomes a free block unless it is too small for one.  The
\* subtraction is unsigned.
heap_split_block(h, b, size) ==
    LET remaining == (h.header[b].size - size) % U64
        new == b + size
    IN  IF remaining < MIN_BLOCK_SIZE THEN h
        ELSE heap_list_add([h EXCEPT
               !.header[new] = [size |-> remaining, free |-> FALSE, next |-> Nil, prev |-> b],
               !.header[b].next = new,
               !.header[b].size = size], new)

\* What follows the header belongs to the caller.
HandOut(h, b) ==
    [h EXCEPT !.header = [a \in Address |->
        IF a \in Extend(b, h.header[b].size) \ {b} THEN Nil ELSE h.header[a]]]

\* The rest of kmalloc once a block of the list has been found.
Take(h, b, n) ==
    LET end == HandOut(heap_split_block(heap_list_remove(h, b), b, n + HEADER_SIZE), b)
    IN  /\ heap' = end
        /\ used' = [a \in DOMAIN used \cup {b} |-> IF a = b THEN n ELSE used[a]]
        /\ current_usage' = current_usage + end.header[b].size

\* new_phys from the PMM; a PMM without memory leaves everything as it was.
Expand(start) ==
    heap_list_add([heap EXCEPT !.header[start] =
                    [size |-> ExpandSize, free |-> FALSE, next |-> Nil, prev |-> Nil]],
                  start)

kmalloc(n) ==
    LET found == find_free_block(heap, n + HEADER_SIZE)
    IN  \/ /\ found # Nil
           /\ Take(heap, found, n)
           /\ UNCHANGED <<regions, overrun>>
        \/ /\ found = Nil
           /\ \E start \in Expansions \ DOMAIN regions :
                /\ regions' = [s \in DOMAIN regions \cup {start} |->
                                 IF s = start THEN ExpandSize ELSE regions[s]]
                /\ Take(Expand(start), start, n)
           /\ overrun' = (n + HEADER_SIZE > ExpandSize)

kfree_counts_merged(b) ==
    /\ heap' = coalesce(heap_list_add(heap, b), b)
    /\ used' = [a \in DOMAIN used \ {b} |-> used[a]]
    /\ current_usage' = current_usage - heap'.header[b].size
    /\ UNCHANGED <<regions, overrun>>
kfree(b) ==
    /\ heap' = coalesce(heap_list_add(heap, b), b)
    /\ used' = [a \in DOMAIN used \ {b} |-> used[a]]
    /\ current_usage' = current_usage - heap.header[b].size
    /\ UNCHANGED <<regions, overrun>>

-----------------------------------------------------------------------------
(* Callers.  They release, once, what they hold. *)

HeapInit ==
    /\ heap = [header |-> [a \in Address |->
                 IF a = HeapStart THEN [size |-> InitialSize, free |-> TRUE,
                                        next |-> Nil, prev |-> Nil]
                                  ELSE Nil],
               first |-> HeapStart]
    /\ regions = [s \in {HeapStart} |-> InitialSize]
    /\ current_usage = 0
    /\ used = << >>
    /\ moving = Nil
    /\ overrun = FALSE

AllocateBlock ==
    /\ \E n \in RequestSizes : kmalloc(n)
    /\ UNCHANGED moving

Busy == IF moving = Nil THEN {} ELSE {moving[1], moving[2]}

FreeBlock ==
    /\ \E b \in DOMAIN used \ Busy : kfree(b)
    /\ UNCHANGED moving

\* A block that is large enough stays where it is.
krealloc_in_place_over_header ==
    \E b \in DOMAIN used \ Busy, n \in RequestSizes :
        /\ n # used[b]
        /\ n <= heap.header[b].size
        /\ used' = [used EXCEPT ![b] = n]
        /\ UNCHANGED <<heap, regions, current_usage, moving, overrun>>
krealloc_in_place ==
    \E b \in DOMAIN used \ Busy, n \in RequestSizes :
        /\ n # used[b]
        /\ n <= heap.header[b].size - HEADER_SIZE
        /\ used' = [used EXCEPT ![b] = n]
        /\ UNCHANGED <<heap, regions, current_usage, moving, overrun>>

krealloc_begin ==
    /\ moving = Nil
    /\ \E b \in DOMAIN used, n \in RequestSizes :
         /\ n > heap.header[b].size - HEADER_SIZE
         /\ kmalloc(n)
         /\ \E new \in DOMAIN used' \ DOMAIN used : moving' = <<b, new>>

krealloc_end ==
    /\ moving # Nil
    /\ kfree(moving[1])
    /\ moving' = Nil

krealloc == krealloc_in_place \/ krealloc_begin \/ krealloc_end

HeapNext == ~overrun /\ (AllocateBlock \/ FreeBlock \/ krealloc)

HeapSpec == HeapInit /\ [][HeapNext]_heap_vars

-----------------------------------------------------------------------------
(* Properties. *)

Linked == ToSet(FreeList(heap))
HeapBlocks == Linked \cup DOMAIN used
BlockAt(b) == Extend(b, heap.header[b].size)

\* Every field keeps its type, and each block of the list or in use still has
\* its header.
HeapTypeOK ==
    /\ heap.first \in Address \cup {Nil}
    /\ \A a \in Address : heap.header[a] \in Header \cup {Nil}
    /\ \A b \in HeapBlocks : heap.header[b] \in Header
    /\ current_usage \in Nat
    /\ moving = Nil \/ (moving[1] \in DOMAIN used /\ moving[2] \in DOMAIN used)

\* The blocks of the free list and the blocks in use partition the memory that
\* came from the PMM: nothing is handed out twice, lost, or beyond its end,
\* after any order of kmalloc, kfree and krealloc.
Tiled ==
    /\ UNION {BlockAt(b) : b \in HeapBlocks} =
         UNION {Extend(s, regions[s]) : s \in DOMAIN regions}
    /\ \A b, c \in HeapBlocks : b # c => BlockAt(b) \cap BlockAt(c) = {}
    /\ Linked \cap DOMAIN used = {}

\* The list is in the order of addresses, its links agree in both directions,
\* and the flag of a block, which kfree takes for a sign of a double free,
\* tells whether the block is in it.
ListSound ==
    LET list == FreeList(heap)
    IN  /\ \A i \in 1 .. Len(list) :
             /\ heap.header[list[i]].prev = IF i = 1 THEN Nil ELSE list[i - 1]
             /\ i > 1 => list[i - 1] < list[i]
        /\ \A b \in HeapBlocks : heap.header[b].free <=> b \in Linked

\* A caller has the room it asked for behind the header, also after krealloc
\* left the block where it was; until an expansion is too small for a request.
RoomAsAsked ==
    overrun \/ \A b \in DOMAIN used : heap.header[b].size >= used[b] + HEADER_SIZE

\* Free memory does not stay in pieces: two free blocks that touch do so only
\* where memory from two expansions meets; until an expansion is too small.
NoFreeNeighbours ==
    overrun \/ \A b \in Linked : b + heap.header[b].size \in Linked =>
        b + heap.header[b].size \in DOMAIN regions

\* current_usage is the size of all blocks in use, headers and slack included.
UsageExact ==
    current_usage = FoldSet(LAMBDA b, sum : heap.header[b].size + sum, 0, DOMAIN used)

\* What makes the heap right, taken together: the blocks tile the memory, the
\* list is sound and the usage exact (kmalloc, kfree, krealloc).  It holds until
\* an expansion is too small for the request it was made for.
HeapInv == overrun \/ (HeapTypeOK /\ Tiled /\ ListSound /\ UsageExact)
=============================================================================
