--------------------------------- MODULE Pmm ---------------------------------
(***************************************************************************)
(* The physical memory manager (src/mm/pmm.c): a buddy allocator with one  *)
(* free list per zone and order.  pmm_lock is held from the first look at  *)
(* a page to the last update, so an allocation and a release are atomic.   *)
(*                                                                         *)
(* Pages are page frame numbers.  A list is a sequence, head first; the    *)
(* links of the page structures are the order of the sequence.             *)
(***************************************************************************)
EXTENDS Integers, SequencesExt

CONSTANTS
    PageCount,      \* page_count
    PMM_MAX_ORDER,
    Reserved,       \* pages pmm_init leaves reserved: kernel, page array, holes
    NormalStart,    \* first page of ZONE_NORMAL (16 MB)
    HighStart       \* first page of ZONE_HIGH (4 GB)

\* The pages of a block of that order.
BlockSize(o) == 2^o

ASSUME PmmConstants ==
    /\ PageCount \in Nat /\ PMM_MAX_ORDER \in Nat
    /\ Reserved \subseteq 0 .. PageCount - 1 /\ 0 \in Reserved
    /\ NormalStart \in Nat /\ HighStart \in Nat /\ NormalStart <= HighStart
    /\ NormalStart % BlockSize(PMM_MAX_ORDER) = 0 /\ HighStart % BlockSize(PMM_MAX_ORDER) = 0

VARIABLES
    page_flags,     \* FREE, PRESENT or RESERVED; stale inside a block
    order,          \* order of the block a page heads; stale inside a block
    free_lists,     \* free_lists[zone][order]
    free_pages,     \* per zone
    free_memory,    \* pmm_stats, in pages
    held            \* the blocks callers hold: <<first page, order>>

vars == <<page_flags, order, free_lists, free_pages, free_memory, held>>

Page == 0 .. PageCount - 1
Order == 0..PMM_MAX_ORDER
Zone == {"DMA", "NORMAL", "HIGH"}
Available == Page \ Reserved

get_zone(p) == IF p < NormalStart THEN "DMA"
               ELSE IF p < HighStart THEN "NORMAL" ELSE "HIGH"

\* pfn ^ (1 << order), for a page that starts a block of that order.
get_buddy(p, o) == IF (p \div BlockSize(o)) % 2 = 0 THEN p + BlockSize(o) ELSE p - BlockSize(o)

-----------------------------------------------------------------------------
(* Operations on the memory map m = [flags, order, free_lists, free_pages]. *)

Memory == [flags |-> page_flags, order |-> order, free_lists |-> free_lists,
           free_pages |-> free_pages]
Store(m) ==
    /\ page_flags' = m.flags
    /\ order' = m.order
    /\ free_lists' = m.free_lists
    /\ free_pages' = m.free_pages

free_list_add(m, z, p, o) ==
    [flags |-> [m.flags EXCEPT ![p] = "FREE"],
     order |-> [m.order EXCEPT ![p] = o],
     free_lists |-> [m.free_lists EXCEPT ![z][o] = <<p>> \o @],
     free_pages |-> [m.free_pages EXCEPT ![z] = @ + BlockSize(o)]]

\* The flags and the order of the page stay as they are.
free_list_remove(m, z, p, o) ==
    [flags |-> m.flags, order |-> m.order,
     free_lists |-> [m.free_lists EXCEPT ![z][o] = RemoveFirst(@, p)],
     free_pages |-> [m.free_pages EXCEPT ![z] = @ - BlockSize(o)]]

\* The upper halves go to the free lists, the largest first.
split_block_keeps_lower(m, z, p, cur, target) ==
    LET add(n, k) == free_list_add(n, z, p, cur - k)
    IN  FoldLeft(add, m, [k \in 1 .. cur - target |-> k])
split_block(m, z, p, cur, target) ==
    LET add(n, k) == free_list_add(n, z, p + BlockSize(cur - k), cur - k)
    IN  FoldLeft(add, m, [k \in 1 .. cur - target |-> k])

\* The buddy is part of the merge when its page says free, in that order.
CanMerge_pages_only(m, p, o) ==
    /\ o = 0
    /\ get_buddy(p, o) < PageCount
    /\ m.flags[get_buddy(p, o)] = "FREE"
    /\ m.order[get_buddy(p, o)] = o
CanMerge(m, p, o) ==
    /\ o < PMM_MAX_ORDER
    /\ get_buddy(p, o) < PageCount
    /\ m.flags[get_buddy(p, o)] = "FREE"
    /\ m.order[get_buddy(p, o)] = o

\* Where the merged block starts.
MergedPage(p, b) == IF b < p THEN b ELSE p

\* state[k] is the loop after k merges; it stops at the first buddy that
\* cannot be merged.
coalesce_buddies(m, z, p, o) ==
    LET state[k \in 0 .. PMM_MAX_ORDER - o] ==
          IF k = 0 THEN [mem |-> m, page |-> p, order |-> o, stop |-> FALSE]
          ELSE LET s == state[k - 1]
                   b == get_buddy(s.page, s.order)
               IN  IF s.stop \/ ~CanMerge(s.mem, s.page, s.order)
                     THEN [s EXCEPT !.stop = TRUE]
                     ELSE [mem |-> free_list_remove(s.mem, z, b, s.order),
                           page |-> MergedPage(s.page, b),
                           order |-> s.order + 1, stop |-> FALSE]
        end == state[PMM_MAX_ORDER - o]
    IN  free_list_add(end.mem, z, end.page, end.order)

-----------------------------------------------------------------------------
\* Every available page is put on the list of order 0, page by page, without
\* a merge.
pmm_init ==
    LET blank == [flags |-> [p \in Page |-> "RESERVED"],
                  order |-> [p \in Page |-> 0],
                  free_lists |-> [z \in Zone |-> [o \in Order |-> << >>]],
                  free_pages |-> [z \in Zone |-> 0]]
        add(m, p) == IF p \in Available THEN free_list_add(m, get_zone(p), p, 0) ELSE m
    IN  FoldLeft(add, blank, [i \in 1..PageCount |-> i - 1])

Init ==
    /\ page_flags = pmm_init.flags
    /\ order = pmm_init.order
    /\ free_lists = pmm_init.free_lists
    /\ free_pages = pmm_init.free_pages
    /\ free_memory = Cardinality(Available)
    /\ held = {}

\* The lists that hold a large enough block, in the order they are searched:
\* ZONE_NORMAL before ZONE_DMA, ZONE_HIGH never.
Fits(z, o) == {k \in o..PMM_MAX_ORDER : free_lists[z][k] # << >>}
SearchedZone(o) ==
    IF Fits("NORMAL", o) # {} THEN "NORMAL"
    ELSE IF Fits("DMA", o) # {} THEN "DMA" ELSE "HIGH"

pmm_alloc_pages(o) ==
    LET z == SearchedZone(o)
        k == Min(Fits(z, o))
        p == Head(free_lists[z][k])
        m == split_block(free_list_remove(Memory, z, p, k), z, p, k, o)
    IN  /\ z # "HIGH"
        /\ Store([m EXCEPT !.flags[p] = "PRESENT", !.order[p] = o])
        /\ free_memory' = free_memory - BlockSize(o)
        /\ held' = held \cup {<<p, o>>}

\* A caller gives back a block it holds.  A page whose flag says free already
\* is left alone.
pmm_free_pages(p, o) ==
    /\ <<p, o>> \in held
    /\ held' = held \ {<<p, o>>}
    /\ IF p = 0 \/ page_flags[p] = "FREE"
         THEN UNCHANGED <<page_flags, order, free_lists, free_pages, free_memory>>
         ELSE /\ Store(coalesce_buddies(Memory, get_zone(p), p, o))
              /\ free_memory' = free_memory + BlockSize(o)

Next ==
    \/ \E o \in Order : pmm_alloc_pages(o)
    \/ \E p \in Page, o \in Order : pmm_free_pages(p, o)

Spec == Init /\ [][Next]_vars

-----------------------------------------------------------------------------
(* Properties. *)

Block(p, o) == p .. p + BlockSize(o) - 1
FreeBlocks == {b \in Page \X Order :
                 \E z \in Zone : Contains(free_lists[z][b[2]], b[1])}
Blocks == FreeBlocks \cup held

\* Every field keeps its type; the lists hold pages of their zone.
TypeOK ==
    /\ page_flags \in [Page -> {"FREE", "PRESENT", "RESERVED"}]
    /\ order \in [Page -> Order]
    /\ \A z \in Zone : \A o \in Order :
         \A i \in DOMAIN free_lists[z][o] : get_zone(free_lists[z][o][i]) = z
    /\ free_pages \in [Zone -> 0..PageCount]
    /\ free_memory \in 0..PageCount
    /\ held \subseteq Page \X Order

\* No page is handed out twice or lost: the free blocks and the blocks in use
\* partition the available memory, through any sequence of splits and merges,
\* although the flags of the pages inside a block are stale.
Partition ==
    /\ UNION {Block(b[1], b[2]) : b \in Blocks} = Available
    /\ \A b, c \in Blocks : b # c => Block(b[1], b[2]) \cap Block(c[1], c[2]) = {}
    /\ FreeBlocks \cap held = {}

\* A block of order o starts at a multiple of its size, so that a caller gets
\* naturally aligned memory and a buddy is where get_buddy looks for it.
Aligned == \A b \in Blocks : b[1] % BlockSize(b[2]) = 0

\* The first page of every block tells what the block is; CanMerge and the
\* double-free test read nothing else.
HeadsExact ==
    /\ \A b \in FreeBlocks : page_flags[b[1]] = "FREE" /\ order[b[1]] = b[2]
    /\ \A b \in held : page_flags[b[1]] = "PRESENT" /\ order[b[1]] = b[2]

\* The two ways of counting free memory, the statistics and the zones, agree
\* with each other and with the free lists.
PagesIn(z) ==
    FoldSet(LAMBDA b, n : n + BlockSize(b[2]), 0, {b \in FreeBlocks : get_zone(b[1]) = z})
CountsAgree ==
    /\ \A z \in Zone : free_pages[z] = PagesIn(z)
    /\ free_memory = free_pages["DMA"] + free_pages["NORMAL"] + free_pages["HIGH"]

\* What makes the buddy allocator right, taken together: the memory is
\* partitioned, aligned, described by its heads and counted (pmm_alloc_pages,
\* pmm_free_pages).
BuddyInv == TypeOK /\ Partition /\ Aligned /\ HeadsExact /\ CountsAgree

\* Released memory is merged as far as it can be: above order 0, the order in
\* which pmm_init left it, no two buddies are both free.
NoFreeBuddies ==
    \A b \in FreeBlocks :
        b[2] \in 1 .. PMM_MAX_ORDER - 1 => <<get_buddy(b[1], b[2]), b[2]>> \notin FreeBlocks

\* An allocation succeeds when an aligned run of free pages of its size exists
\* in a zone that is searched.
AllocFindsFreeRun ==
    \A o \in Order :
        (\E p \in Page :
            /\ p % BlockSize(o) = 0
            /\ get_zone(p) # "HIGH"
            /\ Block(p, o) \subseteq UNION {Block(b[1], b[2]) : b \in FreeBlocks})
        => SearchedZone(o) # "HIGH"
=============================================================================
