-------------------------------- MODULE Ept ----------------------------------
(***************************************************************************)
(* Extended page tables (src/vmm/ept.c): walking, mapping with pages of    *)
(* three sizes, ranges, unmapping, permissions, creation and destruction   *)
(* of a context, and the table pages it takes from the physical memory     *)
(* manager, which may have none left at any level of a walk.               *)
(*                                                                         *)
(* Callers keep to what the tables can express: no page is mapped inside   *)
(* a larger page that is still mapped, and permissions are changed only    *)
(* of what is mapped.  mapped_pages is left out: nothing reads it.         *)
(***************************************************************************)
EXTENDS PageTables

CONSTANTS
    EptPages,       \* table pages that are left when the first context is made
    Guest,          \* guest pages in use
    HostBases,      \* frames a run can be mapped to
    RunLengths,     \* lengths of ranges
    Perms           \* permissions asked for

ASSUME EptConstants ==
    /\ EptPages \subseteq TablePages
    /\ Guest \subseteq 0 .. ENTRIES * Size(4) - 1
    /\ HostBases \subseteq Nat /\ RunLengths \subseteq Nat \ {0}
    /\ Perms \subseteq SUBSET {"R", "W", "X"}

VARIABLES
    pml4,           \* the context's top table, 0 while there is no context
    ept_mem,        \* the memory of the tables: tab, free
    view,           \* history: what a walk finds for every guest page
    ept_call        \* history: the call just made, its arguments and its answer

ept_vars == <<pml4, ept_mem, view, ept_call>>

NoContext == pml4 = 0

\* What a walk finds, the processor's or that of ept_get_entry_value.
Finding(s, root, g) == IF root = 0 THEN Unmapped ELSE Translation(s, root, g)

Call(op, g, h, n, perm, ret) ==
    [op |-> op, g |-> g, h |-> h, n |-> n, perm |-> perm, ret |-> ret]

EptInit ==
    /\ pml4 = 0
    /\ view = [g \in Guest |-> Unmapped]
    /\ ept_call = Call("none", 0, 0, 0, {}, 0)
    /\ ept_mem = [tab |-> [p \in TablePages |-> BlankTable], free |-> EptPages]

-----------------------------------------------------------------------------
\* What is left in pages that no walk reaches counts for nothing, for a new
\* table is cleared; the model blanks them.
Tidy(s, root) ==
    LET used == IF root = 0 THEN {} ELSE {root} \cup Reachable(s, root, TabIndex)
    IN  [s EXCEPT !.tab = [p \in TablePages |-> IF p \in used THEN @[p] ELSE BlankTable]]

ept_create ==
    /\ NoContext
    /\ ept_mem.free # {}
    /\ pml4' = alloc_table(ept_mem)
    /\ ept_mem' = WithTable(ept_mem, pml4')
    /\ ept_call' = Call("create", 0, 0, 0, {}, 0)

\* Only the top table goes back; the tables below it are lost.
ept_destroy_keeps_pointer ==
    /\ ~NoContext
    /\ ept_mem' = Tidy([ept_mem EXCEPT !.free = @ \cup {pml4}], 0)
    /\ ept_call' = Call("destroy", 0, 0, 0, {}, 0)
    /\ UNCHANGED pml4
ept_destroy ==
    /\ ~NoContext
    /\ ept_mem' = Tidy([ept_mem EXCEPT !.free = @ \cup {pml4}], 0)
    /\ ept_call' = Call("destroy", 0, 0, 0, {}, 0)
    /\ pml4' = 0

ept_walk(s, g, create) == walk(s, pml4, g, create)

-----------------------------------------------------------------------------
(* Mapping, as functions of the memory: what is there afterwards, and      *)
(* whether the operation went through.                                     *)

Outcome(s, ok) == [s |-> s, ok |-> ok]
Returned(r) == IF r.ok THEN 0 ELSE -1

map_page(s, g, h, perm) ==
    LET w == ept_walk(s, g, TRUE)
    IN  Outcome(IF w.ok THEN Store(w, PageEntry(h, perm, FALSE)) ELSE w.s, w.ok)

map_large(s, level, g, h, perm) ==
    LET w == WalkTo(s, pml4, g, level)
    IN  Outcome(IF w.ok THEN Store(w, PageEntry(Aligned(h, level), perm, TRUE)) ELSE w.s, w.ok)

\* ept_map_range: 2M pages while both addresses are aligned and the rest is
\* large enough, 4K pages from then on; the first failure ends it.
LargePages_guest_aligned(g, h, n) == IF g % Size(2) = 0 THEN n \div Size(2) ELSE 0
LargePages(g, h, n) ==
    IF g % Size(2) = 0 /\ h % Size(2) = 0 THEN n \div Size(2) ELSE 0
\* The i-th page of a range, unless an earlier one has failed.
range_2m(r, g, h, i, perm) ==
    IF r.ok THEN map_large(r.s, 2, g + (i - 1) * Size(2), h + (i - 1) * Size(2), perm) ELSE r
range_4k(r, g, h, i, perm) ==
    IF r.ok THEN map_page(r.s, g + i - 1, h + i - 1, perm) ELSE r
map_range(s, g, h, n, perm) ==
    LET large == LargePages(g, h, n)
        done == large * Size(2)
        half == FoldLeft(LAMBDA r, i : range_2m(r, g, h, i, perm), Outcome(s, TRUE),
                         [i \in 1..large |-> i])
    IN  FoldLeft(LAMBDA r, i : range_4k(r, g + done, h + done, i, perm), half,
                 [i \in 1..(n - done) |-> i])

-----------------------------------------------------------------------------
(* The operations.  A larger page over the address, if there is one: *)

LargerPage(g, level) ==
    LET w == ept_walk(ept_mem, g, FALSE)
    IN  w.ok /\ w.level > level /\ Entry(w).large

ept_map_page(g, h, perm) ==
    LET r == map_page(ept_mem, g, h, perm)
    IN  /\ ~NoContext /\ ~LargerPage(g, 1)
        /\ ept_mem' = r.s
        /\ ept_call' = Call("map", g, h, 1, perm, Returned(r))
        /\ UNCHANGED pml4

ept_map_page_large(level, g, h, perm) ==
    LET r == map_large(ept_mem, level, Aligned(g, level), h, perm)
    IN  /\ ~NoContext /\ ~LargerPage(g, level)
        /\ Block(g, level) \subseteq Guest
        /\ ept_mem' = Tidy(r.s, pml4)
        /\ ept_call' = Call("map", g, h, Size(level), perm, Returned(r))
        /\ UNCHANGED pml4
ept_map_page_2m(g, h, perm) == ept_map_page_large(2, g, h, perm)
ept_map_page_1g(g, h, perm) == ept_map_page_large(3, g, h, perm)

ept_map_range(g, h, n, perm) ==
    LET r == map_range(ept_mem, g, h, n, perm)
    IN  /\ ~NoContext
        /\ g .. g + n - 1 \subseteq Guest
        /\ \A x \in g .. g + n - 1 : ~LargerPage(x, 1)
        /\ ept_mem' = Tidy(r.s, pml4)
        /\ ept_call' = Call("range", g, h, n, perm, Returned(r))
        /\ UNCHANGED pml4

\* Takes away the whole page, of whatever size, that maps the address.
ept_unmap_page(g) ==
    LET w == ept_walk(ept_mem, g, FALSE)
        found == w.ok /\ Present(Entry(w))
    IN  /\ ~NoContext
        /\ ept_mem' = IF found THEN Store(w, Absent) ELSE ept_mem
        /\ ept_call' = Call("unmap", g, 0, 0, {}, IF found THEN 0 ELSE -1)
        /\ UNCHANGED pml4

ept_set_permissions(g, perm) ==
    LET w == ept_walk(ept_mem, g, FALSE)
    IN  /\ ~NoContext
        /\ w.ok => Entry(w) # Absent
        /\ ept_mem' = IF w.ok THEN Store(w, [Entry(w) EXCEPT !.perm = perm]) ELSE ept_mem
        /\ ept_call' = Call("protect", g, 0, 0, perm, Returned(w))
        /\ UNCHANGED pml4

ept_get_host_phys(g) ==
    LET w == ept_walk(ept_mem, g, FALSE)
    IN  /\ ~NoContext
        /\ ept_call' = Call("get", g, 0, 0, {},
                            IF ~w.ok \/ ~Present(Entry(w)) THEN 0
                            ELSE Entry(w).to + (g % Size(w.level)))
        /\ UNCHANGED <<pml4, ept_mem>>

Operation ==
    \/ ept_create
    \/ ept_destroy
    \/ \E g \in Guest, h \in HostBases, perm \in Perms :
         \/ ept_map_page(g, h, perm)
         \/ ept_map_page_2m(g, h, perm)
         \/ ept_map_page_1g(g, h, perm)
         \/ \E n \in RunLengths : ept_map_range(g, h, n, perm)
    \/ \E g \in Guest : ept_unmap_page(g) \/ ept_get_host_phys(g)
    \/ \E g \in Guest, perm \in Perms : ept_set_permissions(g, perm)

EptNext ==
    /\ Operation
    /\ view' = [g \in Guest |-> Finding(ept_mem', pml4', g)]

EptSpec == EptInit /\ [][EptNext]_ept_vars

-----------------------------------------------------------------------------
(* Properties. *)

Promise == INSTANCE GuestMap WITH map <- view, call <- ept_call

\* The tables implement a plain map from guest pages to frames: whatever mixture
\* of page sizes, ranges, large pages over tables and failed allocations, a call
\* maps exactly the pages it was given to the frames it was given, or a
\* beginning of them if it fails; takes away or protects the one page at its
\* address; and answers as the map says (ept_map_page, ept_map_range,
\* ept_unmap_page, ept_set_permissions, ept_get_host_phys).
ImplementsGuestMap == Promise!Spec

\* The tables of the context form a tree below its top table that shares no
\* page with the memory manager's free pages: through failed walks, large pages
\* laid over tables and contexts torn down and built again, no table is in use
\* twice or given away while the hardware walks it (ept_alloc_table, ept_walk,
\* ept_destroy).
TablesSound ==
    ~NoContext =>
        /\ IsTree(ept_mem, pml4, TabIndex)
        /\ ({pml4} \cup Reachable(ept_mem, pml4, TabIndex)) \cap ept_mem.free = {}
        /\ pml4 \notin Reachable(ept_mem, pml4, TabIndex)
=============================================================================
