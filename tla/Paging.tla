------------------------------- MODULE Paging --------------------------------
(***************************************************************************)
(* The kernel's page tables (src/mm/paging.c): contexts that share the     *)
(* tables of the kernel's half, mapping with pages of three sizes,         *)
(* unmapping, destruction, the table pages taken from the physical memory  *)
(* manager, and the TLB of the processor that runs it all.                 *)
(*                                                                         *)
(* The boot code leaves one context whose two halves share their tables    *)
(* (src/boot/boot.S).  Callers align large pages, map no page inside a     *)
(* larger one, do not destroy the context that is loaded, and use kernel   *)
(* memory through its half.                                                *)
(***************************************************************************)
EXTENDS PageTables

CONSTANTS
    Requests,       \* what is mapped: first page, frame, number of pages, sizes
    Runs,           \* what is unmapped: first page, number of pages
    TlbSlots        \* translations the processor can hold

VARIABLES
    contexts,       \* top tables of the contexts created
    mem,            \* the memory of the tables: tab, free
    cr3,            \* top table that is loaded
    tlb,            \* translations the processor holds; laid (history): a large
                    \* page was laid over the address since
    orphans         \* history: tables in use by nobody that were not freed

vars == <<contexts, mem, cr3, tlb, orphans>>

-----------------------------------------------------------------------------
(* Boot: the top table, and for both halves one table of level 3 with one  *)
(* of level 2 below it, full of large pages.                               *)

kernel_pml4 == 1
BootTables == {1, 2, 3}
KernelHalf == {i \in TabIndex : 2 * i >= ENTRIES}
UserHalf == TabIndex \ KernelHalf
Address == 0 .. ENTRIES ^ 4 - 1
IsKernel(virt) == IndexOf(virt, 4) \in KernelHalf

Kernel == {"R", "W", "X"}
BootTable(p) ==
    CASE p = 1 -> [i \in TabIndex |-> IF i \in {Min(UserHalf), Min(KernelHalf)} THEN TableEntry(2) ELSE Absent]
      [] p = 2 -> [i \in TabIndex |-> IF i = 0 THEN TableEntry(3) ELSE Absent]
      [] p = 3 -> [i \in TabIndex |-> PageEntry(i * Size(2), Kernel, TRUE)]
      [] OTHER -> BlankTable

Init ==
    /\ contexts = {}
    /\ mem = [tab |-> [p \in TablePages |-> BootTable(p)], free |-> TablePages \ BootTables]
    /\ cr3 = kernel_pml4
    /\ tlb = {}
    /\ orphans = {}

-----------------------------------------------------------------------------
paging_create_context ==
    /\ mem.free # {}
    /\ LET root == alloc_table(mem)
           kernel == mem.tab[kernel_pml4]
       IN  /\ contexts' = contexts \cup {root}
           /\ mem' = [WithTable(mem, root) EXCEPT
                        !.tab[root] = [i \in TabIndex |-> IF i \in KernelHalf THEN kernel[i] ELSE Absent]]
    /\ UNCHANGED <<cr3, tlb, orphans>>

\* Tables in the kernel's half that only this context knows: a mapping made
\* through it found an entry of its top table empty which the kernel's top
\* table, at its creation, did not fill.
OwnSlots(root) == {i \in KernelHalf : mem.tab[root][i] # mem.tab[kernel_pml4][i]}
OwnKernelTables(root) == Reachable(mem, root, OwnSlots(root))

\* The loops over the entries of the lower half; the context's own tables in
\* the upper half are lost.  Contents of pages that no walk reaches count for
\* nothing and are blanked.
UserTables(root) == Reachable(mem, root, UserHalf)
Blanked(s, pages) ==
    [s EXCEPT !.tab = [p \in TablePages |-> IF p \in pages THEN BlankTable ELSE @[p]]]
Released(s, pages) == [Blanked(s, pages) EXCEPT !.free = @ \cup pages]
paging_destroy_context_all_entries(root) ==
    /\ root # cr3
    /\ mem' = Released(mem, Reachable(mem, root, TabIndex) \cup {root})
    /\ contexts' = contexts \ {root}
    /\ UNCHANGED <<cr3, tlb, orphans>>
paging_destroy_context(root) ==
    /\ root # cr3
    /\ mem' = Blanked(Released(mem, UserTables(root) \cup {root}), OwnKernelTables(root))
    /\ contexts' = contexts \ {root}
    /\ orphans' = orphans \cup OwnKernelTables(root)
    /\ UNCHANGED <<cr3, tlb>>

paging_switch_context(root) ==
    /\ cr3' = root
    /\ tlb' = {}
    /\ UNCHANGED <<contexts, mem, orphans>>

get_pte(s, root, virt, create) == walk(s, root, virt, create)

-----------------------------------------------------------------------------
(* Mapping.  r is the memory so far, with the addresses flushed from the   *)
(* TLB, those below the large pages laid down, for which the code flushes  *)
(* nothing, and the tables that got lost below them.                       *)

Lost(s, e, level) ==
    IF ~Present(e) \/ e.large THEN {}
    ELSE {e.to} \cup (IF level = 3 THEN Children(s, e.to, 2) ELSE {})

map_4k(r, root, virt, frame) ==
    LET w == get_pte(r.s, root, virt, TRUE)
    IN  IF ~w.ok THEN [r EXCEPT !.s = w.s, !.ok = FALSE]
        ELSE [r EXCEPT !.s = Store(w, PageEntry(frame, Kernel, FALSE)),
                       !.flush = @ \cup Block(virt, w.level)]

LayOver(r, w, virt, frame) ==
    IF ~w.ok THEN [r EXCEPT !.s = w.s, !.ok = FALSE]
    ELSE [r EXCEPT !.s = Store(w, PageEntry(frame, Kernel, TRUE)),
                   !.laid = @ \cup Block(virt, w.level),
                   !.lost = @ \cup Lost(w.s, Entry(w), w.level)]

map_2m(r, root, virt, frame) == LayOver(r, WalkTo(r.s, root, virt, 2), virt, frame)

\* get_pte builds the tables down to level 1 before the entry is overwritten.
map_1g(r, root, virt, frame) ==
    LET w == get_pte(r.s, root, virt, TRUE)
    IN  IF ~w.ok THEN [r EXCEPT !.s = w.s, !.ok = FALSE]
        ELSE LayOver(r, WalkTo(w.s, root, virt, 3), virt, frame)

\* The pieces of a request, large ones first as far as they are asked for.
Pieces(req) ==
    LET n3 == IF 3 \in req.sizes THEN req.n \div Size(3) ELSE 0
        n2 == IF 2 \in req.sizes THEN (req.n - n3 * Size(3)) \div Size(2) ELSE 0
        done2 == n3 * Size(3) + n2 * Size(2)
    IN  [i \in 1..n3 |-> [level |-> 3, at |-> (i - 1) * Size(3)]]
          \o [i \in 1..n2 |-> [level |-> 2, at |-> n3 * Size(3) + (i - 1) * Size(2)]]
          \o [i \in 1..(req.n - done2) |-> [level |-> 1, at |-> done2 + i - 1]]

MapPiece(r, root, req, piece) ==
    LET virt == req.virt + piece.at
        frame == req.frame + piece.at
    IN  CASE ~r.ok -> r
          [] r.ok /\ piece.level = 3 -> map_1g(r, root, virt, frame)
          [] r.ok /\ piece.level = 2 -> map_2m(r, root, virt, frame)
          [] r.ok /\ piece.level = 1 -> map_4k(r, root, virt, frame)

Fresh(s) == [s |-> s, ok |-> TRUE, flush |-> {}, laid |-> {}, lost |-> {}]

\* No part of the request lies inside a larger page: see the head of the module.
Allowed(root, req) ==
    \A k \in DOMAIN Pieces(req) :
        LET piece == Pieces(req)[k]
            w == get_pte(mem, root, req.virt + piece.at, FALSE)
        IN  ~(Entry(w).large /\ w.level > piece.level)

\* The TLB after some addresses were flushed and large pages laid over others.
TlbAfter(r) == {[t EXCEPT !.laid = @ \/ t.virt \in r.laid] : t \in {u \in tlb : u.virt \notin r.flush}}

paging_map(root, req) ==
    /\ Allowed(root, req)
    /\ LET r == FoldLeft(LAMBDA acc, piece : MapPiece(acc, root, req, piece), Fresh(mem), Pieces(req))
       IN  /\ mem' = Blanked(r.s, r.lost)
           /\ tlb' = TlbAfter(r)
           /\ orphans' = orphans \cup (r.lost \ BootTables)
    /\ UNCHANGED <<contexts, cr3>>

\* Page by page; the page found may be a large one, and goes as a whole.
unmap_4k_no_flush(r, root, virt) ==
    LET w == get_pte(r.s, root, virt, FALSE)
    IN  IF ~w.ok \/ ~Present(Entry(w)) THEN r
        ELSE [r EXCEPT !.s = Store(w, Absent)]
unmap_4k(r, root, virt) ==
    LET w == get_pte(r.s, root, virt, FALSE)
    IN  IF ~w.ok \/ ~Present(Entry(w)) THEN r
        ELSE [r EXCEPT !.s = Store(w, Absent), !.flush = @ \cup Block(virt, w.level)]

paging_unmap(root, run) ==
    /\ LET pages == [i \in 1..run.n |-> run.virt + i - 1]
           r == FoldLeft(LAMBDA acc, virt : unmap_4k(acc, root, virt), Fresh(mem), pages)
       IN  /\ mem' = r.s
           /\ tlb' = TlbAfter(r)
    /\ UNCHANGED <<contexts, cr3, orphans>>

\* The processor walks the loaded tables and keeps what it finds, in the place
\* of others when it has no room.
TlbFill(virt) ==
    LET found == Translation(mem, cr3, virt)
    IN  /\ found # Unmapped
        /\ IsKernel(virt) \/ cr3 # kernel_pml4
        /\ \E kept \in {k \in SUBSET tlb : Cardinality(k) < TlbSlots} :
             tlb' = kept \cup {[virt |-> virt, frame |-> found.frame, laid |-> FALSE]}
        /\ UNCHANGED <<contexts, mem, cr3, orphans>>

AllContexts == contexts \cup {kernel_pml4}
InHalf(root, virt) == IsKernel(virt) \/ root # kernel_pml4

Next ==
    \/ paging_create_context
    \/ \E root \in contexts : paging_destroy_context(root)
    \/ \E root \in AllContexts : paging_switch_context(root)
    \/ \E root \in AllContexts, req \in Requests : InHalf(root, req.virt) /\ paging_map(root, req)
    \/ \E root \in AllContexts, run \in Runs : InHalf(root, run.virt) /\ paging_unmap(root, run)
    \/ \E req \in Requests : TlbFill(req.virt)

Spec == Init /\ [][Next]_vars

-----------------------------------------------------------------------------
(* Properties. *)

Owned(root) == {root} \cup UserTables(root) \cup OwnKernelTables(root)
KernelTables == BootTables \cup Reachable(mem, kernel_pml4, KernelHalf)

\* Every table page has one owner: it is free, belongs to one context or to the
\* kernel half all contexts share, or was lost in one of two ways, below a large
\* page or in the kernel's half of a context that was destroyed, where it had
\* tables of its own.  Failed mappings leak nothing, and no table is freed that
\* another context still walks (get_pte, paging_create_context,
\* paging_destroy_context).
TablesAccounted ==
    LET owners == {mem.free, orphans, KernelTables} \cup {Owned(root) : root \in contexts}
    IN  /\ UNION owners = TablePages
        /\ Cardinality(TablePages)
             = Cardinality(mem.free) + Cardinality(orphans) + Cardinality(KernelTables)
                 + FoldSet(LAMBDA root, n : n + Cardinality(Owned(root)), 0, contexts)

\* The processor holds no translation that the loaded tables have given up or
\* changed, except where a large page was laid over it: mapping a page,
\* unmapping one of whatever size and switching contexts flush what they have
\* to (paging_map, paging_unmap, paging_switch_context).
TlbCoherent == \A t \in tlb : ~t.laid => Translation(mem, cr3, t.virt).frame = t.frame
=============================================================================
