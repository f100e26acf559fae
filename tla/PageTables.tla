----------------------------- MODULE PageTables ------------------------------
(***************************************************************************)
(* Four-level page tables in physical memory, as both the extended page    *)
(* tables (src/vmm/ept.c) and the kernel's own tables (src/mm/paging.c)    *)
(* keep them.  An address is a page number; its index into the table of a  *)
(* level is one digit to the base ENTRIES.  An entry points to a table or  *)
(* maps a page: of one page at level 1, of ENTRIES pages at level 2 and of *)
(* ENTRIES^2 pages at level 3.                                             *)
(*                                                                         *)
(* Operations work on a record of the memory the tables live in:           *)
(*   tab   the contents of every page that may hold a table                *)
(*   free  the pages the physical memory manager has left                  *)
(***************************************************************************)
EXTENDS Integers, FiniteSets, FiniteSetsExt, SequencesExt

CONSTANTS
    ENTRIES,        \* entries of a table, 512 in the code
    TablePages      \* pages that can become tables

ASSUME PageTableConstants ==
    /\ ENTRIES \in Nat \ {0}
    /\ TablePages \subseteq Nat \ {0} /\ IsFiniteSet(TablePages)

TabIndex == 0 .. ENTRIES - 1
Size(level) == <<1, ENTRIES, ENTRIES * ENTRIES, ENTRIES * ENTRIES * ENTRIES>>[level]
IndexOf(addr, level) == (addr \div Size(level)) % ENTRIES
Aligned(addr, level) == addr - (addr % Size(level))
Block(addr, level) == Aligned(addr, level) .. Aligned(addr, level) + Size(level) - 1

\* perm is empty in an entry that is not present.
Absent == [to |-> 0, perm |-> {}, large |-> FALSE]
TableEntry(p) == [to |-> p, perm |-> {"R", "W", "X"}, large |-> FALSE]
PageEntry(frame, perm, large) == [to |-> frame, perm |-> perm, large |-> large]
BlankTable == [i \in TabIndex |-> Absent]

Present(e) == "R" \in e.perm

\* A cleared page for a new table, whichever the memory manager has; the caller
\* has seen that one is left.
alloc_table(s) == CHOOSE p \in s.free : TRUE
WithTable(s, p) == [s EXCEPT !.tab[p] = BlankTable, !.free = @ \ {p}]

-----------------------------------------------------------------------------
(* A walk is at the entry <<table, index>> of a level. *)

Entry(w) == w.s.tab[w.table][w.index]
AtRoot(s, root, addr) ==
    [s |-> s, table |-> root, index |-> IndexOf(addr, 4), level |-> 4, end |-> FALSE, ok |-> TRUE]

Enter(w, p, addr) ==
    [w EXCEPT !.table = p, !.index = IndexOf(addr, w.level - 1), !.level = @ - 1]

\* One level down.  A walk that must not create ends at an entry that is not
\* there, and so does one that finds no memory; it keeps what it has built.
Down(w, addr, create) ==
    CASE Present(Entry(w)) -> Enter(w, Entry(w).to, addr)
      [] ~Present(Entry(w)) /\ (~create \/ w.s.free = {}) ->
            [w EXCEPT !.end = TRUE, !.ok = FALSE]
      [] OTHER ->
            LET p == alloc_table(w.s)
                linked == [WithTable(w.s, p) EXCEPT !.tab[w.table][w.index] = TableEntry(p)]
            IN  Enter([w EXCEPT !.s = linked], p, addr)

\* One level down unless the walk has ended or meets a large page.
DownToPage(w, addr, create) ==
    CASE w.end -> w
      [] ~w.end /\ Entry(w).large -> [w EXCEPT !.end = TRUE]
      [] OTHER -> Down(w, addr, create)

\* To the entry that maps addr, or that would map it at level 1.
walk(s, root, addr, create) ==
    LET w3 == Down(AtRoot(s, root, addr), addr, create)
        w2 == DownToPage(w3, addr, create)
    IN  DownToPage(w2, addr, create)

\* To the entry of a given level, large pages not looked at.
DownIfOk(w, addr) == IF w.ok THEN Down(w, addr, TRUE) ELSE w
WalkTo(s, root, addr, level) ==
    LET w3 == Down(AtRoot(s, root, addr), addr, TRUE)
    IN  IF level = 3 THEN w3 ELSE DownIfOk(w3, addr)

\* The memory after a walk that stored e in the entry it found.
Store(w, e) == [w.s EXCEPT !.tab[w.table][w.index] = e]

-----------------------------------------------------------------------------
(* What the hardware makes of the tables. *)

Unmapped == [frame |-> 0, perm |-> {}]
Translation(s, root, addr) ==
    LET w == walk(s, root, addr, FALSE)
    IN  IF ~w.ok \/ Entry(w) = Absent THEN Unmapped
        ELSE [frame |-> Entry(w).to + (addr % Size(w.level)), perm |-> Entry(w).perm]

\* The entries of a table that point to tables of the next level.
TableSlots(s, table, level) ==
    IF level = 1 THEN {}
    ELSE {i \in TabIndex : Present(s.tab[table][i]) /\ ~s.tab[table][i].large}
Children(s, table, level) == {s.tab[table][i].to : i \in TableSlots(s, table, level)}

\* Tables below a root, by level; the root's entries may be restricted.
TablesBelow(s, root, top) ==
    LET l3 == {s.tab[root][i].to : i \in TableSlots(s, root, 4) \cap top}
        l2 == UNION {Children(s, t, 3) : t \in l3}
        l1 == UNION {Children(s, t, 2) : t \in l2}
    IN  <<l3, l2, l1>>
Reachable(s, root, top) == UNION ToSet(TablesBelow(s, root, top))

\* Every table below the root is pointed to once.
IsTree(s, root, top) ==
    LET below == TablesBelow(s, root, top)
        slots == Cardinality(TableSlots(s, root, 4) \cap top)
                   + FoldSet(LAMBDA t, n : n + Cardinality(TableSlots(s, t, 3)), 0, below[1])
                   + FoldSet(LAMBDA t, n : n + Cardinality(TableSlots(s, t, 2)), 0, below[2])
    IN  Cardinality(UNION ToSet(below)) = slots
=============================================================================
