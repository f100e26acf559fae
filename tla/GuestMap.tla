------------------------------ MODULE GuestMap -------------------------------
(***************************************************************************)
(* What the interface of ept.h promises of an EPT context: a partial map   *)
(* from guest pages to host frames with permissions.  Each step is one     *)
(* call, and the call, with its arguments and its answer, says what        *)
(* becomes of the map:                                                     *)
(*   op         the operation                                              *)
(*   g, h, n    guest page, host frame, number of pages                    *)
(*   perm       permissions                                                *)
(*   ret        0, or -1 for failure; the frame, for a question            *)
(***************************************************************************)
EXTENDS Integers

CONSTANTS Guest, ENTRIES, Unmapped

VARIABLES map, call

Run(first, n) == first .. first + n - 1
PageSizes == {1, ENTRIES, ENTRIES * ENTRIES}
First(g, n) == g - (g % n)

Init == map = [g \in Guest |-> Unmapped]

Mapped(g, h, n, perm) ==
    [x \in Guest |-> IF x \in Run(g, n) THEN [frame |-> h + (x - g), perm |-> perm] ELSE map[x]]

\* One page of a size, the addresses rounded to it: all of it or nothing.
MapPage(c) ==
    /\ c.op = "map" /\ c.n \in PageSizes
    /\ \/ c.ret = 0 /\ map' = Mapped(First(c.g, c.n), First(c.h, c.n), c.n, c.perm)
       \/ c.ret = -1 /\ UNCHANGED map

\* A run of pages: all of them, or a beginning when memory runs out.
MapRange(c) ==
    /\ c.op = "range"
    /\ \E m \in 0 .. c.n : (c.ret = 0 => m = c.n) /\ map' = Mapped(c.g, c.h, m, c.perm)

\* The page of size n around g, whose parts lie in frames that follow each
\* other and have the same permissions.
PageAround(g, n) ==
    \A x \in Guest : x \in Run(First(g, n), n) =>
        map[x].perm = map[g].perm /\ map[x].frame - x = map[g].frame - g

\* The page at an address goes as a whole, if it is readable.
UnmapPage(c) ==
    /\ c.op = "unmap"
    /\ c.ret = (IF "R" \in map[c.g].perm THEN 0 ELSE -1)
    /\ \/ /\ c.ret = 0
          /\ \E n \in PageSizes :
               /\ PageAround(c.g, n)
               /\ map' = [x \in Guest |-> IF x \in Run(First(c.g, n), n) THEN Unmapped ELSE map[x]]
       \/ c.ret = -1 /\ UNCHANGED map

Protect(c) ==
    /\ c.op = "protect"
    /\ \/ /\ c.ret = 0
          /\ \E n \in PageSizes :
               /\ PageAround(c.g, n)
               /\ map' = [x \in Guest |-> IF x \in Run(First(c.g, n), n)
                                            THEN [map[x] EXCEPT !.perm = c.perm] ELSE map[x]]
       \/ c.ret = -1 /\ map[c.g] = Unmapped /\ UNCHANGED map

\* The frame of a page, or 0 if it cannot be read.
GetHost(c) ==
    /\ c.op = "get"
    /\ c.ret = (IF "R" \in map[c.g].perm THEN map[c.g].frame ELSE 0)
    /\ UNCHANGED map

Clear(c) ==
    /\ c.op \in {"create", "destroy"}
    /\ map' = [g \in Guest |-> Unmapped]

Does(c) ==
    MapPage(c) \/ MapRange(c) \/ UnmapPage(c) \/ Protect(c) \/ GetHost(c) \/ Clear(c)

Next == Does(call')

Spec == Init /\ [][Next]_<<map, call>>
=============================================================================
