------------------------------ MODULE MCMemory -------------------------------
(***************************************************************************)
(* The memory of the kernel, one part to a behaviour: which one runs is    *)
(* chosen at the start and the others stand still.                         *)
(*                                                                         *)
(*   "pmm"     two DMA pages, eight of normal memory, one above 4 GB       *)
(*   "heap"    a heap with one expansion right above it and one below it   *)
(*   "paging"  kernel tables of four entries, so that the kernel's half    *)
(*             has a slot that boot fills and one that it leaves empty;    *)
(*             contexts, one TLB entry                                     *)
(***************************************************************************)
EXTENDS Pmm, Heap, TLC

VARIABLES part, contexts, mem, cr3, tlb, orphans

Request(virt, frame, n, sizes) == [virt |-> virt, frame |-> frame, n |-> n, sizes |-> sizes]

\* In the lower half, in the slot of the kernel's half that boot fills (from
\* 128) and in the other (from 192).
SomeRequests ==
    {Request(0, 4, 1, {}), Request(0, 8, 5, {2}), Request(0, 16, 16, {3}),
     Request(144, 4, 1, {}), Request(144, 5, 1, {}), Request(144, 8, 4, {2}),
     Request(192, 4, 1, {})}
SomeRuns == {[virt |-> 0, n |-> 2], [virt |-> 144, n |-> 1]}

KernelPaging == INSTANCE Paging
    WITH ENTRIES <- 4, TablePages <- 1 .. 7, TlbSlots <- 1,
         Requests <- SomeRequests, Runs <- SomeRuns
paging_vars == <<contexts, mem, cr3, tlb, orphans>>

MCInit ==
    /\ part \in {"pmm", "heap", "paging"}
    /\ Init /\ HeapInit /\ KernelPaging!Init

PmmStep == part = "pmm" /\ Next /\ UNCHANGED <<part, heap_vars, paging_vars>>
HeapStep == part = "heap" /\ HeapNext /\ UNCHANGED <<part, vars, paging_vars>>
PagingStep == part = "paging" /\ KernelPaging!Next /\ UNCHANGED <<part, vars, heap_vars>>

\* After an overrun the model of the heap goes no further.
HeapStopped == /\ part = "heap" /\ overrun
               /\ UNCHANGED <<part, vars, heap_vars, paging_vars>>

MCNext == PmmStep \/ HeapStep \/ HeapStopped \/ PagingStep

MCSpec == MCInit /\ [][MCNext]_<<part, vars, heap_vars, paging_vars>>

\* Every table page of the kernel's paging is free, lost, the kernel's or of one
\* context (paging_create_context, paging_map, paging_destroy_context).
TablesAccounted == KernelPaging!TablesAccounted

\* The processor holds no translation that the loaded tables have given up,
\* except under a large page laid over it (paging_map, paging_unmap,
\* paging_switch_context).
TlbCoherent == KernelPaging!TlbCoherent

\* Only the variables of the part that runs change.  Headers that merges and
\* splits left behind inside free blocks, and the links in the headers of blocks
\* in use, are never read: states that differ in nothing else are taken as one.
LiveHeap == <<[b \in Linked |-> heap.header[b]],
              [b \in DOMAIN used |-> heap.header[b].size],
              heap.first, regions, current_usage, used, moving>>
Live ==
    CASE part = "pmm" -> <<part, vars>>
      [] part = "heap" /\ ~overrun -> <<part, LiveHeap>>
      [] part = "heap" /\ overrun -> <<part, regions, used>>
      [] part = "paging" -> <<part, paging_vars>>
=============================================================================
