------------------------------ MODULE Virtqueue ------------------------------
(***************************************************************************)
(* A split virtqueue as the device sees it (src/virtio/virtio.c): the      *)
(* descriptor table and the two rings lie in guest memory, the device      *)
(* keeps its own index into the available ring.  Indexes run free and wrap *)
(* at IDX_MODULUS (2^16); a ring slot is the index modulo the queue size.  *)
(* A chain of descriptors linked by F_NEXT is the sequence it links.       *)
(***************************************************************************)
EXTENDS Integers, SequencesExt

CONSTANTS
    Num,            \* vq->num, the queue size
    IDX_MODULUS,    \* 2^16
    Nil

ASSUME VirtqueueConstants ==
    /\ Num \in Nat \ {0}
    /\ IDX_MODULUS \in Nat \ {0} /\ IDX_MODULUS % Num = 0

Index == 0 .. IDX_MODULUS - 1
DescIndex == 0 .. Num - 1

next_idx(i) == (i + 1) % IDX_MODULUS
ring_slot(i) == i % Num

\* How far index i is ahead of index j.
Distance(i, j) == (i - j) % IDX_MODULUS

\* A device queue q over guest memory m.  What virtq_pop hands out is the head
\* of the next chain, or Nil; the length of the chain that it also counts is
\* only compared with zero by its callers.
virtq_has_work(q, m) == q.enabled /\ q.last_avail_idx # m.avail_idx
virtq_pop_head(q, m) == m.avail_ring[ring_slot(q.last_avail_idx)]
virtq_pop_again(q) == q
virtq_pop(q) == [q EXCEPT !.last_avail_idx = next_idx(@)]

virtq_push(m, head, len) ==
    [m EXCEPT !.used_ring[ring_slot(m.used_idx)] = [id |-> head, len |-> len],
              !.used_idx = next_idx(@)]

\* The driver's side: a chain is written at a free head and published.
Published(m, head, chain) ==
    [m EXCEPT !.chain[head] = chain,
              !.avail_ring[ring_slot(m.avail_idx)] = head,
              !.avail_idx = next_idx(@)]

\* event_idx is never set, so the flag of the available ring decides.
virtq_should_notify_inverted(q, m) == q.enabled /\ m.no_interrupt
virtq_should_notify(q, m) == q.enabled /\ ~m.no_interrupt
=============================================================================
