---------------------------- MODULE StreamProofs -----------------------------
(***************************************************************************)
(* Theorems about the virtio network and console devices (VirtioStream).   *)
(***************************************************************************)
EXTENDS VirtioStream, RingLemmas

\* The loop of buffer_write, and the bytes that the driver counts.
PutStep(s, k, b) == buffer_put(b, s[k])
Put == INSTANCE ListLemmas WITH step <- PutStep, pick <- Max
LenStep(s, k, n) == n + s[k].len
Count == INSTANCE ListLemmas WITH step <- LenStep, pick <- Max

-----------------------------------------------------------------------------
(* The queues. *)

Buffer(k) == {b \in [len : Nat, data : Seq(Symbol)] : k = "net" => b.len >= HDR}
Chains(q, k) == IF q = "rx" THEN {c \in Seq(Buffer(k)) : Len(c) = 1} ELSE TxChains

Queues ==
    /\ kind \in {"net", "console"}
    /\ vqs \in [Queue -> [enabled : BOOLEAN, last_avail_idx : Index]]
    /\ queue_sel \in Queue
    /\ isr_status \in BOOLEAN
    /\ phase \in {"idle", "rx", "tx"}
    /\ drv \in [last_used : [Queue -> Index], kick : [Queue -> BOOLEAN],
                mode : {"waiting", "reaping"}]
    /\ ring = [q \in Queue |-> ring[q]]
    /\ \A q \in Queue :
         /\ QueueOK(vqs[q].last_avail_idx, ring[q], drv.last_used[q], Chains(q, kind))
         /\ ring[q].no_interrupt = FALSE
         /\ vqs[q].enabled = FALSE => ring[q].avail_idx = ring[q].used_idx

LEMMA NoEmptyChain == \A q \in Queue : << >> \notin Chains(q, kind)
  BY StreamConstants DEF Chains, Queue

LEMMA BlankIsOK ==
  ASSUME NEW P
  PROVE  /\ QueueOK(0, BlankRing, 0, P) /\ Used(BlankRing, 0) = 0
         /\ BlankRing.no_interrupt = FALSE
         /\ BlankRing.avail_idx = 0 /\ BlankRing.used_idx = 0
<1>1. BlankRing \in Ring(P)
  BY IndexIs DEF BlankRing, Ring, NoEntry
<1>2. BlankRing.no_interrupt = FALSE /\ BlankRing.avail_idx = 0 /\ BlankRing.used_idx = 0
  BY DEF BlankRing
<1> QED
  BY <1>1, <1>2, EmptyRing

LEMMA QueuesStart == ASSUME Init PROVE Queues
<1>1. /\ kind \in {"net", "console"} /\ vqs = [q \in Queue |-> ResetQueue] /\ queue_sel = "rx"
      /\ isr_status = FALSE /\ phase = "idle" /\ drv = IdleDriver /\ ring = [q \in Queue |-> BlankRing]
  BY DEF Init, virtio_net_create, virtio_console_create, FreshDevice
<1>2. ring = [q \in Queue |-> ring[q]]
  BY <1>1
<1>3. /\ vqs \in [Queue -> [enabled : BOOLEAN, last_avail_idx : Index]]
      /\ \A q \in Queue : vqs[q].last_avail_idx = 0
  BY <1>1, IndexIs DEF ResetQueue
<1>4. /\ drv \in [last_used : [Queue -> Index], kick : [Queue -> BOOLEAN],
                  mode : {"waiting", "reaping"}]
      /\ \A q \in Queue : drv.last_used[q] = 0
  BY <1>1, IndexIs DEF IdleDriver
<1>5. ASSUME NEW q \in Queue
      PROVE  /\ QueueOK(vqs[q].last_avail_idx, ring[q], drv.last_used[q], Chains(q, kind))
             /\ ring[q].no_interrupt = FALSE
             /\ vqs[q].enabled = FALSE => ring[q].avail_idx = ring[q].used_idx
  <2>1. ring[q] = BlankRing /\ vqs[q].last_avail_idx = 0 /\ drv.last_used[q] = 0
    BY <1>1, <1>3, <1>4
  <2> QED
    BY <2>1, BlankIsOK
<1>6. queue_sel \in Queue
  BY <1>1 DEF Queue
<1> QED
  BY <1>1, <1>2, <1>3, <1>4, <1>5, <1>6 DEF Queues

-----------------------------------------------------------------------------
(* Steps that leave the rings and the driver's indexes alone. *)

LEMMA QueuesKept ==
  ASSUME Queues, UNCHANGED <<kind, vqs, ring>>,
         queue_sel' \in Queue, isr_status' \in BOOLEAN, phase' \in {"idle", "rx", "tx"},
         drv' \in [last_used : [Queue -> Index], kick : [Queue -> BOOLEAN],
                   mode : {"waiting", "reaping"}],
         drv'.last_used = drv.last_used
  PROVE  Queues'
BY DEF Queues
-----------------------------------------------------------------------------
(* The device's loops. *)

\* One queue moves on by one chain, to ring m2.
Pops(q, m2) ==
    /\ vqs[q].enabled
    /\ UNCHANGED <<kind, queue_sel, isr_status, phase, drv>>
    /\ ring' = [ring EXCEPT ![q] = m2] /\ vqs' = [vqs EXCEPT ![q] = virtq_pop(vqs[q])]
    /\ QueueOK(next_idx(vqs[q].last_avail_idx), m2, drv.last_used[q], Chains(q, kind))
    /\ m2.no_interrupt = FALSE
Popped(q, m2) ==
    /\ Queues' /\ ring'[q] = m2
    /\ \A p \in Queue : p # q => ring'[p] = ring[p] /\ vqs'[p] = vqs[p]
    /\ \A p \in Queue : vqs'[p].enabled = vqs[p].enabled

LEMMA OnePops ==
  ASSUME Queues, NEW q \in Queue, NEW m2, Pops(q, m2)
  PROVE  Popped(q, m2)
<1>0. /\ vqs[q].enabled /\ UNCHANGED <<kind, queue_sel, isr_status, phase, drv>>
      /\ ring' = [ring EXCEPT ![q] = m2] /\ vqs' = [vqs EXCEPT ![q] = virtq_pop(vqs[q])]
      /\ QueueOK(next_idx(vqs[q].last_avail_idx), m2, drv.last_used[q], Chains(q, kind))
      /\ m2.no_interrupt = FALSE
  BY DEF Pops
<1>1. /\ ring'[q] = m2 /\ ring' = [p \in Queue |-> ring'[p]]
      /\ \A p \in Queue : p # q => ring'[p] = ring[p]
  BY <1>0 DEF Queues
<1> DEFINE v == virtq_pop(vqs[q])
           i == next_idx(vqs[q].last_avail_idx)
<1>2. vqs[q] \in [enabled : BOOLEAN, last_avail_idx : Index] /\ i \in Index
  BY NextIs DEF Queues
<1>3. /\ v \in [enabled : BOOLEAN, last_avail_idx : Index]
      /\ v.last_avail_idx = i /\ v.enabled = vqs[q].enabled
  BY <1>2 DEF virtq_pop
<1> HIDE DEF v, i
<1>4. vqs' = [vqs EXCEPT ![q] = v]
  BY <1>0 DEF v
<1>5. /\ vqs' \in [Queue -> [enabled : BOOLEAN, last_avail_idx : Index]] /\ vqs'[q] = v
      /\ \A p \in Queue : p # q => vqs'[p] = vqs[p]
  BY <1>3, <1>4 DEF Queues
<1>6. ASSUME NEW p \in Queue
      PROVE  /\ QueueOK(vqs'[p].last_avail_idx, ring'[p], drv.last_used[p], Chains(p, kind))
             /\ ring'[p].no_interrupt = FALSE
             /\ vqs'[p].enabled = FALSE => ring'[p].avail_idx = ring'[p].used_idx
  <2>1. CASE p = q
    BY <1>0, <1>1, <1>3, <1>5, <2>1 DEF i
  <2>2. CASE p # q
    BY <1>0, <1>1, <1>5, <2>2 DEF Queues
  <2> QED
    BY <2>1, <2>2
<1>7. Queues'
  BY <1>0, <1>1, <1>5, <1>6 DEF Queues
<1>8. \A p \in Queue : vqs'[p].enabled = vqs[p].enabled
  BY <1>3, <1>5
<1> QED
  BY <1>1, <1>5, <1>7, <1>8 DEF Popped

LEMMA TxKeeps ==
  ASSUME Queues, TxLoop
  PROVE  /\ Queues' /\ ring'["rx"] = ring["rx"] /\ vqs'["rx"] = vqs["rx"]
         /\ ring["tx"].chain[virtq_pop_head(vqs["tx"], ring["tx"])] \in TxChains
         /\ vqs["tx"].enabled /\ vqs'["tx"].enabled
<1> DEFINE m == ring["tx"]
           la == vqs["tx"].last_avail_idx
           l == drv.last_used["tx"]
           h == virtq_pop_head(vqs["tx"], ring["tx"])
<1>1. /\ QueueOK(la, m, l, TxChains) /\ la # m.avail_idx /\ vqs["tx"].enabled
      /\ m.no_interrupt = FALSE /\ h = m.avail_ring[ring_slot(la)]
  BY DEF Queues, TxLoop, virtq_has_work, Chains, Queue, virtq_pop_head
<1>2. /\ ring' = [ring EXCEPT !["tx"] = virtq_push(m, h, 0)]
      /\ vqs' = [vqs EXCEPT !["tx"] = virtq_pop(vqs["tx"])]
      /\ UNCHANGED <<kind, queue_sel, isr_status, phase, drv>>
  BY DEF TxLoop
<1> HIDE DEF h, m, la, l
<1>3. m.chain[h] \in TxChains
  BY <1>1, NextChain
<1>4. QueueOK(next_idx(la), virtq_push(m, h, 0), l, TxChains) /\ Pushed(m, virtq_push(m, h, 0), l, h, 0)
  BY <1>1, PushKeeps
<1>5. virtq_push(m, h, 0).no_interrupt = FALSE
  BY <1>1, <1>4 DEF Pushed
<1> DEFINE m2 == virtq_push(m, h, 0)
<1>6. /\ QueueOK(next_idx(vqs["tx"].last_avail_idx), m2, drv.last_used["tx"], Chains("tx", kind))
      /\ m2.no_interrupt = FALSE /\ ring' = [ring EXCEPT !["tx"] = m2]
  BY <1>2, <1>4, <1>5 DEF la, l, Chains
<1> HIDE DEF m2
<1>7. "tx" \in Queue /\ "rx" \in Queue
  BY DEF Queue
<1>8. Pops("tx", m2)
  BY <1>1, <1>2, <1>6 DEF Pops
<1>9. Popped("tx", m2)
  BY <1>7, <1>8, OnePops
<1>10. /\ Queues' /\ ring'["rx"] = ring["rx"] /\ vqs'["rx"] = vqs["rx"]
       /\ vqs'["tx"].enabled = vqs["tx"].enabled
  BY <1>7, <1>9 DEF Popped
<1> QED
  BY <1>1, <1>3, <1>10 DEF m, h

\* A step of the receive loop, on ring m with the driver's index l, that gave
\* the next buffer its content: ring m2.
Given(m, m2, l, content, n) ==
    LET u == Used(m, l)
        old == m.chain[HeadAt(m, l, u + 1)][1]
    IN  /\ Used(m2, l) = u + 1
        /\ \A k \in 1 .. u :
             /\ m2.used_ring[Slot(l, k)] = m.used_ring[Slot(l, k)]
             /\ m2.chain[HeadAt(m2, l, k)][1] = m.chain[HeadAt(m, l, k)][1]
        /\ m2.used_ring[Slot(l, u + 1)].len = n
        /\ m2.chain[HeadAt(m2, l, u + 1)][1] = [len |-> old.len, data |-> content]

LEMMA FilledChain ==
  ASSUME NEW k, NEW c \in Chains("rx", k), NEW content \in Seq(Symbol),
         NEW b, b = [len |-> c[1].len, data |-> content]
  PROVE  [c EXCEPT ![1] = b] \in Chains("rx", k) /\ [c EXCEPT ![1] = b][1] = b /\ c[1] \in Buffer(k)
<1>1. c \in Seq(Buffer(k)) /\ Len(c) = 1
  BY DEF Chains
<1>2. c[1] \in Buffer(k)
  BY <1>1, 1 \in 1 .. Len(c), ElementOfSeq
<1>3. b \in Buffer(k)
  BY <1>2 DEF Buffer
<1>4. [c EXCEPT ![1] = b] \in Seq(Buffer(k)) /\ Len([c EXCEPT ![1] = b]) = 1 /\ [c EXCEPT ![1] = b][1] = b
  <2> DEFINE S == Buffer(k)
  <2>1. c \in Seq(S) /\ b \in S /\ 1 \in 1 .. Len(c)
    BY <1>1, <1>3
  <2> HIDE DEF S
  <2>2. [c EXCEPT ![1] = b] \in Seq(S) /\ Len([c EXCEPT ![1] = b]) = Len(c)
    BY <2>1, ExceptSeq
  <2>3. [c EXCEPT ![1] = b][1] = b
    BY <2>1, ExceptSeq
  <2> QED
    BY <1>1, <2>2, <2>3 DEF S
<1> QED
  BY <1>2, <1>4 DEF Chains

LEMMA GiveKeeps ==
  ASSUME NEW k, NEW la, NEW m, NEW l, QueueOK(la, m, l, Chains("rx", k)), la # m.avail_idx,
         NEW content \in Seq(Symbol), NEW n \in Nat,
         NEW h, h = m.avail_ring[ring_slot(la)],
         NEW m2, m2 = virtq_push(Filled(m, h, content), h, n)
  PROVE  /\ QueueOK(next_idx(la), m2, l, Chains("rx", k))
         /\ Given(m, m2, l, content, n)
         /\ m2.no_interrupt = m.no_interrupt
<1> DEFINE P == Chains("rx", k)
           u == Used(m, l)
           b == [len |-> m.chain[h][1].len, data |-> content]
           c == [m.chain[h] EXCEPT ![1] = b]
           m1 == Filled(m, h, content)
<1>1. m \in Ring(P) /\ h \in DescIndex /\ m.chain[h] \in P /\ u \in Nat /\ u + 1 <= Outstanding(m, l)
      /\ h = HeadAt(m, l, u + 1)
  <2> HIDE DEF P
  <2> QED
    BY NextChain DEF QueueOK, P
<1>2. c \in P /\ c[1] = [len |-> m.chain[h][1].len, data |-> content]
  <2>1. b = [len |-> m.chain[h][1].len, data |-> content]
    OBVIOUS
  <2> HIDE DEF b
  <2> QED
    BY <1>1, <2>1, FilledChain
<1>3. m2 = virtq_push(m1, h, n)
  OBVIOUS
<1>4. QueueOK(la, m1, l, P) /\ Refilled(m, m1, l, h, c)
  <2>1. m1 = [m EXCEPT !.chain[h] = c] /\ QueueOK(la, m, l, P)
    BY DEF Filled
  <2> HIDE DEF m1, P, c
  <2> QED
    BY <1>1, <1>2, <2>1, RefillKeeps
<1> HIDE DEF m1, P, c
<1>5. QueueOK(next_idx(la), m2, l, P) /\ Pushed(m1, m2, l, h, n)
  <2>1. la # m1.avail_idx /\ h = m1.avail_ring[ring_slot(la)]
    BY <1>4 DEF Refilled
  <2>2. QueueOK(next_idx(la), virtq_push(m1, h, n), l, P) /\ Pushed(m1, virtq_push(m1, h, n), l, h, n)
    BY <1>4, <2>1, PushKeeps
  <2> QED
    BY <1>3, <2>2
<1>6. /\ m2.chain = [m.chain EXCEPT ![h] = c] /\ m2.avail_ring = m.avail_ring
      /\ Used(m2, l) = u + 1 /\ m2.no_interrupt = m.no_interrupt
      /\ \A j \in 1 .. u : m2.used_ring[Slot(l, j)] = m.used_ring[Slot(l, j)]
      /\ m2.used_ring[Slot(l, u + 1)] = [id |-> h, len |-> n]
  BY <1>4, <1>5 DEF Refilled, Pushed
<1>7. \A j : HeadAt(m2, l, j) = HeadAt(m, l, j)
  BY <1>6 DEF HeadAt
<1>8. ASSUME NEW j \in 1 .. u PROVE m2.chain[HeadAt(m, l, j)] = m.chain[HeadAt(m, l, j)]
  <2>1. j \in 1 .. Outstanding(m, l) /\ u + 1 \in 1 .. Outstanding(m, l) /\ j # u + 1
    <3>1. Outstanding(m, l) \in Nat
      BY <1>1, DistanceIs DEF QueueOK, Ring, Outstanding
    <3> QED
      BY <1>1, <3>1
  <2>2. HeadAt(m, l, j) # h
    BY <1>1, <2>1 DEF QueueOK
  <2>3. l \in Index /\ j \in Nat \ {0}
    BY <1>1 DEF QueueOK
  <2>4. HeadAt(m, l, j) \in DescIndex
    BY <1>1, <2>3, SlotIs DEF HeadAt, Ring
  <2> QED
    BY <1>1, <1>6, <2>2, <2>4 DEF Ring
<1>9. m2.chain[HeadAt(m, l, u + 1)] = c
  BY <1>1, <1>6 DEF Ring
<1>10. Given(m, m2, l, content, n)
  BY <1>1, <1>2, <1>6, <1>7, <1>8, <1>9 DEF Given
<1> QED
  BY <1>5, <1>6, <1>10 DEF P

LEMMA FillKeeps ==
  ASSUME Queues, virtq_has_work(vqs["rx"], ring["rx"]),
         NEW content \in Seq(Symbol), NEW n \in Nat, FillBuffer(content, n),
         UNCHANGED <<kind, queue_sel, isr_status, phase, drv>>
  PROVE  /\ Queues' /\ Given(ring["rx"], ring'["rx"], drv.last_used["rx"], content, n)
         /\ vqs'["tx"] = vqs["tx"] /\ ring'["tx"] = ring["tx"]
         /\ vqs["rx"].enabled /\ vqs'["rx"].enabled
<1> DEFINE m == ring["rx"]
           la == vqs["rx"].last_avail_idx
           l == drv.last_used["rx"]
           h == virtq_pop_head(vqs["rx"], ring["rx"])
           m2 == virtq_push(Filled(m, h, content), h, n)
<1>1. /\ QueueOK(la, m, l, Chains("rx", kind)) /\ la # m.avail_idx /\ vqs["rx"].enabled
      /\ m.no_interrupt = FALSE /\ h = m.avail_ring[ring_slot(la)]
  BY DEF Queues, virtq_has_work, Queue, virtq_pop_head
<1>2. /\ ring' = [ring EXCEPT !["rx"] = m2]
      /\ vqs' = [vqs EXCEPT !["rx"] = virtq_pop(vqs["rx"])]
  BY DEF FillBuffer
<1>3. m2 = virtq_push(Filled(m, h, content), h, n)
  OBVIOUS
<1> HIDE DEF h, m, la, l, m2
<1>4. /\ QueueOK(next_idx(la), m2, l, Chains("rx", kind)) /\ Given(m, m2, l, content, n)
      /\ m2.no_interrupt = m.no_interrupt
  BY <1>1, <1>3, GiveKeeps
<1>5. "tx" \in Queue /\ "rx" \in Queue
  BY DEF Queue
<1>6. QueueOK(next_idx(vqs["rx"].last_avail_idx), m2, drv.last_used["rx"], Chains("rx", kind))
  BY <1>4 DEF la, l
<1>7. /\ Queues' /\ ring'["rx"] = m2
      /\ vqs'["tx"] = vqs["tx"] /\ ring'["tx"] = ring["tx"]
      /\ vqs'["rx"].enabled = vqs["rx"].enabled
  <2>1. Pops("rx", m2)
    BY <1>1, <1>2, <1>4, <1>6 DEF Pops
  <2>2. Popped("rx", m2)
    BY <1>5, <2>1, OnePops
  <2> QED
    BY <1>5, <2>2 DEF Popped
<1> QED
  BY <1>1, <1>4, <1>7 DEF m, l

-----------------------------------------------------------------------------
(* The driver. *)

LEMMA LowestFree ==
  ASSUME NEW q \in Queue, FreeHeads(q) # {}
  PROVE  Min(FreeHeads(q)) \in DescIndex /\ ring[q].chain[Min(FreeHeads(q))] = << >>
<1>1. FreeHeads(q) \subseteq Nat
  BY VirtqueueConstants DEF FreeHeads, DescIndex
<1>2. \E d \in FreeHeads(q) : \A y \in FreeHeads(q) : d <= y
  BY <1>1, Put!LeastMember
<1>3. Min(FreeHeads(q)) \in FreeHeads(q)
  BY <1>2 DEF Min
<1> QED
  BY <1>3 DEF FreeHeads

LEMMA PublishStep ==
  ASSUME Queues, NEW q \in Queue, NEW chain \in Chains(q, kind), Publish(q, chain)
  PROVE  /\ Queues' /\ Extended(ring[q], ring'[q], drv.last_used[q])
         /\ \A p \in Queue : p # q => ring'[p] = ring[p]
         /\ drv'.last_used = drv.last_used /\ drv'.mode = drv.mode
         /\ drv'.kick = [drv.kick EXCEPT ![q] = TRUE]
         /\ \A p \in Queue : vqs[p].enabled
<1> DEFINE h == Min(FreeHeads(q))
           m == ring[q]
           la == vqs[q].last_avail_idx
           l == drv.last_used[q]
           m2 == Published(m, h, chain)
<1>1. /\ \A p \in Queue : vqs[p].enabled
      /\ UNCHANGED <<kind, vqs, queue_sel, isr_status, phase, packets, input, owed>>
      /\ ring' = [ring EXCEPT ![q] = m2]
      /\ drv' = [drv EXCEPT !.kick[q] = TRUE]
      /\ FreeHeads(q) # {}
  BY DEF Publish
<1>2. h \in DescIndex /\ m.chain[h] = << >>
  BY <1>1, LowestFree
<1>3. QueueOK(la, m, l, Chains(q, kind)) /\ m.no_interrupt = FALSE
  BY DEF Queues
<1>4. m2 = Published(m, h, chain)
  OBVIOUS
<1> HIDE DEF h, m, la, l, m2
<1>5. QueueOK(la, m2, l, Chains(q, kind)) /\ Extended(m, m2, l)
  BY <1>2, <1>3, <1>4, NoEmptyChain, StreamConstants, PublishKeeps
<1>6. m2.no_interrupt = FALSE
  BY <1>3, <1>5 DEF Extended
<1>7. /\ ring'[q] = m2 /\ ring' = [p \in Queue |-> ring'[p]]
      /\ \A p \in Queue : p # q => ring'[p] = ring[p]
  BY <1>1 DEF Queues
<1>8. /\ drv' \in [last_used : [Queue -> Index], kick : [Queue -> BOOLEAN],
                   mode : {"waiting", "reaping"}]
      /\ drv'.last_used = drv.last_used /\ drv'.mode = drv.mode
      /\ drv'.kick = [drv.kick EXCEPT ![q] = TRUE]
  BY <1>1 DEF Queues
<1>9. ASSUME NEW p \in Queue
      PROVE  /\ QueueOK(vqs[p].last_avail_idx, ring'[p], drv.last_used[p], Chains(p, kind))
             /\ ring'[p].no_interrupt = FALSE
  <2>1. CASE p = q
    BY <1>5, <1>6, <1>7, <2>1 DEF la, l
  <2>2. CASE p # q
    BY <1>7, <2>2 DEF Queues
  <2> QED
    BY <2>1, <2>2
<1>10. Queues'
  BY <1>1, <1>7, <1>8, <1>9 DEF Queues
<1> QED
  BY <1>1, <1>5, <1>7, <1>8, <1>10 DEF m, l

\* What the driver finds in the used ring: the chains in the order in which they
\* were published.
LEMMA EntriesAre ==
  ASSUME Queues, NEW q \in Queue
  PROVE  LET m == ring[q]
             l == drv.last_used[q]
         IN  /\ Uncollected(q) = Used(m, l) /\ Used(m, l) \in Nat
             /\ UsedEntries(q) = [k \in 1 .. Used(m, l) |-> m.used_ring[Slot(l, k)]]
             /\ \A k \in 1 .. Used(m, l) : UsedEntries(q)[k].id = HeadAt(m, l, k)
<1> DEFINE m == ring[q]
           l == drv.last_used[q]
<1>1. Uncollected(q) = Used(m, l)
  BY DEF Uncollected, Used
<1>2. QueueOK(vqs[q].last_avail_idx, m, l, Chains(q, kind))
  BY DEF Queues
<1>3. Used(m, l) \in Nat
  BY <1>2, DistanceIs DEF QueueOK, Ring, Used
<1>4. UsedEntries(q) = [k \in 1 .. Used(m, l) |-> m.used_ring[Slot(l, k)]]
  BY <1>1 DEF UsedEntries, Slot
<1>5. \A k \in 1 .. Used(m, l) : m.used_ring[Slot(l, k)].id = HeadAt(m, l, k)
  BY <1>2 DEF QueueOK
<1> HIDE DEF m, l
<1>6. \A k \in 1 .. Used(m, l) : UsedEntries(q)[k].id = HeadAt(m, l, k)
  BY <1>4, <1>5
<1> QED
  BY <1>1, <1>3, <1>4, <1>6 DEF m, l

LEMMA WithoutUsedKeeps ==
  ASSUME Queues, NEW q \in Queue
  PROVE  /\ QueueOK(vqs[q].last_avail_idx, WithoutUsed(q), ring[q].used_idx, Chains(q, kind))
         /\ Used(WithoutUsed(q), ring[q].used_idx) = 0
         /\ WithoutUsed(q).no_interrupt = FALSE
         /\ WithoutUsed(q).avail_idx = ring[q].avail_idx
         /\ WithoutUsed(q).used_idx = ring[q].used_idx
         /\ ring[q].used_idx \in Index
<1> DEFINE m == ring[q]
           la == vqs[q].last_avail_idx
           l == drv.last_used[q]
           P == Chains(q, kind)
           u == Used(m, l)
           o == Outstanding(m, l)
           heads == {UsedEntries(q)[k].id : k \in DOMAIN UsedEntries(q)}
           slots == {ring_slot(l + k - 1) : k \in DOMAIN UsedEntries(q)}
           m2 == WithoutUsed(q)
<1>1. QueueOK(la, m, l, P) /\ m.no_interrupt = FALSE
  BY DEF Queues
<1>2. m \in Ring(P) /\ l \in Index /\ m.used_idx \in Index /\ m.avail_idx \in Index /\ 0 \in DescIndex
  BY <1>1, IndexIs DEF QueueOK, Ring
<1>3. /\ u \in Nat /\ o \in Nat /\ u <= o /\ o <= Num /\ Num \in Nat
  BY <1>1, <1>2, DistanceIs, VirtqueueConstants DEF QueueOK, Used, Outstanding
<1>4. heads = {HeadAt(m, l, k) : k \in 1 .. u} /\ slots = {Slot(l, k) : k \in 1 .. u}
  <2>1. /\ DOMAIN UsedEntries(q) = 1 .. u
        /\ \A k \in 1 .. u : UsedEntries(q)[k].id = HeadAt(m, l, k)
    BY EntriesAre
  <2> QED
    BY <2>1 DEF Slot
<1>5. m2 = [m EXCEPT !.chain = [d \in DescIndex |-> IF d \in heads THEN << >> ELSE @[d]],
                     !.used_ring = [d \in DescIndex |-> IF d \in slots THEN NoEntry ELSE @[d]],
                     !.avail_ring = [d \in DescIndex |-> IF d \in slots THEN 0 ELSE @[d]]]
  BY DEF WithoutUsed
<1> HIDE DEF heads, slots, m2, P, m
<1>6. /\ m2 \in Ring(P)
      /\ m2.chain = [d \in DescIndex |-> IF d \in heads THEN << >> ELSE m.chain[d]]
      /\ m2.used_ring = [d \in DescIndex |-> IF d \in slots THEN NoEntry ELSE m.used_ring[d]]
      /\ m2.avail_ring = [d \in DescIndex |-> IF d \in slots THEN 0 ELSE m.avail_ring[d]]
      /\ m2.avail_idx = m.avail_idx /\ m2.used_idx = m.used_idx /\ m2.no_interrupt = m.no_interrupt
  BY <1>2, <1>5 DEF Ring, NoEntry
<1> HIDE DEF la, l
<1>7. ASSUME NEW k \in u + 1 .. o
      PROVE  /\ m2.avail_ring[Slot(l, k)] = m.avail_ring[Slot(l, k)]
             /\ m2.chain[HeadAt(m, l, k)] = m.chain[HeadAt(m, l, k)]
  <2>1. k \in 1 .. Num /\ k \in 1 .. o /\ k \in Nat \ {0}
    BY <1>3
  <2>2. \A j \in 1 .. u : j \in 1 .. Num /\ j \in 1 .. o /\ j # k
    BY <1>3
  <2>3. Slot(l, k) \in DescIndex /\ Slot(l, k) \notin slots
    BY <1>2, <1>4, <2>1, <2>2, SlotIs, SlotsDiffer
  <2>4. HeadAt(m, l, k) \in DescIndex
    BY <1>2, <2>3 DEF HeadAt, Ring
  <2>5. HeadAt(m, l, k) \notin heads
    BY <1>1, <1>4, <2>1, <2>2 DEF QueueOK
  <2> QED
    BY <1>6, <2>3, <2>4, <2>5
<1>8. u = Distance(m.used_idx, l) /\ \A k \in u + 1 .. u : m2.used_ring[Slot(l, k)] = m.used_ring[Slot(l, k)]
  BY <1>3 DEF Used
<1>9. QueueOK(la, m2, m.used_idx, P)
  <2>1. u <= Used(m, l)
    BY <1>3
  <2> HIDE DEF u, o
  <2>2. \A k \in u + 1 .. Used(m, l) : m2.used_ring[Slot(l, k)] = m.used_ring[Slot(l, k)]
    BY <1>8 DEF u
  <2>3. \A k \in u + 1 .. Outstanding(m, l) :
            /\ m2.avail_ring[Slot(l, k)] = m.avail_ring[Slot(l, k)]
            /\ m2.chain[HeadAt(m, l, k)] = m.chain[HeadAt(m, l, k)]
    BY <1>7 DEF o
  <2> QED
    BY <1>1, <1>2, <1>6, <1>8, <2>1, <2>2, <2>3, CollectKeeps
<1>10. Used(m2, m.used_idx) = 0
  BY <1>2, <1>6, NoDistance DEF Used
<1> QED
  BY <1>1, <1>2, <1>6, <1>9, <1>10 DEF m, m2, la, P

LEMMA ReapStep ==
  ASSUME Queues, Reap
  PROVE  /\ Queues' /\ vqs' = vqs /\ drv'.mode = "waiting" /\ drv'.kick = drv.kick
         /\ \A q \in Queue : /\ Used(ring'[q], drv'.last_used[q]) = 0
                             /\ ring'[q].avail_idx = ring[q].avail_idx
<1>1. /\ ring' = [q \in Queue |-> WithoutUsed(q)]
      /\ drv' = [drv EXCEPT !.last_used = [q \in Queue |-> ring[q].used_idx], !.mode = "waiting"]
      /\ UNCHANGED <<kind, vqs, queue_sel, isr_status, phase, packets, input>>
  BY DEF Reap
<1>2. ring' = [q \in Queue |-> ring'[q]] /\ \A q \in Queue : ring'[q] = WithoutUsed(q)
  BY <1>1
<1>3. /\ drv' \in [last_used : [Queue -> Index], kick : [Queue -> BOOLEAN],
                   mode : {"waiting", "reaping"}]
      /\ \A q \in Queue : drv'.last_used[q] = ring[q].used_idx
      /\ drv'.mode = "waiting" /\ drv'.kick = drv.kick
  BY <1>1, WithoutUsedKeeps DEF Queues
<1>4. ASSUME NEW q \in Queue
      PROVE  /\ QueueOK(vqs[q].last_avail_idx, ring'[q], drv'.last_used[q], Chains(q, kind))
             /\ Used(ring'[q], drv'.last_used[q]) = 0
             /\ ring'[q].no_interrupt = FALSE
             /\ ring'[q].avail_idx = ring[q].avail_idx
             /\ vqs[q].enabled = FALSE => ring'[q].avail_idx = ring'[q].used_idx
  <2> DEFINE w == WithoutUsed(q)
             i == ring[q].used_idx
  <2>1. /\ QueueOK(vqs[q].last_avail_idx, w, i, Chains(q, kind)) /\ Used(w, i) = 0
        /\ w.no_interrupt = FALSE /\ w.avail_idx = ring[q].avail_idx /\ w.used_idx = i
    BY WithoutUsedKeeps
  <2>2. vqs[q].enabled = FALSE => ring[q].avail_idx = i
    BY DEF Queues
  <2>3. ring'[q] = w /\ drv'.last_used[q] = i
    BY <1>2, <1>3
  <2> HIDE DEF w, i
  <2> QED
    BY <2>1, <2>2, <2>3
<1>5. Queues'
  BY <1>1, <1>2, <1>3, <1>4 DEF Queues
<1> QED
  BY <1>1, <1>3, <1>4, <1>5

-----------------------------------------------------------------------------
(* FlattenSeq. *)

IsFlat(g, s, n) == g = [i \in 1 .. n |-> IF i = 1 THEN s[i] ELSE g[i - 1] \o s[i]]

LEMMA FlatExists ==
  ASSUME NEW s
  PROVE  \A n \in Nat : \E g : IsFlat(g, s, n)
<1> DEFINE G == {n \in Nat : \E g : IsFlat(g, s, n)}
<1>1. 0 \in G
  <2> DEFINE g == [i \in 1 .. 0 |-> IF i = 1 THEN s[i] ELSE << >>]
  <2>1. 1 .. 0 = {}
    OBVIOUS
  <2>2. IsFlat(g, s, 0)
    BY <2>1 DEF IsFlat
  <2> QED
    BY <2>2
<1>2. ASSUME NEW n \in Nat, n \in G PROVE n + 1 \in G
  <2>1. PICK g : IsFlat(g, s, n)
    BY <1>2
  <2> DEFINE h == [i \in 1 .. n + 1 |->
                     IF i = n + 1 THEN (IF i = 1 THEN s[i] ELSE g[n] \o s[i]) ELSE g[i]]
  <2>2. ASSUME NEW i \in 1 .. n + 1
        PROVE  h[i] = IF i = 1 THEN s[i] ELSE h[i - 1] \o s[i]
    <3>1. CASE i = n + 1
      BY <3>1
    <3>2. CASE i # n + 1
      <4>1. i \in 1 .. n /\ h[i] = g[i]
        BY <3>2
      <4>2. g[i] = IF i = 1 THEN s[i] ELSE g[i - 1] \o s[i]
        BY <2>1, <4>1 DEF IsFlat
      <4>3. i # 1 => h[i - 1] = g[i - 1]
        BY <4>1
      <4> QED
        BY <4>1, <4>2, <4>3
    <3> QED
      BY <3>1, <3>2
  <2>3. h = [i \in 1 .. n + 1 |-> h[i]]
    OBVIOUS
  <2> HIDE DEF h
  <2>4. IsFlat(h, s, n + 1)
    BY <2>2, <2>3 DEF IsFlat
  <2> QED
    BY <2>4
<1> HIDE DEF G
<1>3. Nat \subseteq G
  BY <1>1, <1>2, Put!NatSetInduction
<1> QED
  BY <1>3 DEF G

LEMMA FlattenIs ==
  ASSUME NEW S, NEW s \in Seq(Seq(S)), s # << >>
  PROVE  \E g : IsFlat(g, s, Len(s)) /\ FlattenSeq(s) = g[Len(s)]
<1> DEFINE g == CHOOSE g : IsFlat(g, s, Len(s))
<1>1. Len(s) \in Nat /\ Len(s) # 0
  BY EmptySeq, LenProperties
<1>2. IsFlat(g, s, Len(s))
  BY <1>1, FlatExists
<1>3. FlattenSeq(s) = g[Len(s)]
  <2>1. FlattenSeq(s) = (CHOOSE h : h = [i \in 1 .. Len(s) |-> IF i = 1 THEN s[i] ELSE h[i - 1] \o s[i]])[Len(s)]
    BY <1>1, Zenon DEF FlattenSeq
  <2> QED
    BY <2>1, Zenon DEF IsFlat
<1> HIDE DEF g
<1> QED
  BY <1>2, <1>3

LEMMA FlatStep ==
  ASSUME NEW n \in Nat, NEW s, NEW g, IsFlat(g, s, n), NEW j \in 1 .. n, NEW i \in Nat, j = i + 1
  PROVE  g[j] = IF i = 0 THEN s[j] ELSE g[i] \o s[j]
<1>1. g[j] = IF j = 1 THEN s[j] ELSE g[j - 1] \o s[j]
  BY DEF IsFlat
<1>2. j - 1 = i /\ (j = 1 <=> i = 0)
  OBVIOUS
<1> QED
  BY <1>1, <1>2

LEMMA FlatTypes ==
  ASSUME NEW S, NEW s \in Seq(Seq(S)), NEW n \in Nat, n <= Len(s), NEW g, IsFlat(g, s, n)
  PROVE  \A i \in 1 .. n : g[i] \in Seq(S)
<1> DEFINE G == {i \in Nat : i \in 1 .. n => g[i] \in Seq(S)}
<1>1. 0 \in G
  OBVIOUS
<1>2. ASSUME NEW i \in Nat, i \in G PROVE i + 1 \in G
  <2> SUFFICES ASSUME i + 1 \in 1 .. n PROVE g[i + 1] \in Seq(S)
    OBVIOUS
  <2>1. s[i + 1] \in Seq(S)
    <3> DEFINE T == Seq(S)
    <3>1. s \in Seq(T) /\ Len(s) \in Nat
      BY LenProperties
    <3> HIDE DEF T
    <3>2. i + 1 \in 1 .. Len(s)
      BY <3>1
    <3>3. s[i + 1] \in T
      BY <3>1, <3>2, ElementOfSeq
    <3> QED
      BY <3>3 DEF T
  <2>2. g[i + 1] = IF i = 0 THEN s[i + 1] ELSE g[i] \o s[i + 1]
    BY FlatStep
  <2>3. CASE i = 0
    BY <2>1, <2>2, <2>3
  <2>4. CASE i # 0
    <3>1. i \in 1 .. n
      BY <2>4
    <3>2. g[i] \in Seq(S)
      BY <1>2, <3>1
    <3> QED
      BY <2>1, <2>2, <2>4, <3>2, ConcatProperties
  <2> QED
    BY <2>3, <2>4
<1> HIDE DEF G
<1>3. Nat \subseteq G
  BY <1>1, <1>2, Put!NatSetInduction
<1> QED
  BY <1>3 DEF G

Agree(s, t, n) == \A i \in 1 .. n : s[i] = t[i]

LEMMA FlatAgree ==
  ASSUME NEW n \in Nat, NEW m \in Nat, n <= m, NEW s, NEW t, Agree(s, t, n),
         NEW g, NEW h, IsFlat(g, s, n), IsFlat(h, t, m)
  PROVE  Agree(g, h, n)
<1> DEFINE G == {i \in Nat : i \in 1 .. n => g[i] = h[i]}
<1>1. 0 \in G
  OBVIOUS
<1>2. ASSUME NEW i \in Nat, i \in G PROVE i + 1 \in G
  <2> SUFFICES ASSUME i + 1 \in 1 .. n PROVE g[i + 1] = h[i + 1]
    OBVIOUS
  <2>1. g[i + 1] = IF i = 0 THEN s[i + 1] ELSE g[i] \o s[i + 1]
    BY FlatStep
  <2>2. h[i + 1] = IF i = 0 THEN t[i + 1] ELSE h[i] \o t[i + 1]
    <3>1. i + 1 \in 1 .. m
      OBVIOUS
    <3> QED
      BY <3>1, FlatStep
  <2>3. i # 0 => g[i] = h[i]
    BY <1>2
  <2>4. s[i + 1] = t[i + 1]
    BY DEF Agree
  <2> QED
    BY <2>1, <2>2, <2>3, <2>4
<1> HIDE DEF G
<1>3. Nat \subseteq G
  BY <1>1, <1>2, Put!NatSetInduction
<1> QED
  BY <1>3 DEF G, Agree

Assoc(a, b, c) == (a \o b) \o c = a \o (b \o c)

LEMMA Regroup ==
  ASSUME NEW S
  PROVE  \A a, b, c \in Seq(S) : Assoc(a, b, c)
BY ConcatAssociative DEF Assoc

LEMMA FlattenType ==
  ASSUME NEW S, NEW s \in Seq(Seq(S))
  PROVE  FlattenSeq(s) \in Seq(S)
<1>1. CASE s = << >>
  <2>1. Len(s) = 0
    BY <1>1
  <2>2. FlattenSeq(s) = << >>
    BY <1>1, <2>1 DEF FlattenSeq
  <2> QED
    BY <2>2
<1>2. CASE s # << >>
  <2>1. PICK g : IsFlat(g, s, Len(s)) /\ FlattenSeq(s) = g[Len(s)]
    BY <1>2, FlattenIs
  <2>2. Len(s) \in Nat /\ Len(s) # 0
    BY <1>2, EmptySeq, LenProperties
  <2>3. \A i \in 1 .. Len(s) : g[i] \in Seq(S)
    BY <2>1, <2>2, FlatTypes
  <2> QED
    BY <2>1, <2>2, <2>3
<1> QED
  BY <1>1, <1>2

LEMMA FlattenAppend ==
  ASSUME NEW S, NEW s \in Seq(Seq(S)), NEW x \in Seq(S)
  PROVE  FlattenSeq(Append(s, x)) = FlattenSeq(s) \o x
<1> DEFINE T == Seq(S)
           t == Append(s, x)
           n == Len(s)
<1>1. s \in Seq(T) /\ x \in T /\ n \in Nat
  BY LenProperties
<1>2. /\ t \in Seq(T) /\ Len(t) = n + 1 /\ t[n + 1] = x
      /\ \A i \in 1 .. n : t[i] = s[i]
  <2> HIDE DEF T
  <2> QED
    BY <1>1, AppendProperties
<1>3. t # << >>
  BY <1>1, <1>2, EmptySeq
<1> HIDE DEF t
<1>4. PICK h : IsFlat(h, t, n + 1) /\ FlattenSeq(t) = h[n + 1]
  BY <1>2, <1>3, FlattenIs
<1>5. h[n + 1] = IF n = 0 THEN t[n + 1] ELSE h[n] \o t[n + 1]
  BY <1>1, <1>4, FlatStep
<1>6. CASE n = 0
  <2>1. s = << >>
    BY <1>1, <1>6, EmptySeq
  <2>2. FlattenSeq(s) = << >>
    BY <1>6, <2>1 DEF FlattenSeq
  <2>3. << >> \o x = x
    BY <1>1, ConcatEmptySeq
  <2> QED
    BY <1>2, <1>4, <1>5, <1>6, <2>2, <2>3 DEF t
<1>7. CASE n # 0
  <2>1. s # << >>
    BY <1>7
  <2>2. PICK g : IsFlat(g, s, n) /\ FlattenSeq(s) = g[n]
    BY <2>1, FlattenIs
  <2>3. n \in 1 .. n /\ n + 1 \in Nat /\ n <= n + 1 /\ Agree(s, t, n)
    BY <1>1, <1>2, <1>7 DEF Agree
  <2> DEFINE m == n + 1
  <2>4. IsFlat(h, t, m) /\ m \in Nat /\ n <= m
    BY <1>4, <2>3
  <2> HIDE DEF n, T, m
  <2>5. Agree(g, h, n)
    BY <1>1, <2>2, <2>3, <2>4, FlatAgree
  <2> QED
    BY <1>2, <1>4, <1>5, <1>7, <2>2, <2>3, <2>5 DEF t, Agree
<1> QED
  BY <1>6, <1>7

-----------------------------------------------------------------------------
(* Frames. *)

LEMMA Smallest ==
  ASSUME NEW a \in Int, NEW b \in Int
  PROVE  Min({a, b}) = IF a <= b THEN a ELSE b
<1> DEFINE c == IF a <= b THEN a ELSE b
<1>1. c \in {a, b} /\ \A y \in {a, b} : c <= y
  OBVIOUS
<1>2. \A d \in {a, b} : (\A y \in {a, b} : d <= y) => d = c
  OBVIOUS
<1> HIDE DEF c
<1>3. Min({a, b}) = c
  BY <1>1, <1>2 DEF Min
<1> QED
  BY <1>3 DEF c

LEMMA PrefixIs ==
  ASSUME NEW S, NEW s \in Seq(S), NEW n \in Nat
  PROVE  /\ Prefix(s, n) \in Seq(S)
         /\ Len(Prefix(s, n)) = IF n <= Len(s) THEN n ELSE Len(s)
         /\ \A i \in 1 .. Len(Prefix(s, n)) : Prefix(s, n)[i] = s[i]
<1> DEFINE k == IF n <= Len(s) THEN n ELSE Len(s)
<1>1. Len(s) \in Nat
  BY LenProperties
<1>2. k \in Nat /\ k <= Len(s) /\ Prefix(s, n) = SubSeq(s, 1, k)
  BY <1>1, Smallest DEF Prefix
<1> HIDE DEF k
<1>3. SubSeq(s, 1, k) \in Seq(S) /\ Len(SubSeq(s, 1, k)) = k /\ \A i \in 1 .. k : SubSeq(s, 1, k)[i] = s[i]
  BY <1>1, <1>2, SubSeqProperties
<1> QED
  BY <1>2, <1>3 DEF k

LEMMA FrameType ==
  ASSUME NEW chain \in TxChains
  PROVE  frame_of(chain) \in Seq(Symbol)
<1> DEFINE T == Seq(Symbol)
           first == SubSeq(chain[1], HDR + 1, Len(chain[1]))
           body == [k \in DOMAIN chain |-> IF k > 1 THEN chain[k] ELSE first]
<1>1. chain \in Seq(T) /\ chain # << >> /\ HDR \in Nat /\ NET_PACKET_MAX_SIZE \in Nat
  BY StreamConstants
<1>2. /\ Len(chain) \in Nat /\ Len(chain) # 0 /\ DOMAIN chain = 1 .. Len(chain)
      /\ \A k \in 1 .. Len(chain) : chain[k] \in T
  <2> HIDE DEF T
  <2> QED
    BY <1>1, LenProperties, EmptySeq
<1>3. first \in T
  <2>1. chain[1] \in Seq(Symbol)
    BY <1>2
  <2>2. Len(chain[1]) \in Nat
    BY <2>1, LenProperties
  <2>3. \A i \in HDR + 1 .. Len(chain[1]) : i \in 1 .. Len(chain[1])
    BY <1>1, <2>2
  <2>4. \A i \in HDR + 1 .. Len(chain[1]) : chain[1][i] \in Symbol
    BY <2>1, <2>3, ElementOfSeq
  <2> QED
    BY <1>1, <2>1, <2>2, <2>4, SubSeqProperties
<1> HIDE DEF first
<1>4. body \in Seq(T)
  <2> HIDE DEF T
  <2>1. body \in [1 .. Len(chain) -> T]
    BY <1>2, <1>3
  <2> QED
    BY <1>2, <2>1, SeqDef
<1>5. FlattenSeq(body) \in Seq(Symbol)
  <2> HIDE DEF body
  <2> QED
    BY <1>4, FlattenType
<1>6. frame_of(chain) = Prefix(FlattenSeq(body), NET_PACKET_MAX_SIZE)
  BY DEF frame_of, first
<1> HIDE DEF body
<1> QED
  BY <1>1, <1>5, <1>6, PrefixIs

-----------------------------------------------------------------------------
(* The console's ring buffer. *)

\* Wrapping early or late makes no difference.
LEMMA Wrapped ==
  ASSUME NEW n \in Nat \ {0}, NEW x \in Nat, NEW k \in Nat
  PROVE  ((x % n) + k) % n = (x + k) % n
<1>1. PICK d \in Nat, r \in 0 .. n - 1 : r = x % n /\ x = d * n + r
  BY Division
<1> DEFINE m == d * n
<1>2. m \in Nat /\ m % n = 0
  <2>1. (d * n + 0) % n = 0
    BY Remainder
  <2>2. d * n + 0 = d * n /\ d * n \in Nat
    OBVIOUS
  <2> QED
    BY <2>1, <2>2
<1>3. x + k = (r + k) + m /\ r + k \in Nat
  BY <1>1
<1> HIDE DEF m
<1>4. ((r + k) + m) % n = (r + k) % n
  BY <1>2, <1>3, Turn
<1> QED
  BY <1>1, <1>3, <1>4

Cells == 0 .. CONSOLE_BUFFER_SIZE - 1
Cell(b, i) == (b.head + i - 1) % CONSOLE_BUFFER_SIZE

\* The waiting input lies between head and tail.
InputOK(b) ==
    /\ b \in [data : [Cells -> Symbol], head : Cells, tail : Cells, count : 0 .. CONSOLE_BUFFER_SIZE]
    /\ b.tail = (b.head + b.count) % CONSOLE_BUFFER_SIZE

LEMMA SizeIs == CONSOLE_BUFFER_SIZE \in Nat \ {0} /\ Nil \in Symbol
  BY StreamConstants DEF Symbol

LEMMA CellIs ==
  ASSUME NEW b, InputOK(b), NEW i \in Nat \ {0}
  PROVE  Cell(b, i) \in Cells
<1>1. b.head \in Nat /\ b.head + i - 1 \in Nat
  BY SizeIs DEF InputOK, Cells
<1> DEFINE x == b.head + i - 1
<1>2. x \in Nat
  BY <1>1
<1> HIDE DEF x
<1>3. x % CONSOLE_BUFFER_SIZE \in 0 .. CONSOLE_BUFFER_SIZE - 1
  BY <1>2, SizeIs, Division
<1> QED
  BY <1>3 DEF x, Cell, Cells

\* Cells of one turn differ.
LEMMA CellsDiffer ==
  ASSUME NEW b, InputOK(b), NEW i \in Nat \ {0}, NEW j \in Nat \ {0},
         i < j, j < i + CONSOLE_BUFFER_SIZE
  PROVE  Cell(b, i) # Cell(b, j)
<1> DEFINE x == b.head + i - 1
           y == b.head + j - 1
<1>1. b.head \in Nat
  BY SizeIs DEF InputOK, Cells
<1>2. x \in Nat /\ y \in Nat /\ x < y /\ y < x + CONSOLE_BUFFER_SIZE
  BY <1>1, SizeIs
<1> HIDE DEF x, y
<1>3. x % CONSOLE_BUFFER_SIZE # y % CONSOLE_BUFFER_SIZE
  BY <1>2, SizeIs, Apart
<1> QED
  BY <1>3 DEF x, y, Cell

LEMMA EmptyInput == InputOK(buffer_init) /\ buffer_init.count = 0
<1>1. 0 % CONSOLE_BUFFER_SIZE = 0
  BY SizeIs
<1> QED
  BY <1>1, SizeIs DEF InputOK, buffer_init, Cells

\* One more symbol, at the tail.
LEMMA PutKeeps ==
  ASSUME NEW b, InputOK(b), NEW c \in Symbol, b.count < CONSOLE_BUFFER_SIZE
  PROVE  LET w == buffer_put(b, c)
         IN  /\ InputOK(w) /\ w.count = b.count + 1 /\ w.head = b.head
             /\ \A i \in Nat \ {0} : Cell(w, i) = Cell(b, i)
             /\ w.data[Cell(b, b.count + 1)] = c
             /\ \A i \in 1 .. b.count : w.data[Cell(b, i)] = b.data[Cell(b, i)]
<1> DEFINE w == buffer_put(b, c)
           t == (b.tail + 1) % CONSOLE_BUFFER_SIZE
<1>1. /\ b \in [data : [Cells -> Symbol], head : Cells, tail : Cells, count : 0 .. CONSOLE_BUFFER_SIZE]
      /\ b.head \in Nat /\ b.tail \in Nat /\ b.count \in Nat /\ CONSOLE_BUFFER_SIZE \in Nat \ {0}
      /\ b.head + b.count \in Nat
      /\ b.tail = (b.head + b.count) % CONSOLE_BUFFER_SIZE
  BY SizeIs DEF InputOK, Cells
<1>2. t = (b.head + (b.count + 1)) % CONSOLE_BUFFER_SIZE /\ t \in Cells
  <2> DEFINE x == b.head + b.count
  <2>1. x \in Nat /\ b.tail = x % CONSOLE_BUFFER_SIZE
    BY <1>1
  <2> HIDE DEF x
  <2>2. ((x % CONSOLE_BUFFER_SIZE) + 1) % CONSOLE_BUFFER_SIZE = (x + 1) % CONSOLE_BUFFER_SIZE
    BY <1>1, <2>1, Wrapped
  <2>3. (x + 1) % CONSOLE_BUFFER_SIZE \in 0 .. CONSOLE_BUFFER_SIZE - 1
    BY <1>1, <2>1, Division
  <2>4. x + 1 = b.head + (b.count + 1)
    BY <1>1 DEF x
  <2> QED
    BY <2>1, <2>2, <2>3, <2>4 DEF Cells
<1>3. w = [b EXCEPT !.data[b.tail] = c, !.tail = t, !.count = @ + 1]
  BY <1>1 DEF buffer_put
<1> DEFINE d == [b.data EXCEPT ![b.tail] = c]
<1>10. d \in [Cells -> Symbol] /\ b.count + 1 \in 0 .. CONSOLE_BUFFER_SIZE
  BY <1>1
<1>11. w = [data |-> d, head |-> b.head, tail |-> t, count |-> b.count + 1]
  <2> HIDE DEF w, t
  <2> QED
    BY <1>1, <1>3
<1> HIDE DEF w, t, d
<1>4. /\ w \in [data : [Cells -> Symbol], head : Cells, tail : Cells, count : 0 .. CONSOLE_BUFFER_SIZE]
      /\ w.head = b.head /\ w.tail = t /\ w.count = b.count + 1
      /\ w.data = d
  BY <1>1, <1>2, <1>10, <1>11
<1>5. InputOK(w)
  BY <1>2, <1>4 DEF InputOK
<1>6. Cell(b, b.count + 1) = b.tail
  <2>1. b.head + (b.count + 1) - 1 = b.head + b.count
    BY <1>1
  <2> QED
    BY <1>1, <2>1 DEF Cell
<1>7. ASSUME NEW i \in 1 .. b.count PROVE w.data[Cell(b, i)] = b.data[Cell(b, i)]
  <2>1. /\ i \in Nat \ {0} /\ b.count + 1 \in Nat \ {0} /\ i < b.count + 1
        /\ b.count + 1 < i + CONSOLE_BUFFER_SIZE
    BY <1>1
  <2>2. Cell(b, i) # b.tail /\ Cell(b, i) \in Cells
    BY <1>6, <2>1, CellIs, CellsDiffer
  <2> QED
    BY <1>1, <1>4, <2>2 DEF d
<1>8. w.data[Cell(b, b.count + 1)] = c
  BY <1>1, <1>4, <1>6 DEF d
<1>9. \A i \in Nat \ {0} : Cell(w, i) = Cell(b, i)
  BY <1>4 DEF Cell
<1> QED
  BY <1>4, <1>5, <1>7, <1>8, <1>9 DEF w

\* The input that waits in b, and what it is when at most n of the symbols of s
\* have been added.
Contents(b) == buffer_peek(b, b.count)
Grown(b, s, n) ==
    {w \in [data : [Cells -> Symbol], head : Cells, tail : Cells, count : 0 .. CONSOLE_BUFFER_SIZE] :
       /\ InputOK(w) /\ w.head = b.head
       /\ w.count = IF b.count + n <= CONSOLE_BUFFER_SIZE THEN b.count + n ELSE CONSOLE_BUFFER_SIZE
       /\ \A i \in 1 .. w.count :
            w.data[Cell(b, i)] = IF i <= b.count THEN b.data[Cell(b, i)] ELSE s[i - b.count]}

LEMMA PutGrows ==
  ASSUME NEW b, InputOK(b), NEW s \in Seq(Symbol), NEW k \in 0 .. Len(s) - 1,
         NEW w \in Grown(b, s, k)
  PROVE  buffer_put(w, s[k + 1]) \in Grown(b, s, k + 1)
<1> DEFINE c == s[k + 1]
           v == buffer_put(w, c)
<1>1. Len(s) \in Nat /\ k \in Nat /\ k + 1 \in 1 .. Len(s)
  BY LenProperties
<1>2. c \in Symbol
  BY <1>1, ElementOfSeq
<1>3. /\ InputOK(w) /\ w.head = b.head /\ b.count \in Nat /\ w.count \in Nat
      /\ b.count <= CONSOLE_BUFFER_SIZE /\ w.count <= CONSOLE_BUFFER_SIZE
      /\ w.count = IF b.count + k <= CONSOLE_BUFFER_SIZE THEN b.count + k ELSE CONSOLE_BUFFER_SIZE
      /\ \A i \in 1 .. w.count :
           w.data[Cell(b, i)] = IF i <= b.count THEN b.data[Cell(b, i)] ELSE s[i - b.count]
      /\ CONSOLE_BUFFER_SIZE \in Nat
  BY SizeIs DEF Grown, InputOK
<1> HIDE DEF c
<1>4. CASE w.count >= CONSOLE_BUFFER_SIZE
  <2>1. v = w
    BY <1>4 DEF buffer_put
  <2>2. w.count = IF b.count + (k + 1) <= CONSOLE_BUFFER_SIZE THEN b.count + (k + 1) ELSE CONSOLE_BUFFER_SIZE
    BY <1>1, <1>3, <1>4
  <2> HIDE DEF v
  <2> QED
    BY <1>3, <2>1, <2>2 DEF Grown, InputOK, v, c
<1>5. CASE w.count < CONSOLE_BUFFER_SIZE
  <2>1. w.count = b.count + k
    BY <1>1, <1>3, <1>5
  <2>2. /\ InputOK(v) /\ v.count = w.count + 1 /\ v.head = w.head
        /\ v.data[Cell(w, w.count + 1)] = c
        /\ \A i \in 1 .. w.count : v.data[Cell(w, i)] = w.data[Cell(w, i)]
    BY <1>2, <1>3, <1>5, PutKeeps
  <2>4. \A i : Cell(w, i) = Cell(b, i)
    BY <1>3 DEF Cell
  <2> HIDE DEF v
  <2>5. v.count = IF b.count + (k + 1) <= CONSOLE_BUFFER_SIZE THEN b.count + (k + 1) ELSE CONSOLE_BUFFER_SIZE
    <3>1. v.count = b.count + (k + 1) /\ v.count <= CONSOLE_BUFFER_SIZE
      <4>1. b.count \in Nat /\ w.count \in Nat /\ w.count < CONSOLE_BUFFER_SIZE /\ CONSOLE_BUFFER_SIZE \in Nat /\ v.count = w.count + 1
        BY <1>3, <1>5, <2>2
      <4> QED
        BY <1>1, <2>1, <4>1
    <3> QED
      BY <3>1
  <2>6. ASSUME NEW i \in 1 .. v.count
        PROVE  v.data[Cell(b, i)] = IF i <= b.count THEN b.data[Cell(b, i)] ELSE s[i - b.count]
    <3>1. CASE i = w.count + 1
      <4>1. i - b.count = k + 1 /\ ~(i <= b.count)
        BY <1>1, <1>3, <2>1, <3>1
      <4> QED
        BY <2>2, <2>4, <3>1, <4>1 DEF c
    <3>2. CASE i # w.count + 1
      <4>1. i \in 1 .. w.count
        BY <1>3, <2>2, <3>2
      <4>2. v.data[Cell(b, i)] = w.data[Cell(b, i)]
        BY <2>2, <2>4, <4>1
      <4>3. w.data[Cell(b, i)] = IF i <= b.count THEN b.data[Cell(b, i)] ELSE s[i - b.count]
        BY <1>3, <4>1
      <4> QED
        BY <4>2, <4>3
    <3> QED
      BY <3>1, <3>2
  <2> QED
    BY <1>3, <2>2, <2>5, <2>6 DEF Grown, InputOK, v, c
<1> QED
  BY <1>3, <1>4, <1>5

LEMMA WriteIsFold ==
  ASSUME NEW b, NEW s
  PROVE  buffer_write(b, s) = Put!Fold(s, b, DOMAIN s)
  BY DEF buffer_write, FoldLeft, MapThenFoldSet, Put!Fold, PutStep

\* The loop of buffer_write.
LEMMA WriteGrows ==
  ASSUME NEW b, InputOK(b), NEW s \in Seq(Symbol)
  PROVE  buffer_write(b, s) \in Grown(b, s, Len(s))
<1> DEFINE n == Len(s)
           I == [k \in 0 .. n |-> Grown(b, s, k)]
<1>1. n \in Nat /\ DOMAIN s = 1 .. n
  BY LenProperties
<1>2. b \in I[0]
  <2>1. b.count \in Nat /\ b.count <= CONSOLE_BUFFER_SIZE
    BY SizeIs DEF InputOK
  <2>2. b.count = IF b.count + 0 <= CONSOLE_BUFFER_SIZE THEN b.count + 0 ELSE CONSOLE_BUFFER_SIZE
    BY <2>1
  <2>3. b \in Grown(b, s, 0)
    BY <2>1, <2>2 DEF Grown, InputOK
  <2> QED
    BY <1>1, <2>3
<1>3. ASSUME NEW k \in 0 .. n - 1, NEW w \in I[k]
      PROVE  PutStep(s, k + 1, w) \in I[k + 1]
  <2>1. k \in 0 .. n /\ k + 1 \in 0 .. n
    BY <1>1
  <2>2. w \in Grown(b, s, k) /\ I[k + 1] = Grown(b, s, k + 1)
    BY <2>1
  <2> HIDE DEF I
  <2> QED
    BY <2>2, PutGrows DEF PutStep
<1>4. Put!PicksLast(n)
  BY <1>1, Put!GreatestMember DEF Put!PicksLast, Max
<1>5. Put!Fold(s, b, 1 .. n) \in I[n]
  <2> HIDE DEF I, n
  <2> QED
    BY <1>1, <1>2, <1>3, <1>4, Put!FoldSeqInduction
<1> QED
  BY <1>1, <1>5, WriteIsFold

LEMMA PeekIs ==
  ASSUME NEW b, InputOK(b), NEW n \in 0 .. CONSOLE_BUFFER_SIZE
  PROVE  /\ buffer_peek(b, n) \in Seq(Symbol) /\ Len(buffer_peek(b, n)) = n
         /\ \A i \in 1 .. n : buffer_peek(b, n)[i] = b.data[Cell(b, i)]
<1>1. n \in Nat /\ b.data \in [Cells -> Symbol]
  BY SizeIs DEF InputOK
<1>2. \A i \in 1 .. n : b.data[Cell(b, i)] \in Symbol
  BY <1>1, CellIs
<1>3. buffer_peek(b, n) = [i \in 1 .. n |-> b.data[Cell(b, i)]]
  BY DEF buffer_peek, Cell
<1>4. buffer_peek(b, n) \in [1 .. n -> Symbol]
  BY <1>2, <1>3
<1> QED
  BY <1>1, <1>3, <1>4

\* buffer_write takes as much as there is room for, behind what waits.
LEMMA WriteIs ==
  ASSUME NEW b, InputOK(b), NEW s \in Seq(Symbol)
  PROVE  /\ InputOK(buffer_write(b, s))
         /\ Contents(buffer_write(b, s)) = Contents(b) \o Prefix(s, CONSOLE_BUFFER_SIZE - b.count)
<1> DEFINE w == buffer_write(b, s)
           room == CONSOLE_BUFFER_SIZE - b.count
           p == Prefix(s, room)
           x == Contents(w)
           y == Contents(b) \o p
<1>1. w \in Grown(b, s, Len(s)) /\ Len(s) \in Nat
  BY WriteGrows, LenProperties
<1>2. /\ b.count \in Nat /\ b.count <= CONSOLE_BUFFER_SIZE /\ CONSOLE_BUFFER_SIZE \in Nat
      /\ room \in Nat /\ b.count \in 0 .. CONSOLE_BUFFER_SIZE
  BY SizeIs DEF InputOK
<1> HIDE DEF w
<1>3. /\ InputOK(w) /\ w.head = b.head /\ w.count \in 0 .. CONSOLE_BUFFER_SIZE
      /\ w.count = IF b.count + Len(s) <= CONSOLE_BUFFER_SIZE THEN b.count + Len(s) ELSE CONSOLE_BUFFER_SIZE
      /\ \A i \in 1 .. w.count :
            w.data[Cell(b, i)] = IF i <= b.count THEN b.data[Cell(b, i)] ELSE s[i - b.count]
  BY <1>1 DEF Grown
<1>4. /\ p \in Seq(Symbol) /\ Len(p) = (IF room <= Len(s) THEN room ELSE Len(s))
      /\ \A i \in 1 .. Len(p) : p[i] = s[i]
  <2> HIDE DEF room
  <2> QED
    BY <1>2, PrefixIs
<1> HIDE DEF p
<1>5. w.count = b.count + Len(p) /\ Len(p) \in Nat
  <2>1. /\ w.count = IF b.count + Len(s) <= CONSOLE_BUFFER_SIZE THEN b.count + Len(s) ELSE CONSOLE_BUFFER_SIZE
        /\ Len(p) = IF CONSOLE_BUFFER_SIZE - b.count <= Len(s) THEN CONSOLE_BUFFER_SIZE - b.count ELSE Len(s)
    BY <1>3, <1>4
  <2> QED
    BY <1>1, <1>2, <2>1
<1>6. /\ Contents(b) \in Seq(Symbol) /\ Len(Contents(b)) = b.count
      /\ \A i \in 1 .. b.count : Contents(b)[i] = b.data[Cell(b, i)]
  BY <1>2, PeekIs DEF Contents
<1>7. /\ x \in Seq(Symbol) /\ Len(x) = w.count
      /\ \A i \in 1 .. w.count : x[i] = w.data[Cell(w, i)]
  BY <1>3, PeekIs DEF Contents
<1>8. /\ y \in Seq(Symbol) /\ Len(y) = b.count + Len(p)
      /\ \A i \in 1 .. b.count + Len(p) : y[i] = IF i <= b.count THEN Contents(b)[i] ELSE p[i - b.count]
  <2> DEFINE q == Contents(b)
  <2>1. q \in Seq(Symbol) /\ p \in Seq(Symbol) /\ y = q \o p
    BY <1>4, <1>6
  <2> HIDE DEF q, y
  <2>2. /\ y \in Seq(Symbol) /\ Len(y) = Len(q) + Len(p)
        /\ \A i \in 1 .. Len(q) + Len(p) : y[i] = IF i <= Len(q) THEN q[i] ELSE p[i - Len(q)]
    BY <2>1, ConcatProperties
  <2> QED
    BY <1>6, <2>2 DEF q
<1>9. \A i : Cell(w, i) = Cell(b, i)
  BY <1>3 DEF Cell
<1> HIDE DEF x, y
<1>10. ASSUME NEW i \in 1 .. w.count PROVE x[i] = y[i]
  <2>1. x[i] = IF i <= b.count THEN b.data[Cell(b, i)] ELSE s[i - b.count]
    BY <1>3, <1>7, <1>9
  <2>2. y[i] = IF i <= b.count THEN Contents(b)[i] ELSE p[i - b.count]
    BY <1>5, <1>8
  <2>3. CASE i <= b.count
    <3>1. i \in 1 .. b.count
      BY <1>2, <1>5, <2>3
    <3> QED
      BY <1>6, <2>1, <2>2, <2>3, <3>1
  <2>4. CASE ~(i <= b.count)
    <3>1. i - b.count \in 1 .. Len(p)
      BY <1>2, <1>5, <2>4
    <3> QED
      BY <1>4, <2>1, <2>2, <2>4, <3>1
  <2> QED
    BY <2>3, <2>4
<1>11. x = y
  BY <1>5, <1>7, <1>8, <1>10, SeqEqual
<1> QED
  BY <1>3, <1>11 DEF x, y, p, w

\* buffer_get takes the oldest n symbols out.
LEMMA GetIs ==
  ASSUME NEW b, InputOK(b), NEW n \in 0 .. b.count
  PROVE  /\ InputOK(buffer_get(b, n)) /\ buffer_get(b, n).count = b.count - n
         /\ buffer_peek(b, n) \in Seq(Symbol) /\ Len(buffer_peek(b, n)) = n
         /\ Contents(b) = buffer_peek(b, n) \o Contents(buffer_get(b, n))
<1> DEFINE g == buffer_get(b, n)
           h == (b.head + n) % CONSOLE_BUFFER_SIZE
           gone == {(b.head + i) % CONSOLE_BUFFER_SIZE : i \in 0 .. n - 1}
           d == [i \in DOMAIN b.data |-> IF i \in gone THEN Nil ELSE b.data[i]]
           x == Contents(b)
           y == buffer_peek(b, n) \o Contents(g)
<1>1. /\ b \in [data : [Cells -> Symbol], head : Cells, tail : Cells, count : 0 .. CONSOLE_BUFFER_SIZE]
      /\ b.head \in Nat /\ b.tail \in Nat /\ b.count \in Nat /\ CONSOLE_BUFFER_SIZE \in Nat \ {0}
      /\ b.tail = (b.head + b.count) % CONSOLE_BUFFER_SIZE
      /\ b.count <= CONSOLE_BUFFER_SIZE /\ n \in Nat /\ n <= b.count
  BY SizeIs DEF InputOK, Cells
<1>2. h \in Cells /\ \A k \in Nat : (h + k) % CONSOLE_BUFFER_SIZE = (b.head + n + k) % CONSOLE_BUFFER_SIZE
  <2> DEFINE z == b.head + n
  <2>1. z \in Nat
    BY <1>1
  <2> HIDE DEF z
  <2>2. z % CONSOLE_BUFFER_SIZE \in Cells
    BY <1>1, <2>1, Division DEF Cells
  <2>3. \A k \in Nat : ((z % CONSOLE_BUFFER_SIZE) + k) % CONSOLE_BUFFER_SIZE = (z + k) % CONSOLE_BUFFER_SIZE
    BY <1>1, <2>1, Wrapped
  <2> QED
    BY <2>2, <2>3 DEF z
<1>3. d \in [Cells -> Symbol]
  BY <1>1, SizeIs
<1>4. g = [data |-> d, head |-> h, tail |-> b.tail, count |-> b.count - n]
  BY DEF buffer_get
<1> HIDE DEF g, h, d, gone
<1>5. /\ g \in [data : [Cells -> Symbol], head : Cells, tail : Cells, count : 0 .. CONSOLE_BUFFER_SIZE]
      /\ g.head = h /\ g.tail = b.tail /\ g.count = b.count - n /\ g.data = d
      /\ g.count \in 0 .. CONSOLE_BUFFER_SIZE
  BY <1>1, <1>2, <1>3, <1>4
<1>6. InputOK(g)
  <2>1. (h + (b.count - n)) % CONSOLE_BUFFER_SIZE = (b.head + n + (b.count - n)) % CONSOLE_BUFFER_SIZE
    BY <1>1, <1>2
  <2>2. b.head + n + (b.count - n) = b.head + b.count
    BY <1>1
  <2> QED
    BY <1>1, <1>5, <2>1, <2>2 DEF InputOK
<1>7. ASSUME NEW i \in 1 .. b.count - n
      PROVE  Cell(g, i) = Cell(b, n + i) /\ g.data[Cell(g, i)] = b.data[Cell(b, n + i)]
  <2>1. i \in Nat \ {0} /\ i - 1 \in Nat /\ n + i \in Nat \ {0} /\ n + i <= b.count
    BY <1>1
  <2>2. (h + (i - 1)) % CONSOLE_BUFFER_SIZE = (b.head + n + (i - 1)) % CONSOLE_BUFFER_SIZE
    BY <1>2, <2>1
  <2>3. h \in Nat /\ h + i - 1 = h + (i - 1) /\ b.head + (n + i) - 1 = b.head + n + (i - 1)
    <3>1. h \in Nat /\ b.head \in Nat /\ n \in Nat
      BY <1>1, <1>2 DEF Cells
    <3> HIDE DEF h
    <3> QED
      BY <2>1, <3>1
  <2>4. Cell(g, i) = Cell(b, n + i)
    BY <1>5, <2>2, <2>3 DEF Cell
  <2>5. Cell(b, n + i) \in Cells
    BY <2>1, CellIs
  <2>6. ASSUME NEW j \in 0 .. n - 1 PROVE (b.head + j) % CONSOLE_BUFFER_SIZE # Cell(b, n + i)
    <3>1. j + 1 \in Nat \ {0} /\ j + 1 < n + i /\ n + i < (j + 1) + CONSOLE_BUFFER_SIZE
      BY <1>1, <2>1
    <3>2. Cell(b, j + 1) # Cell(b, n + i)
      BY <2>1, <3>1, CellsDiffer
    <3>3. b.head + (j + 1) - 1 = b.head + j
      BY <1>1
    <3> QED
      BY <3>2, <3>3 DEF Cell
  <2>7. Cell(b, n + i) \notin gone
    BY <2>6 DEF gone
  <2> QED
    BY <1>1, <1>5, <2>4, <2>5, <2>7 DEF d
<1>8. /\ buffer_peek(b, n) \in Seq(Symbol) /\ Len(buffer_peek(b, n)) = n
      /\ \A i \in 1 .. n : buffer_peek(b, n)[i] = b.data[Cell(b, i)]
  <2>1. n \in 0 .. CONSOLE_BUFFER_SIZE
    BY <1>1
  <2> QED
    BY <2>1, PeekIs
<1>9. /\ Contents(b) \in Seq(Symbol) /\ Len(Contents(b)) = b.count
      /\ \A i \in 1 .. b.count : Contents(b)[i] = b.data[Cell(b, i)]
  BY <1>1, PeekIs DEF Contents
<1>10. /\ Contents(g) \in Seq(Symbol) /\ Len(Contents(g)) = b.count - n
       /\ \A i \in 1 .. b.count - n : Contents(g)[i] = g.data[Cell(g, i)]
  BY <1>5, <1>6, PeekIs DEF Contents
<1>11. /\ y \in Seq(Symbol) /\ Len(y) = b.count
       /\ \A i \in 1 .. b.count : y[i] = IF i <= n THEN buffer_peek(b, n)[i] ELSE Contents(g)[i - n]
  <2> DEFINE f == buffer_peek(b, n)
             t == Contents(g)
  <2>1. f \in Seq(Symbol) /\ t \in Seq(Symbol) /\ Len(f) = n /\ Len(t) = b.count - n /\ y = f \o t
    BY <1>8, <1>10
  <2> HIDE DEF f, t, y
  <2>2. /\ y \in Seq(Symbol) /\ Len(y) = Len(f) + Len(t)
        /\ \A i \in 1 .. Len(f) + Len(t) : y[i] = IF i <= Len(f) THEN f[i] ELSE t[i - Len(f)]
    BY <2>1, ConcatProperties
  <2>3. Len(f) + Len(t) = b.count
    BY <1>1, <2>1
  <2> QED
    BY <2>1, <2>2, <2>3 DEF f, t
<1> HIDE DEF y
<1>12. ASSUME NEW i \in 1 .. b.count PROVE Contents(b)[i] = y[i]
  <2>1. CASE i <= n
    <3>1. i \in 1 .. n
      BY <1>1, <2>1
    <3> QED
      BY <1>8, <1>9, <1>11, <2>1, <3>1
  <2>2. CASE ~(i <= n)
    <3>1. i - n \in 1 .. b.count - n /\ n + (i - n) = i
      BY <1>1, <2>2
    <3> QED
      BY <1>7, <1>9, <1>10, <1>11, <2>2, <3>1
  <2> QED
    BY <2>1, <2>2
<1>13. Contents(b) = y
  BY <1>9, <1>11, <1>12, SeqEqual
<1> QED
  BY <1>5, <1>6, <1>8, <1>13 DEF g, y

-----------------------------------------------------------------------------
(* What the guest has still to collect, on a receive ring m that the       *)
(* driver has followed up to index l.                                      *)

Packet == [from : {"host", "guest"}, data : Seq(Symbol)]

\* The receive buffer of the k-th chain; what the used ones hold.
BufferAt(m, l, k) == m.chain[HeadAt(m, l, k)][1]
Datas(m, l) == [k \in 1 .. Used(m, l) |-> BufferAt(m, l, k).data]

\* FramesInOrder and InputInOrder, place by place.
NetOrder(m, l, pk, ow) ==
    /\ Used(m, l) + Len(pk) = Len(ow)
    /\ \A k \in 1 .. Used(m, l) :
         BufferAt(m, l, k).data = Prefix(ow[k].data, BufferAt(m, l, k).len - HDR)
    /\ \A k \in 1 .. Len(pk) : pk[k] = ow[Used(m, l) + k]
TextOrder(m, l, b, ow) ==
    /\ FlattenSeq(Datas(m, l)) \o Contents(b) = ow
    /\ \A k \in 1 .. Used(m, l) : m.used_ring[Slot(l, k)].len = Len(BufferAt(m, l, k).data)

SameView(m, l, m2, l2) ==
    /\ Used(m2, l2) = Used(m, l)
    /\ \A k \in 1 .. Used(m, l) :
         /\ BufferAt(m2, l2, k) = BufferAt(m, l, k)
         /\ m2.used_ring[Slot(l2, k)].len = m.used_ring[Slot(l, k)].len

LEMMA ViewKeeps ==
  ASSUME NEW m, NEW l, NEW m2, NEW l2, SameView(m, l, m2, l2)
  PROVE  /\ \A pk, ow : NetOrder(m, l, pk, ow) => NetOrder(m2, l2, pk, ow)
         /\ \A b, ow : TextOrder(m, l, b, ow) => TextOrder(m2, l2, b, ow)
<1>1. \A pk, ow : NetOrder(m, l, pk, ow) => NetOrder(m2, l2, pk, ow)
  BY DEF SameView, NetOrder
<1>2. Datas(m2, l2) = Datas(m, l)
  BY DEF SameView, Datas
<1>3. \A b, ow : TextOrder(m, l, b, ow) => TextOrder(m2, l2, b, ow)
  BY <1>2 DEF SameView, TextOrder
<1> QED
  BY <1>1, <1>3

LEMMA BufferIs ==
  ASSUME NEW k, NEW la, NEW m, NEW l, QueueOK(la, m, l, Chains("rx", k)), NEW j \in 1 .. Outstanding(m, l)
  PROVE  BufferAt(m, l, j) \in Buffer(k)
<1> DEFINE c == m.chain[HeadAt(m, l, j)]
<1>1. c \in Chains("rx", k)
  BY DEF QueueOK
<1> HIDE DEF c
<1>2. c \in Seq(Buffer(k)) /\ Len(c) = 1
  BY <1>1 DEF Chains
<1>3. c[1] \in Buffer(k)
  BY <1>2, 1 \in 1 .. Len(c), ElementOfSeq
<1> QED
  BY <1>3 DEF c, BufferAt

LEMMA CountsAre ==
  ASSUME NEW P, NEW la, NEW m, NEW l, QueueOK(la, m, l, P)
  PROVE  Used(m, l) \in Nat /\ Outstanding(m, l) \in Nat /\ Used(m, l) <= Outstanding(m, l)
<1>1. m.used_idx \in Index /\ m.avail_idx \in Index /\ l \in Index
  BY DEF QueueOK, Ring
<1> QED
  BY <1>1, DistanceIs DEF QueueOK, Used, Outstanding

LEMMA UsedBuffers ==
  ASSUME NEW k, NEW la, NEW m, NEW l, QueueOK(la, m, l, Chains("rx", k))
  PROVE  /\ Used(m, l) \in Nat
         /\ \A j \in 1 .. Used(m, l) : BufferAt(m, l, j) \in Buffer(k)
         /\ Datas(m, l) \in Seq(Seq(Symbol)) /\ Len(Datas(m, l)) = Used(m, l)
<1>1. /\ Used(m, l) \in Nat /\ Outstanding(m, l) \in Nat /\ Used(m, l) <= Outstanding(m, l)
  BY CountsAre
<1>2. \A j \in 1 .. Used(m, l) : BufferAt(m, l, j) \in Buffer(k)
  <2>1. \A j \in 1 .. Used(m, l) : j \in 1 .. Outstanding(m, l)
    BY <1>1
  <2> QED
    BY <2>1, BufferIs
<1>3. \A j \in 1 .. Used(m, l) : BufferAt(m, l, j).data \in Seq(Symbol)
  BY <1>2 DEF Buffer
<1> DEFINE T == Seq(Symbol)
<1>4. Datas(m, l) \in [1 .. Used(m, l) -> T]
  BY <1>3 DEF Datas
<1>5. Datas(m, l) \in Seq(T) /\ Len(Datas(m, l)) = Used(m, l)
  <2> HIDE DEF T
  <2> QED
    BY <1>1, <1>4
<1> QED
  BY <1>1, <1>2, <1>5

\* The network device.
LEMMA NetAppend ==
  ASSUME NEW m, NEW l, Used(m, l) \in Nat, NEW pk \in Seq(Packet), NEW ow \in Seq(Packet),
         NetOrder(m, l, pk, ow), NEW p \in Packet
  PROVE  /\ NetOrder(m, l, Append(pk, p), Append(ow, p))
         /\ Append(pk, p) \in Seq(Packet) /\ Append(ow, p) \in Seq(Packet)
<1> DEFINE u == Used(m, l)
           pk2 == Append(pk, p)
           ow2 == Append(ow, p)
<1>1. /\ pk2 \in Seq(Packet) /\ Len(pk2) = Len(pk) + 1 /\ pk2[Len(pk) + 1] = p
      /\ ow2 \in Seq(Packet) /\ Len(ow2) = Len(ow) + 1 /\ ow2[Len(ow) + 1] = p
      /\ \A i \in 1 .. Len(pk) : pk2[i] = pk[i]
      /\ \A i \in 1 .. Len(ow) : ow2[i] = ow[i]
  BY AppendProperties
<1>2. u \in Nat /\ Len(pk) \in Nat /\ Len(ow) \in Nat /\ u + Len(pk) = Len(ow)
  BY LenProperties DEF NetOrder
<1> HIDE DEF pk2, ow2
<1>3. ASSUME NEW k \in 1 .. u
      PROVE  BufferAt(m, l, k).data = Prefix(ow2[k].data, BufferAt(m, l, k).len - HDR)
  <2>1. ow2[k] = ow[k]
    BY <1>1, <1>2
  <2> QED
    BY <2>1 DEF NetOrder
<1>4. ASSUME NEW k \in 1 .. Len(pk2) PROVE pk2[k] = ow2[u + k]
  <2>1. CASE k = Len(pk) + 1
    <3>1. u + k = Len(ow) + 1
      BY <1>2, <2>1
    <3> QED
      BY <1>1, <2>1, <3>1
  <2>2. CASE k # Len(pk) + 1
    <3>1. k \in 1 .. Len(pk) /\ u + k \in 1 .. Len(ow)
      BY <1>1, <1>2, <2>2
    <3> QED
      BY <1>1, <3>1 DEF NetOrder
  <2> QED
    BY <2>1, <2>2
<1>5. u + Len(pk2) = Len(ow2)
  BY <1>1, <1>2
<1>6. NetOrder(m, l, pk2, ow2)
  BY <1>3, <1>4, <1>5 DEF NetOrder
<1> QED
  BY <1>1, <1>6 DEF pk2, ow2

LEMMA NetGive ==
  ASSUME NEW m, NEW m2, NEW l, Used(m, l) \in Nat, NEW pk \in Seq(Packet), NEW ow \in Seq(Packet),
         NetOrder(m, l, pk, ow), pk # << >>,
         NEW room, room = BufferAt(m, l, Used(m, l) + 1).len, room \in Nat, room >= HDR,
         NEW content, content = Prefix(pk[1].data, room - HDR),
         NEW n, Given(m, m2, l, content, n)
  PROVE  NetOrder(m2, l, Tail(pk), ow) /\ Tail(pk) \in Seq(Packet)
<1> DEFINE u == Used(m, l)
           pk2 == Tail(pk)
<1>1. /\ pk2 \in Seq(Packet) /\ Len(pk2) = Len(pk) - 1 /\ Len(pk) \in Nat \ {0} /\ Len(ow) \in Nat
      /\ \A i \in 1 .. Len(pk2) : pk2[i] = pk[i + 1]
  BY HeadTailProperties, EmptySeq, LenProperties
<1>2. /\ u \in Nat /\ u + Len(pk) = Len(ow)
      /\ \A k \in 1 .. u : BufferAt(m, l, k).data = Prefix(ow[k].data, BufferAt(m, l, k).len - HDR)
      /\ \A k \in 1 .. Len(pk) : pk[k] = ow[u + k]
  BY DEF NetOrder
<1>3. /\ Used(m2, l) = u + 1
      /\ \A k \in 1 .. u : BufferAt(m2, l, k) = BufferAt(m, l, k)
      /\ BufferAt(m2, l, u + 1) = [len |-> room, data |-> content]
  BY DEF Given, BufferAt
<1> HIDE DEF u, pk2
<1>4. ASSUME NEW k \in 1 .. u + 1
      PROVE  BufferAt(m2, l, k).data = Prefix(ow[k].data, BufferAt(m2, l, k).len - HDR)
  <2>1. CASE k = u + 1
    <3>1. pk[1] = ow[u + 1]
      BY <1>1, <1>2
    <3>2. BufferAt(m2, l, k).data = content /\ BufferAt(m2, l, k).len = room
      BY <1>3, <2>1
    <3> QED
      BY <2>1, <3>1, <3>2
  <2>2. CASE k # u + 1
    <3>1. k \in 1 .. u
      BY <1>2, <2>2
    <3> QED
      BY <1>2, <1>3, <3>1
  <2> QED
    BY <2>1, <2>2
<1>5. ASSUME NEW k \in 1 .. Len(pk2) PROVE pk2[k] = ow[u + 1 + k]
  <2>1. k + 1 \in 1 .. Len(pk) /\ u + (k + 1) = u + 1 + k
    BY <1>1, <1>2
  <2> QED
    BY <1>1, <1>2, <2>1
<1>6. u + 1 + Len(pk2) = Len(ow)
  <2>1. Len(pk2) = Len(pk) - 1 /\ Len(pk) \in Nat /\ u \in Nat /\ u + Len(pk) = Len(ow)
    BY <1>1, <1>2
  <2> QED
    BY <2>1
<1>7. NetOrder(m2, l, pk2, ow)
  BY <1>3, <1>4, <1>5, <1>6 DEF NetOrder
<1> QED
  BY <1>1, <1>7 DEF pk2

LEMMA NetReap ==
  ASSUME NEW m, NEW l, Used(m, l) \in Nat, NEW pk \in Seq(Packet), NEW ow \in Seq(Packet),
         NetOrder(m, l, pk, ow), NEW m2, NEW l2, Used(m2, l2) = 0
  PROVE  NetOrder(m2, l2, pk, pk) /\ SubSeq(ow, Used(m, l) + 1, Len(ow)) = pk
<1> DEFINE u == Used(m, l)
           s == SubSeq(ow, u + 1, Len(ow))
<1>1. /\ u \in Nat /\ Len(pk) \in Nat /\ Len(ow) \in Nat /\ u + Len(pk) = Len(ow)
      /\ \A k \in 1 .. Len(pk) : pk[k] = ow[u + k]
  BY LenProperties DEF NetOrder
<1>2. \A i \in u + 1 .. Len(ow) : ow[i] \in Packet
  <2>1. \A i \in u + 1 .. Len(ow) : i \in 1 .. Len(ow)
    BY <1>1
  <2> QED
    BY <2>1, ElementOfSeq
<1> HIDE DEF u
<1>3. /\ s \in Seq(Packet) /\ Len(s) = (IF u + 1 <= Len(ow) THEN Len(ow) - (u + 1) + 1 ELSE 0)
      /\ \A i \in 1 .. Len(ow) - (u + 1) + 1 : s[i] = ow[(u + 1) + i - 1]
  BY <1>1, <1>2, SubSeqProperties
<1>4. Len(s) = Len(pk)
  BY <1>1, <1>3
<1>5. ASSUME NEW i \in 1 .. Len(s) PROVE s[i] = pk[i]
  <2>1. i \in 1 .. Len(ow) - (u + 1) + 1 /\ (u + 1) + i - 1 = u + i /\ i \in 1 .. Len(pk)
    BY <1>1, <1>4
  <2> QED
    BY <1>1, <1>3, <2>1
<1>6. s = pk
  BY <1>3, <1>4, <1>5, SeqEqual
<1>7. NetOrder(m2, l2, pk, pk)
  BY <1>1 DEF NetOrder
<1> QED
  BY <1>6, <1>7 DEF u

\* The console.
LEMMA TextGive ==
  ASSUME NEW la, NEW m, NEW m2, NEW l, QueueOK(la, m, l, Chains("rx", "console")),
         NEW b, InputOK(b), NEW n \in 0 .. b.count, NEW ow \in Seq(Symbol), TextOrder(m, l, b, ow),
         NEW content, content = buffer_peek(b, n), Given(m, m2, l, content, n)
  PROVE  TextOrder(m2, l, buffer_get(b, n), ow)
<1> DEFINE u == Used(m, l)
           D == Datas(m, l)
           D2 == Datas(m2, l)
           g == buffer_get(b, n)
<1>1. u \in Nat /\ D \in Seq(Seq(Symbol)) /\ Len(D) = u
  BY UsedBuffers
<1>2. /\ InputOK(g) /\ content \in Seq(Symbol) /\ Len(content) = n
      /\ Contents(b) = content \o Contents(g)
  BY GetIs
<1>3. Contents(g) \in Seq(Symbol)
  <2>1. g.count \in 0 .. CONSOLE_BUFFER_SIZE
    BY <1>2 DEF InputOK
  <2> QED
    BY <1>2, <2>1, PeekIs DEF Contents
<1>4. /\ Used(m2, l) = u + 1
      /\ \A k \in 1 .. u : /\ m2.used_ring[Slot(l, k)] = m.used_ring[Slot(l, k)]
                           /\ BufferAt(m2, l, k) = BufferAt(m, l, k)
      /\ m2.used_ring[Slot(l, u + 1)].len = n
      /\ BufferAt(m2, l, u + 1).data = content
  BY DEF Given, BufferAt
<1> HIDE DEF u, g
<1>5. D2 = Append(D, content)
  <2>1. D2 = [k \in 1 .. u + 1 |-> BufferAt(m2, l, k).data] /\ D = [k \in 1 .. u |-> BufferAt(m, l, k).data]
    BY <1>4 DEF Datas, u
  <2> DEFINE T == Seq(Symbol)
             A == Append(D, content)
  <2>2. D \in Seq(T) /\ content \in T
    BY <1>1, <1>2
  <2> HIDE DEF D, D2, T
  <2>3. /\ A \in Seq(T) /\ Len(A) = u + 1 /\ A[u + 1] = content
        /\ \A k \in 1 .. u : A[k] = D[k] /\ D[k] \in T
    BY <1>1, <2>2, AppendProperties, ElementOfSeq
  <2> HIDE DEF A
  <2>4. ASSUME NEW k \in 1 .. u + 1 PROVE BufferAt(m2, l, k).data = A[k] /\ A[k] \in T
    <3>1. CASE k = u + 1
      BY <1>4, <2>2, <2>3, <3>1
    <3>2. CASE k # u + 1
      <4>1. k \in 1 .. u
        BY <1>1, <3>2
      <4>2. D[k] = BufferAt(m, l, k).data
        BY <2>1, <4>1
      <4> QED
        BY <1>4, <2>3, <4>1, <4>2
    <3> QED
      BY <3>1, <3>2
  <2>5. D2 \in [1 .. u + 1 -> T] /\ \A k \in 1 .. u + 1 : D2[k] = A[k]
    BY <2>1, <2>4
  <2>6. D2 \in Seq(T) /\ Len(D2) = u + 1
    BY <1>1, <2>5
  <2> QED
    BY <2>3, <2>5, <2>6, SeqEqual DEF A
<1> HIDE DEF D, D2
<1>6. FlattenSeq(D2) = FlattenSeq(D) \o content
  BY <1>1, <1>2, <1>5, FlattenAppend
<1>7. FlattenSeq(D) \in Seq(Symbol)
  BY <1>1, FlattenType
<1> DEFINE f == FlattenSeq(D)
           c == Contents(g)
<1>8. f \o (content \o c) = ow
  BY <1>2 DEF TextOrder, D
<1>9. (f \o content) \o c = f \o (content \o c)
  <2> HIDE DEF f, c
  <2>1. f \in Seq(Symbol) /\ c \in Seq(Symbol)
    BY <1>3, <1>7 DEF f, c
  <2>2. Assoc(f, content, c)
    BY <1>2, <2>1, Regroup
  <2> QED
    BY <2>2 DEF Assoc
<1>10. FlattenSeq(Datas(m2, l)) \o Contents(g) = ow
  BY <1>6, <1>8, <1>9 DEF D2
<1>11. ASSUME NEW k \in 1 .. Used(m2, l)
       PROVE  m2.used_ring[Slot(l, k)].len = Len(BufferAt(m2, l, k).data)
  <2>1. CASE k = u + 1
    BY <1>2, <1>4, <2>1
  <2>2. CASE k # u + 1
    <3>1. k \in 1 .. u
      BY <1>1, <1>4, <2>2
    <3> QED
      BY <1>4, <3>1 DEF TextOrder, u
  <2> QED
    BY <2>1, <2>2
<1> QED
  BY <1>10, <1>11 DEF TextOrder, g

LEMMA TextWrite ==
  ASSUME NEW la, NEW m, NEW l, QueueOK(la, m, l, Chains("rx", "console")),
         NEW b, InputOK(b), NEW s \in Seq(Symbol), NEW ow \in Seq(Symbol), TextOrder(m, l, b, ow),
         NEW taken, taken = Prefix(s, CONSOLE_BUFFER_SIZE - b.count)
  PROVE  TextOrder(m, l, buffer_write(b, s), ow \o taken) /\ ow \o taken \in Seq(Symbol)
<1> DEFINE f == FlattenSeq(Datas(m, l))
           c == Contents(b)
<1>1. f \in Seq(Symbol)
  BY UsedBuffers, FlattenType
<1>2. b.count \in 0 .. CONSOLE_BUFFER_SIZE /\ CONSOLE_BUFFER_SIZE - b.count \in Nat
  BY SizeIs DEF InputOK
<1>3. c \in Seq(Symbol)
  BY <1>2, PeekIs DEF Contents
<1>4. taken \in Seq(Symbol)
  BY <1>2, PrefixIs
<1>5. Contents(buffer_write(b, s)) = c \o taken
  BY WriteIs
<1>6. f \o c = ow
  BY DEF TextOrder
<1>7. (f \o c) \o taken = f \o (c \o taken)
  <2> HIDE DEF f, c
  <2>1. Assoc(f, c, taken)
    BY <1>1, <1>3, <1>4, Regroup
  <2> QED
    BY <2>1 DEF Assoc
<1>8. FlattenSeq(Datas(m, l)) \o Contents(buffer_write(b, s)) = ow \o taken
  BY <1>5, <1>6, <1>7
<1>9. ow \o taken \in Seq(Symbol)
  BY <1>4, ConcatProperties
<1> QED
  BY <1>8, <1>9 DEF TextOrder

\* The driver counts the bytes of all buffers: as many as they hold.
LEMMA TextCount ==
  ASSUME NEW la, NEW m, NEW l, QueueOK(la, m, l, Chains("rx", "console")),
         \A k \in 1 .. Used(m, l) : m.used_ring[Slot(l, k)].len = Len(BufferAt(m, l, k).data),
         NEW used, used = [k \in 1 .. Used(m, l) |-> m.used_ring[Slot(l, k)]]
  PROVE  FoldLeft(LAMBDA n, u : n + u.len, 0, used) = Len(FlattenSeq(Datas(m, l)))
<1> DEFINE D == Datas(m, l)
           n == Used(m, l)
<1>1. n \in Nat /\ D \in Seq(Seq(Symbol)) /\ Len(D) = n /\ DOMAIN used = 1 .. n
  BY UsedBuffers
<1>2. FoldLeft(LAMBDA c, u : c + u.len, 0, used) = Count!Fold(used, 0, 1 .. n)
  BY <1>1 DEF FoldLeft, MapThenFoldSet, Count!Fold, LenStep
<1>3. \A k \in 1 .. n : used[k].len = Len(D[k])
  BY DEF Datas
<1> HIDE DEF D, n
<1>4. CASE n = 0
  <2>1. D = << >> /\ FlattenSeq(D) = << >>
    BY <1>1, <1>4, EmptySeq DEF FlattenSeq
  <2>2. Count!Fold(used, 0, 1 .. n) = 0
    BY <1>4, Count!FoldEmpty, 1 .. 0 = {}
  <2> QED
    BY <1>2, <2>1, <2>2 DEF D
<1>5. CASE n # 0
  <2>1. PICK g : IsFlat(g, D, n) /\ FlattenSeq(D) = g[n]
    BY <1>1, <1>5, FlattenIs
  <2>2. \A i \in 1 .. n : g[i] \in Seq(Symbol)
    BY <1>1, <2>1, FlatTypes
  <2> DEFINE I == [k \in 0 .. n |-> {IF k = 0 THEN 0 ELSE Len(g[k])}]
  <2>3. 0 \in I[0]
    BY <1>1
  <2>4. ASSUME NEW k \in 0 .. n - 1, NEW c \in I[k]
        PROVE  LenStep(used, k + 1, c) \in I[k + 1]
    <3>1. k \in Nat /\ k + 1 \in 1 .. n /\ k \in 0 .. n
      BY <1>1
    <3>2. c = IF k = 0 THEN 0 ELSE Len(g[k])
      BY <3>1
    <3>3. g[k + 1] = IF k = 0 THEN D[k + 1] ELSE g[k] \o D[k + 1]
      BY <1>1, <2>1, <3>1, FlatStep
    <3>4. D[k + 1] \in Seq(Symbol)
      <4> DEFINE T == Seq(Symbol)
      <4>1. D \in Seq(T) /\ k + 1 \in 1 .. Len(D)
        BY <1>1, <3>1
      <4> HIDE DEF T
      <4>2. D[k + 1] \in T
        BY <4>1, ElementOfSeq
      <4> QED
        BY <4>2 DEF T
    <3>5. Len(g[k + 1]) = c + Len(D[k + 1])
      <4>1. CASE k = 0
        <5>1. Len(D[k + 1]) \in Nat
          BY <3>4, LenProperties
        <5> QED
          BY <3>2, <3>3, <4>1, <5>1
      <4>2. CASE k # 0
        <5>1. g[k] \in Seq(Symbol)
          BY <2>2, <3>1, <4>2
        <5>2. Len(g[k] \o D[k + 1]) = Len(g[k]) + Len(D[k + 1])
          BY <3>4, <5>1, ConcatProperties
        <5> QED
          BY <3>2, <3>3, <4>2, <5>2
      <4> QED
        BY <4>1, <4>2
    <3>6. LenStep(used, k + 1, c) = c + Len(D[k + 1])
      BY <1>3, <3>1 DEF LenStep
    <3> QED
      BY <3>1, <3>5, <3>6
  <2>5. Count!PicksLast(n)
    BY <1>1, Count!GreatestMember DEF Count!PicksLast, Max
  <2>6. Count!Fold(used, 0, 1 .. n) \in I[n]
    <3> HIDE DEF I
    <3> QED
      BY <1>1, <2>3, <2>4, <2>5, Count!FoldSeqInduction
  <2>7. I[n] = {Len(g[n])}
    BY <1>1, <1>5
  <2> HIDE DEF I
  <2> QED
    BY <1>2, <2>1, <2>6, <2>7 DEF D
<1> QED
  BY <1>4, <1>5

LEMMA TextReap ==
  ASSUME NEW la, NEW m, NEW l, QueueOK(la, m, l, Chains("rx", "console")),
         NEW b, InputOK(b), NEW ow \in Seq(Symbol), TextOrder(m, l, b, ow),
         NEW r, r = Len(FlattenSeq(Datas(m, l))), NEW m2, NEW l2, Used(m2, l2) = 0
  PROVE  /\ TextOrder(m2, l2, b, SubSeq(ow, r + 1, Len(ow)))
         /\ SubSeq(ow, r + 1, Len(ow)) \in Seq(Symbol)
<1> DEFINE f == FlattenSeq(Datas(m, l))
           c == Contents(b)
           s == SubSeq(ow, r + 1, Len(ow))
<1>1. f \in Seq(Symbol)
  BY UsedBuffers, FlattenType
<1>2. c \in Seq(Symbol)
  <2>1. b.count \in 0 .. CONSOLE_BUFFER_SIZE
    BY DEF InputOK
  <2> QED
    BY <2>1, PeekIs DEF Contents
<1>3. f \o c = ow /\ r = Len(f)
  BY DEF TextOrder
<1> HIDE DEF f, c
<1>4. /\ r \in Nat /\ Len(c) \in Nat /\ Len(ow) = r + Len(c)
      /\ \A i \in 1 .. r + Len(c) : ow[i] = IF i <= r THEN f[i] ELSE c[i - r]
  BY <1>1, <1>2, <1>3, ConcatProperties, LenProperties
<1>5. \A i \in r + 1 .. Len(ow) : ow[i] \in Symbol
  <2>1. \A i \in r + 1 .. Len(ow) : i \in 1 .. Len(ow)
    BY <1>4
  <2> QED
    BY <2>1, ElementOfSeq
<1>6. /\ s \in Seq(Symbol) /\ Len(s) = (IF r + 1 <= Len(ow) THEN Len(ow) - (r + 1) + 1 ELSE 0)
      /\ \A i \in 1 .. Len(ow) - (r + 1) + 1 : s[i] = ow[(r + 1) + i - 1]
  BY <1>4, <1>5, SubSeqProperties
<1>7. Len(s) = Len(c)
  BY <1>4, <1>6
<1>8. ASSUME NEW i \in 1 .. Len(s) PROVE s[i] = c[i]
  <2>1. /\ i \in 1 .. Len(ow) - (r + 1) + 1 /\ (r + 1) + i - 1 = r + i /\ r + i \in 1 .. r + Len(c)
        /\ ~(r + i <= r) /\ r + i - r = i
    BY <1>4, <1>7
  <2> QED
    BY <1>4, <1>6, <2>1
<1>9. s = c
  BY <1>2, <1>6, <1>7, <1>8, SeqEqual
<1>10. Datas(m2, l2) = << >>
  BY DEF Datas
<1>11. FlattenSeq(<< >>) = << >> /\ << >> \o c = c
  BY <1>2, ConcatEmptySeq DEF FlattenSeq
<1>12. TextOrder(m2, l2, b, c)
  <2>1. FlattenSeq(Datas(m2, l2)) \o Contents(b) = c
    BY <1>10, <1>11 DEF c
  <2>2. 1 .. Used(m2, l2) = {}
    OBVIOUS
  <2> QED
    BY <2>1, <2>2 DEF TextOrder
<1> QED
  BY <1>2, <1>9, <1>12

LEMMA TextEmpty ==
  ASSUME NEW m, NEW l, Used(m, l) = 0
  PROVE  TextOrder(m, l, buffer_init, << >>)
<1>1. Datas(m, l) = << >>
  BY DEF Datas
<1>2. Contents(buffer_init) = << >>
  BY DEF Contents, buffer_init, buffer_peek
<1>3. FlattenSeq(<< >>) = << >>
  BY DEF FlattenSeq
<1> QED
  BY <1>1, <1>2, <1>3 DEF TextOrder

-----------------------------------------------------------------------------
(* The invariant. *)

Data ==
    /\ InputOK(input) /\ packets \in Seq(Packet)
    /\ kind = "net" =>
         /\ input.count = 0 /\ owed \in Seq(Packet)
         /\ NetOrder(ring["rx"], drv.last_used["rx"], packets, owed)
    /\ kind = "console" =>
         /\ packets = << >> /\ owed \in Seq(Symbol)
         /\ TextOrder(ring["rx"], drv.last_used["rx"], input, owed)

\* A queue with used chains is switched on, and unless the device is still at
\* work on it, they are announced.
Announced ==
    \A q \in Queue :
        Used(ring[q], drv.last_used[q]) > 0 =>
            /\ vqs[q].enabled = TRUE
            /\ drv.mode = "waiting" /\ phase # q => isr_status = TRUE

NothingFromHost ==
    /\ \A k \in DOMAIN packets : packets[k].from = "guest"
    /\ input.count = 0
Served ==
    phase # "rx" /\ drv.kick["rx"] = FALSE /\ virtq_has_work(vqs["rx"], ring["rx"]) => NothingFromHost

StreamInv == Queues /\ Data /\ Announced /\ Served

LEMMA InQueue == "rx" \in Queue /\ "tx" \in Queue /\ \A q \in Queue : q = "rx" \/ q = "tx"
  BY DEF Queue

LEMMA Types ==
  ASSUME Queues
  PROVE  /\ kind \in {"net", "console"} /\ queue_sel \in Queue /\ phase \in {"idle", "rx", "tx"}
         /\ isr_status \in BOOLEAN
         /\ vqs \in [Queue -> [enabled : BOOLEAN, last_avail_idx : Index]]
         /\ drv \in [last_used : [Queue -> Index], kick : [Queue -> BOOLEAN],
                     mode : {"waiting", "reaping"}]
         /\ \A q \in Queue :
              /\ QueueOK(vqs[q].last_avail_idx, ring[q], drv.last_used[q], Chains(q, kind))
              /\ Used(ring[q], drv.last_used[q]) \in Nat
              /\ vqs[q].last_avail_idx = ring[q].used_idx
  BY CountsAre DEF Queues, QueueOK

LEMMA InvStarts == Init => StreamInv
<1> SUFFICES ASSUME Init PROVE StreamInv
  OBVIOUS
<1>1. Queues
  BY QueuesStart
<1>2. /\ FreshDevice /\ kind \in {"net", "console"}
  BY DEF Init, virtio_net_create, virtio_console_create
<1>3. /\ ring = [q \in Queue |-> BlankRing] /\ drv = IdleDriver /\ vqs = [q \in Queue |-> ResetQueue]
      /\ packets = << >> /\ input = buffer_init /\ owed = << >>
  BY <1>2 DEF FreshDevice
<1>4. \A q \in Queue : Used(ring[q], drv.last_used[q]) = 0
  <2>1. \A q \in Queue : ring[q] = BlankRing /\ drv.last_used[q] = 0
    BY <1>3 DEF IdleDriver
  <2> QED
    BY <2>1, BlankIsOK
<1>5. /\ packets \in Seq(Packet) /\ owed \in Seq(Packet) /\ owed \in Seq(Symbol)
      /\ Len(packets) = 0 /\ Len(owed) = 0
  BY <1>3
<1>6. NetOrder(ring["rx"], drv.last_used["rx"], packets, owed)
  BY <1>4, <1>5, InQueue DEF NetOrder
<1>7. TextOrder(ring["rx"], drv.last_used["rx"], input, owed)
  BY <1>3, <1>4, InQueue, TextEmpty
<1>8. Data
  BY <1>3, <1>5, <1>6, <1>7, EmptyInput DEF Data
<1>9. Announced
  BY <1>4 DEF Announced
<1>10. vqs["rx"].enabled = FALSE
  BY <1>3, InQueue DEF ResetQueue
<1>11. Served
  BY <1>10 DEF Served, virtq_has_work
<1> QED
  BY <1>1, <1>8, <1>9, <1>11 DEF StreamInv

\* Steps that leave the rings, the backlog and the input alone.
LEMMA DataKept ==
  ASSUME Data, UNCHANGED <<kind, packets, input, owed, ring>>, drv'.last_used = drv.last_used
  PROVE  Data'
BY DEF Data

LEMMA TxDoneKeeps ==
  ASSUME StreamInv, TxDone
  PROVE  StreamInv'
<1>1. /\ phase = "tx" /\ phase' = "idle"
      /\ isr_status' = (isr_status \/ virtq_should_notify(vqs["tx"], ring["tx"]))
      /\ UNCHANGED <<kind, vqs, queue_sel, packets, input, ring, drv, owed>>
  BY DEF TxDone
<1>2. isr_status' \in BOOLEAN
  BY <1>1
<1>3. Queues' /\ Data'
  BY <1>1, <1>2, QueuesKept, DataKept, Types DEF StreamInv
<1>4. vqs["tx"].enabled = TRUE => isr_status' = TRUE
  BY <1>1, InQueue DEF StreamInv, Queues, virtq_should_notify
<1>5. isr_status = TRUE => isr_status' = TRUE
  BY <1>1
<1>6. Announced'
  BY <1>1, <1>4, <1>5, InQueue DEF StreamInv, Announced
<1>7. Served'
  BY <1>1 DEF StreamInv, Served, NothingFromHost
<1> QED
  BY <1>3, <1>6, <1>7 DEF StreamInv

LEMMA RxDoneKeeps ==
  ASSUME StreamInv, RxDone
  PROVE  StreamInv'
<1>1. /\ phase = "rx" /\ phase' = "idle"
      /\ ~(Waiting /\ virtq_has_work(vqs["rx"], ring["rx"]))
      /\ isr_status' = (isr_status \/ virtq_should_notify(vqs["rx"], ring["rx"]))
      /\ UNCHANGED <<kind, vqs, queue_sel, packets, input, ring, drv, owed>>
  BY DEF RxDone
<1>2. isr_status' \in BOOLEAN
  BY <1>1
<1>3. Queues' /\ Data'
  BY <1>1, <1>2, QueuesKept, DataKept, Types DEF StreamInv
<1>4. vqs["rx"].enabled = TRUE => isr_status' = TRUE
  BY <1>1, InQueue DEF StreamInv, Queues, virtq_should_notify
<1>5. isr_status = TRUE => isr_status' = TRUE
  BY <1>1
<1>6. Announced'
  BY <1>1, <1>4, <1>5, InQueue DEF StreamInv, Announced
<1>7. virtq_has_work(vqs["rx"], ring["rx"]) => NothingFromHost
  <2> SUFFICES ASSUME virtq_has_work(vqs["rx"], ring["rx"]) PROVE NothingFromHost
    OBVIOUS
  <2>1. ~Waiting
    BY <1>1
  <2>2. kind \in {"net", "console"} /\ input.count \in Nat
    BY Types, SizeIs DEF StreamInv, Data, InputOK
  <2>3. packets = << >> /\ input.count = 0
    BY <2>1, <2>2 DEF Waiting, StreamInv, Data
  <2> QED
    BY <2>3 DEF NothingFromHost
<1>8. Served'
  BY <1>1, <1>7 DEF Served, NothingFromHost
<1> QED
  BY <1>3, <1>6, <1>8 DEF StreamInv

LEMMA SelectKeeps ==
  ASSUME StreamInv, NEW q \in Queue, SelectQueue(q)
  PROVE  StreamInv'
<1>1. /\ queue_sel' = q
      /\ UNCHANGED <<kind, vqs, isr_status, phase, packets, input, ring, drv, owed>>
  BY DEF SelectQueue
<1>2. Queues' /\ Data'
  BY <1>1, QueuesKept, DataKept, Types DEF StreamInv
<1> QED
  BY <1>1, <1>2 DEF StreamInv, Announced, Served, NothingFromHost

LEMMA KickKeeps ==
  ASSUME StreamInv, NEW q \in Queue, Kick(q)
  PROVE  StreamInv'
<1>1. /\ phase = "idle" /\ phase' = q
      /\ drv' = [drv EXCEPT !.kick[q] = FALSE]
      /\ UNCHANGED <<kind, vqs, queue_sel, isr_status, packets, input, ring, owed>>
  BY DEF Kick
<1>2. /\ drv' \in [last_used : [Queue -> Index], kick : [Queue -> BOOLEAN],
                   mode : {"waiting", "reaping"}]
      /\ drv'.last_used = drv.last_used /\ drv'.mode = drv.mode
      /\ drv'.kick = [drv.kick EXCEPT ![q] = FALSE]
  BY <1>1, Types DEF StreamInv
<1>3. Queues' /\ Data'
  BY <1>1, <1>2, QueuesKept, DataKept, Types, InQueue DEF StreamInv
<1>4. Announced'
  BY <1>1, <1>2 DEF StreamInv, Announced, Queue
<1>5. Served'
  <2>1. CASE q = "rx"
    BY <1>1, <2>1 DEF Served
  <2>2. CASE q # "rx"
    <3>1. drv'.kick["rx"] = drv.kick["rx"]
      BY <1>2, <2>2, InQueue, Types DEF StreamInv
    <3> QED
      BY <1>1, <3>1 DEF StreamInv, Served, NothingFromHost
  <2> QED
    BY <2>1, <2>2
<1> QED
  BY <1>3, <1>4, <1>5 DEF StreamInv

LEMMA ReadISRKeeps ==
  ASSUME StreamInv, ReadISR
  PROVE  StreamInv'
<1>1. /\ isr_status' = FALSE /\ drv' = [drv EXCEPT !.mode = "reaping"]
      /\ UNCHANGED <<kind, vqs, queue_sel, phase, packets, input, ring, owed>>
  BY DEF ReadISR
<1>2. /\ drv' \in [last_used : [Queue -> Index], kick : [Queue -> BOOLEAN],
                   mode : {"waiting", "reaping"}]
      /\ drv'.last_used = drv.last_used /\ drv'.mode = "reaping" /\ drv'.kick = drv.kick
  BY <1>1, Types DEF StreamInv
<1>3. Queues' /\ Data'
  BY <1>1, <1>2, QueuesKept, DataKept, Types DEF StreamInv
<1> QED
  BY <1>1, <1>2, <1>3 DEF StreamInv, Announced, Served, NothingFromHost

LEMMA SetAddrKeeps ==
  ASSUME StreamInv, virtq_set_addr
  PROVE  StreamInv'
<1> DEFINE q == queue_sel
           v == [vqs[q] EXCEPT !.enabled = TRUE]
<1>1. /\ phase = "idle" /\ ~vqs[q].enabled
      /\ vqs' = [vqs EXCEPT ![q].enabled = TRUE]
      /\ UNCHANGED <<kind, queue_sel, isr_status, phase, packets, input, ring, drv, owed>>
  BY DEF virtq_set_addr
<1>2. q \in Queue /\ vqs[q] \in [enabled : BOOLEAN, last_avail_idx : Index]
      /\ vqs \in [Queue -> [enabled : BOOLEAN, last_avail_idx : Index]]
  BY Types DEF StreamInv
<1>3. /\ v \in [enabled : BOOLEAN, last_avail_idx : Index] /\ v.enabled = TRUE
      /\ v.last_avail_idx = vqs[q].last_avail_idx /\ vqs' = [vqs EXCEPT ![q] = v]
  BY <1>1, <1>2
<1> HIDE DEF v
<1>4. /\ vqs' \in [Queue -> [enabled : BOOLEAN, last_avail_idx : Index]]
      /\ \A p \in Queue : /\ vqs'[p].last_avail_idx = vqs[p].last_avail_idx
                          /\ p # q => vqs'[p] = vqs[p]
      /\ vqs'[q].enabled = TRUE
  BY <1>2, <1>3
<1>5. ASSUME NEW p \in Queue
      PROVE  /\ QueueOK(vqs'[p].last_avail_idx, ring[p], drv.last_used[p], Chains(p, kind))
             /\ ring[p].no_interrupt = FALSE
             /\ vqs'[p].enabled = FALSE => ring[p].avail_idx = ring[p].used_idx
  BY <1>4 DEF StreamInv, Queues
<1>6. Queues'
  BY <1>1, <1>4, <1>5 DEF StreamInv, Queues
<1>7. Data'
  BY <1>1, DataKept DEF StreamInv
<1>8. Announced'
  BY <1>1, <1>4 DEF StreamInv, Announced
<1>9. Served'
  <2>1. CASE q = "rx"
    <3>1. ring["rx"].avail_idx = ring["rx"].used_idx /\ vqs["rx"].last_avail_idx = ring["rx"].used_idx
      BY <1>1, <1>2, <2>1, InQueue, Types DEF StreamInv, Queues
    <3>2. ~ virtq_has_work(vqs'["rx"], ring["rx"])
      BY <1>4, <3>1, InQueue DEF virtq_has_work
    <3> QED
      BY <1>1, <3>2 DEF Served
  <2>2. CASE q # "rx"
    <3>1. vqs'["rx"] = vqs["rx"]
      BY <1>4, <2>2, InQueue
    <3> QED
      BY <1>1, <3>1 DEF StreamInv, Served, NothingFromHost
  <2> QED
    BY <2>1, <2>2
<1> QED
  BY <1>6, <1>7, <1>8, <1>9 DEF StreamInv

\* Reset puts the queues back to where they were; the network device's
\* backlog stays.
LEMMA ResetKeeps ==
  ASSUME StreamInv, Reset
  PROVE  StreamInv'
<1>1. /\ vqs' = [q \in Queue |-> ResetQueue] /\ isr_status' = FALSE
      /\ ring' = [q \in Queue |-> BlankRing] /\ drv' = IdleDriver
      /\ UNCHANGED <<kind, queue_sel, phase, packets>>
      /\ net_reset \/ console_reset
  BY DEF Reset
<1>2. kind \in {"net", "console"} /\ queue_sel \in Queue /\ phase \in {"idle", "rx", "tx"}
  BY Types DEF StreamInv
<1>3. /\ vqs' \in [Queue -> [enabled : BOOLEAN, last_avail_idx : Index]]
      /\ \A q \in Queue : vqs'[q].last_avail_idx = 0 /\ vqs'[q].enabled = FALSE
  BY <1>1, IndexIs DEF ResetQueue
<1>4. /\ drv' \in [last_used : [Queue -> Index], kick : [Queue -> BOOLEAN],
                   mode : {"waiting", "reaping"}]
      /\ \A q \in Queue : drv'.last_used[q] = 0
  BY <1>1, IndexIs DEF IdleDriver
<1>5. ring' = [q \in Queue |-> ring'[q]] /\ \A q \in Queue : ring'[q] = BlankRing
  BY <1>1
<1>6. ASSUME NEW q \in Queue
      PROVE  /\ QueueOK(vqs'[q].last_avail_idx, ring'[q], drv'.last_used[q], Chains(q, kind))
             /\ ring'[q].no_interrupt = FALSE
             /\ ring'[q].avail_idx = ring'[q].used_idx
             /\ Used(ring'[q], drv'.last_used[q]) = 0
  BY <1>3, <1>4, <1>5, BlankIsOK
<1>7. Queues'
  BY <1>1, <1>2, <1>3, <1>4, <1>5, <1>6 DEF Queues
<1>8. Data'
  <2>1. Used(ring'["rx"], drv'.last_used["rx"]) = 0
    BY <1>6, InQueue
  <2>2. CASE net_reset
    <3>1. kind = "net" /\ owed' = packets /\ input' = input /\ packets' = packets
      BY <1>1, <2>2 DEF net_reset
    <3>2. InputOK(input) /\ input.count = 0 /\ packets \in Seq(Packet)
      BY <3>1 DEF StreamInv, Data
    <3>3. Len(packets) \in Nat
      BY <3>2, LenProperties
    <3>4. NetOrder(ring'["rx"], drv'.last_used["rx"], packets, packets)
      BY <2>1, <3>3 DEF NetOrder
    <3> QED
      BY <1>1, <3>1, <3>2, <3>4 DEF Data
  <2>3. CASE console_reset
    <3>1. kind = "console" /\ owed' = << >> /\ input' = buffer_init /\ packets' = packets
      BY <1>1, <2>3 DEF console_reset
    <3>2. packets = << >> /\ packets \in Seq(Packet) /\ << >> \in Seq(Symbol)
      BY <3>1 DEF StreamInv, Data
    <3>3. TextOrder(ring'["rx"], drv'.last_used["rx"], buffer_init, << >>)
      BY <2>1, TextEmpty
    <3> QED
      BY <1>1, <3>1, <3>2, <3>3, EmptyInput DEF Data
  <2> QED
    BY <1>1, <2>2, <2>3
<1>9. Announced'
  <2>1. \A q \in Queue : Used(ring'[q], drv'.last_used[q]) = 0
    BY <1>6
  <2> QED
    BY <2>1 DEF Announced
<1>10. ~ virtq_has_work(vqs'["rx"], ring'["rx"])
  BY <1>3, InQueue DEF virtq_has_work
<1>11. Served'
  BY <1>10 DEF Served
<1> QED
  BY <1>7, <1>8, <1>9, <1>11 DEF StreamInv

\* What happens on the transmit queue does not show on the receive queue.
LEMMA SameRing ==
  ASSUME NEW m, NEW l
  PROVE  SameView(m, l, m, l)
BY DEF SameView

LEMMA TxLoopKeeps ==
  ASSUME StreamInv, TxLoop
  PROVE  StreamInv'
<1>1. /\ Queues' /\ ring'["rx"] = ring["rx"] /\ vqs'["rx"] = vqs["rx"]
      /\ ring["tx"].chain[virtq_pop_head(vqs["tx"], ring["tx"])] \in TxChains
      /\ vqs["tx"].enabled /\ vqs'["tx"].enabled
  BY TxKeeps DEF StreamInv
<1> DEFINE frame == frame_of(ring["tx"].chain[virtq_pop_head(vqs["tx"], ring["tx"])])
           p == [from |-> "guest", data |-> frame]
           m == ring["rx"]
           l == drv.last_used["rx"]
<1>2. frame \in Seq(Symbol)
  BY <1>1, FrameType
<1>3. /\ phase = "tx" /\ UNCHANGED <<kind, isr_status, phase, input, drv>>
      /\ \/ UNCHANGED <<packets, owed>>
         \/ kind = "net" /\ packets' = Append(packets, p) /\ owed' = Append(owed, p)
  BY DEF TxLoop, net_process_tx, console_process_tx, transmit
<1> HIDE DEF frame
<1>4. p \in Packet
  BY <1>2 DEF Packet
<1> HIDE DEF p
<1>5. Data' /\ (NothingFromHost => NothingFromHost')
  <2>1. CASE UNCHANGED <<packets, owed>>
    BY <1>1, <1>3, <2>1 DEF StreamInv, Data, NothingFromHost
  <2>2. CASE kind = "net" /\ packets' = Append(packets, p) /\ owed' = Append(owed, p)
    <3>1. /\ packets \in Seq(Packet) /\ owed \in Seq(Packet) /\ NetOrder(m, l, packets, owed)
          /\ Used(m, l) \in Nat /\ InputOK(input) /\ input.count = 0
      BY <2>2, Types, InQueue DEF StreamInv, Data
    <3> HIDE DEF m, l
    <3>2. /\ NetOrder(m, l, Append(packets, p), Append(owed, p))
          /\ Append(packets, p) \in Seq(Packet) /\ Append(owed, p) \in Seq(Packet)
      BY <1>4, <3>1, NetAppend
    <3>3. Data'
      BY <1>1, <1>3, <2>2, <3>1, <3>2 DEF Data, m, l
    <3>4. /\ DOMAIN packets = 1 .. Len(packets) /\ DOMAIN packets' = 1 .. Len(packets) + 1
          /\ packets'[Len(packets) + 1] = p
          /\ \A k \in 1 .. Len(packets) : packets'[k] = packets[k]
      BY <1>4, <2>2, <3>1, <3>2, AppendProperties, LenProperties
    <3>5. ASSUME NothingFromHost, NEW k \in DOMAIN packets' PROVE packets'[k].from = "guest"
      <4>1. CASE k = Len(packets) + 1
        BY <3>4, <4>1 DEF p
      <4>2. CASE k # Len(packets) + 1
        <5>1. k \in DOMAIN packets
          BY <3>1, <3>4, <4>2, LenProperties
        <5> QED
          BY <3>4, <3>5, <5>1 DEF NothingFromHost
      <4> QED
        BY <4>1, <4>2
    <3> QED
      BY <1>3, <3>3, <3>5 DEF NothingFromHost
  <2> QED
    BY <1>3, <2>1, <2>2
<1>6. Announced'
  BY <1>1, <1>3, InQueue DEF StreamInv, Announced, Queues
<1>7. Served'
  BY <1>1, <1>3, <1>5 DEF StreamInv, Served
<1> QED
  BY <1>1, <1>5, <1>6, <1>7 DEF StreamInv

\* One receive buffer is filled.
LEMMA RxLoopKeeps ==
  ASSUME StreamInv, RxLoop
  PROVE  StreamInv'
<1> DEFINE m == ring["rx"]
           l == drv.last_used["rx"]
           la == vqs["rx"].last_avail_idx
           u == Used(m, l)
           room == RxBuffer.len
<1>1. /\ phase = "rx" /\ Waiting /\ virtq_has_work(vqs["rx"], ring["rx"])
      /\ UNCHANGED <<kind, queue_sel, isr_status, phase, drv, owed>>
      /\ net_process_rx \/ console_process_rx
  BY DEF RxLoop
<1>2. /\ Queues /\ QueueOK(la, m, l, Chains("rx", kind)) /\ la # m.avail_idx /\ u \in Nat
      /\ InputOK(input) /\ packets \in Seq(Packet) /\ HDR \in Nat
  BY <1>1, Types, InQueue, StreamConstants DEF StreamInv, Data, virtq_has_work
<1>3. RxBuffer = BufferAt(m, l, u + 1) /\ RxBuffer \in Buffer(kind)
  <2> HIDE DEF m, l, la
  <2>1. /\ u + 1 <= Outstanding(m, l) /\ m.avail_ring[ring_slot(la)] = HeadAt(m, l, u + 1)
    BY <1>2, NextChain
  <2>2. u + 1 \in 1 .. Outstanding(m, l)
    <3>1. Outstanding(m, l) \in Nat
      BY <1>2, CountsAre
    <3> QED
      BY <1>2, <2>1, <3>1
  <2>3. RxBuffer = BufferAt(m, l, u + 1)
    BY <2>1 DEF RxBuffer, BufferAt, virtq_pop_head, m, la
  <2> QED
    BY <1>2, <2>2, <2>3, BufferIs
<1>4. room \in Nat /\ (kind = "net" => room >= HDR) /\ room = BufferAt(m, l, u + 1).len
  BY <1>3 DEF Buffer
<1> DEFINE Fills(content, n) ==
             /\ Queues' /\ Given(m, ring'["rx"], l, content, n)
             /\ vqs'["tx"] = vqs["tx"] /\ ring'["tx"] = ring["tx"]
             /\ vqs["rx"].enabled /\ vqs'["rx"].enabled
<1>5. ASSUME NEW content \in Seq(Symbol), NEW n \in Nat, FillBuffer(content, n)
      PROVE  Fills(content, n)
  BY <1>1, <1>2, <1>5, FillKeeps
<1> HIDE DEF room
<1>6. CASE net_process_rx
  <2> DEFINE pkt == Head(packets).data
             n == copy_len(Len(pkt), room)
             content == Prefix(pkt, n)
  <2>1. /\ kind = "net" /\ FillBuffer(content, HDR + n)
        /\ packets' = Tail(packets) /\ input' = input
    BY <1>6 DEF net_process_rx, room
  <2>2. /\ packets # << >> /\ owed \in Seq(Packet) /\ NetOrder(m, l, packets, owed) /\ input.count = 0
        /\ room >= HDR
    BY <1>1, <1>4, <2>1 DEF Waiting, StreamInv, Data
  <2>3. packets[1] \in Packet /\ Head(packets) = packets[1]
    BY <1>2, <2>2, EmptySeq, 1 \in 1 .. Len(packets), ElementOfSeq
  <2>4. pkt \in Seq(Symbol) /\ pkt = packets[1].data /\ Len(pkt) \in Nat
    BY <2>3, LenProperties DEF Packet
  <2> HIDE DEF pkt
  <2>5. n \in Nat /\ n = (IF HDR + Len(pkt) > room THEN room - HDR ELSE Len(pkt))
    BY <1>2, <1>4, <2>2, <2>4 DEF copy_len
  <2> HIDE DEF n
  <2>6. content = Prefix(pkt, room - HDR)
    <3>1. Min({n, Len(pkt)}) = Min({room - HDR, Len(pkt)})
      <4> DEFINE k == room - HDR
                 x == Len(pkt)
      <4>1. k \in Int /\ x \in Int /\ n \in Int /\ n = IF x > k THEN k ELSE x
        <5>1. HDR \in Nat /\ room \in Nat /\ x \in Nat /\ n = IF HDR + x > room THEN room - HDR ELSE x
          BY <1>2, <1>4, <2>4, <2>5
        <5> HIDE DEF x
        <5> QED
          BY <5>1
      <4> HIDE DEF k, x
      <4>2. Min({n, x}) = (IF n <= x THEN n ELSE x) /\ Min({k, x}) = (IF k <= x THEN k ELSE x)
        BY <4>1, Smallest
      <4> QED
        BY <4>1, <4>2 DEF k, x
    <3> QED
      BY <3>1 DEF Prefix
  <2>7. content \in Seq(Symbol) /\ HDR + n \in Nat
    <3>1. content \in Seq(Symbol)
      BY <2>4, <2>5, PrefixIs
    <3> QED
      BY <1>2, <2>5, <3>1
  <2> HIDE DEF content
  <2>8. Fills(content, HDR + n)
    BY <1>5, <2>1, <2>7
  <2>9. content = Prefix(packets[1].data, room - HDR)
    BY <2>4, <2>6
  <2>10. Given(m, ring'["rx"], l, content, HDR + n)
    BY <2>8
  <2> HIDE DEF m, l, u
  <2>11. NetOrder(ring'["rx"], l, Tail(packets), owed) /\ Tail(packets) \in Seq(Packet)
    BY <1>2, <1>4, <2>2, <2>9, <2>10, NetGive DEF u
  <2>12. Data'
    BY <1>1, <1>2, <2>1, <2>2, <2>11 DEF Data, l
  <2> QED
    BY <1>1, <2>8, <2>12, InQueue DEF StreamInv, Announced, Served, Queues
<1>7. CASE console_process_rx
  <2> DEFINE n == Min({room, input.count})
             content == buffer_peek(input, n)
  <2>1. /\ kind = "console" /\ FillBuffer(content, n)
        /\ input' = buffer_get(input, n) /\ packets' = packets
    BY <1>7 DEF console_process_rx, room
  <2>2. packets = << >> /\ owed \in Seq(Symbol) /\ TextOrder(m, l, input, owed)
    BY <2>1 DEF StreamInv, Data
  <2>3. n \in Nat /\ n \in 0 .. input.count
    <3>1. input.count \in Nat
      BY <1>2, SizeIs DEF InputOK
    <3> QED
      BY <1>4, <3>1, Smallest
  <2> HIDE DEF n
  <2>4. content \in Seq(Symbol) /\ InputOK(buffer_get(input, n))
    BY <1>2, <2>3, GetIs
  <2>5. Fills(content, n)
    BY <1>5, <2>1, <2>3, <2>4
  <2>6. Given(m, ring'["rx"], l, content, n) /\ QueueOK(la, m, l, Chains("rx", "console"))
    BY <1>2, <2>1, <2>5
  <2> HIDE DEF m, l, la
  <2>7. TextOrder(ring'["rx"], l, buffer_get(input, n), owed)
    BY <1>2, <2>2, <2>3, <2>6, TextGive
  <2>8. Data'
    BY <1>1, <1>2, <2>1, <2>2, <2>4, <2>7 DEF Data, l
  <2> QED
    BY <1>1, <2>5, <2>8, InQueue DEF StreamInv, Announced, Served, Queues
<1> QED
  BY <1>1, <1>6, <1>7

\* The host has something for the guest.
LEMMA ReceiveKeeps ==
  ASSUME StreamInv, NEW data \in Frames, virtio_net_receive(data)
  PROVE  StreamInv'
<1> DEFINE p == [from |-> "host", data |-> Prefix(data, NET_PACKET_MAX_SIZE)]
           m == ring["rx"]
           l == drv.last_used["rx"]
<1>1. /\ kind = "net" /\ phase = "idle" /\ phase' = "rx"
      /\ packets' = Append(packets, p) /\ owed' = Append(owed, p)
      /\ UNCHANGED <<kind, vqs, queue_sel, isr_status, input, ring, drv>>
  BY DEF virtio_net_receive
<1>2. Prefix(data, NET_PACKET_MAX_SIZE) \in Seq(Symbol)
  BY PrefixIs, StreamConstants
<1>3. p \in Packet
  BY <1>2 DEF Packet
<1> HIDE DEF p
<1>4. /\ packets \in Seq(Packet) /\ owed \in Seq(Packet) /\ NetOrder(m, l, packets, owed)
      /\ Used(m, l) \in Nat /\ InputOK(input) /\ input.count = 0
  BY <1>1, Types, InQueue DEF StreamInv, Data
<1> HIDE DEF m, l
<1>5. /\ NetOrder(m, l, Append(packets, p), Append(owed, p))
      /\ Append(packets, p) \in Seq(Packet) /\ Append(owed, p) \in Seq(Packet)
  BY <1>3, <1>4, NetAppend
<1>6. Data'
  BY <1>1, <1>4, <1>5 DEF Data, m, l
<1>7. Queues'
  BY <1>1, QueuesKept, Types DEF StreamInv
<1>8. Announced'
  BY <1>1 DEF StreamInv, Announced, Queue
<1>9. Served'
  BY <1>1 DEF Served
<1> QED
  BY <1>6, <1>7, <1>8, <1>9 DEF StreamInv

LEMMA WriteKeeps ==
  ASSUME StreamInv, NEW data \in Frames, virtio_console_write(data)
  PROVE  StreamInv'
<1> DEFINE taken == Prefix(data, CONSOLE_BUFFER_SIZE - input.count)
           m == ring["rx"]
           l == drv.last_used["rx"]
           la == vqs["rx"].last_avail_idx
<1>1. /\ kind = "console" /\ phase = "idle" /\ phase' = "rx"
      /\ input' = buffer_write(input, data) /\ owed' = owed \o taken
      /\ UNCHANGED <<kind, vqs, queue_sel, isr_status, packets, ring, drv>>
  BY DEF virtio_console_write
<1>2. /\ packets = << >> /\ owed \in Seq(Symbol) /\ TextOrder(m, l, input, owed)
      /\ QueueOK(la, m, l, Chains("rx", "console")) /\ InputOK(input) /\ data \in Seq(Symbol)
  BY <1>1, Types, InQueue, StreamConstants DEF StreamInv, Data
<1>3. taken = Prefix(data, CONSOLE_BUFFER_SIZE - input.count)
  OBVIOUS
<1> HIDE DEF m, l, la, taken
<1>4. TextOrder(m, l, buffer_write(input, data), owed \o taken) /\ owed \o taken \in Seq(Symbol)
  BY <1>2, <1>3, TextWrite
<1>5. InputOK(buffer_write(input, data)) /\ packets \in Seq(Packet)
  BY <1>2, WriteIs DEF StreamInv, Data
<1>6. Data'
  BY <1>1, <1>2, <1>4, <1>5 DEF Data, m, l
<1>7. Queues'
  BY <1>1, QueuesKept, Types DEF StreamInv
<1>8. Announced'
  BY <1>1 DEF StreamInv, Announced, Queue
<1>9. Served'
  BY <1>1 DEF Served
<1> QED
  BY <1>6, <1>7, <1>8, <1>9 DEF StreamInv

\* The driver adds a chain to one of the queues.
LEMMA DriverKeeps ==
  ASSUME StreamInv, NEW q \in Queue, NEW chain \in Chains(q, kind), Publish(q, chain)
  PROVE  StreamInv'
<1>1. /\ Queues' /\ Extended(ring[q], ring'[q], drv.last_used[q])
      /\ \A p \in Queue : p # q => ring'[p] = ring[p]
      /\ drv'.last_used = drv.last_used /\ drv'.mode = drv.mode
      /\ drv'.kick = [drv.kick EXCEPT ![q] = TRUE]
  BY PublishStep DEF StreamInv
<1>2. UNCHANGED <<kind, vqs, queue_sel, isr_status, phase, packets, input, owed>>
  BY DEF Publish
<1>3. ASSUME NEW p \in Queue
      PROVE  SameView(ring[p], drv.last_used[p], ring'[p], drv'.last_used[p])
  <2>1. CASE p = q
    <3> DEFINE m == ring[q]
               m2 == ring'[q]
               l == drv.last_used[q]
    <3>1. Used(m, l) \in Nat /\ Outstanding(m, l) \in Nat /\ Used(m, l) <= Outstanding(m, l)
      BY CountsAre DEF StreamInv, Queues
    <3>2. Extended(m, m2, l)
      BY <1>1
    <3> HIDE DEF m, m2, l
    <3>3. Used(m2, l) = Used(m, l) /\ m2.used_ring = m.used_ring
      BY <3>2 DEF Extended
    <3>4. ASSUME NEW k \in 1 .. Used(m, l) PROVE BufferAt(m2, l, k) = BufferAt(m, l, k)
      <4>1. k \in 1 .. Outstanding(m, l)
        BY <3>1
      <4> QED
        BY <3>2, <4>1 DEF Extended, BufferAt
    <3>5. SameView(m, l, m2, l)
      BY <3>3, <3>4 DEF SameView
    <3> QED
      BY <1>1, <2>1, <3>5 DEF m, m2, l
  <2>2. CASE p # q
    BY <1>1, <2>2, SameRing
  <2> QED
    BY <2>1, <2>2
<1>4. Data'
  <2> DEFINE m == ring["rx"]
             m2 == ring'["rx"]
             l == drv.last_used["rx"]
             l2 == drv'.last_used["rx"]
  <2>1. SameView(m, l, m2, l2)
    BY <1>3, InQueue
  <2> HIDE DEF m, m2, l, l2
  <2>2. /\ NetOrder(m, l, packets, owed) => NetOrder(m2, l2, packets, owed)
        /\ TextOrder(m, l, input, owed) => TextOrder(m2, l2, input, owed)
    BY <2>1, ViewKeeps
  <2> QED
    BY <1>2, <2>2 DEF StreamInv, Data, m, m2, l, l2
<1>5. \A p \in Queue : Used(ring'[p], drv'.last_used[p]) = Used(ring[p], drv.last_used[p])
  BY <1>3 DEF SameView
<1>6. Announced'
  BY <1>1, <1>2, <1>5 DEF StreamInv, Announced
<1>7. Served'
  <2>1. CASE q = "rx"
    <3>1. drv'.kick["rx"] = TRUE
      BY <1>1, <2>1, InQueue, Types DEF StreamInv
    <3> QED
      BY <3>1 DEF Served
  <2>2. CASE q # "rx"
    <3>1. drv'.kick["rx"] = drv.kick["rx"] /\ ring'["rx"] = ring["rx"]
      BY <1>1, <2>2, InQueue, Types DEF StreamInv
    <3> QED
      BY <1>2, <3>1 DEF StreamInv, Served, NothingFromHost
  <2> QED
    BY <2>1, <2>2
<1> QED
  BY <1>1, <1>4, <1>6, <1>7 DEF StreamInv

LEMMA PostKeeps ==
  ASSUME StreamInv, NEW size \in RxSizes[kind], PostBuffer(size)
  PROVE  StreamInv'
<1> DEFINE b == [len |-> size, data |-> << >>]
           chain == << b >>
<1>1. size \in Nat /\ (kind = "net" => size >= HDR)
  <2>1. kind \in {"net", "console"}
    BY Types DEF StreamInv
  <2> QED
    BY <2>1, StreamConstants
<1>2. b \in Buffer(kind)
  BY <1>1 DEF Buffer
<1> HIDE DEF b
<1>3. chain \in Chains("rx", kind)
  BY <1>2 DEF Chains
<1>4. Publish("rx", chain)
  BY DEF PostBuffer, b
<1> HIDE DEF chain
<1> QED
  BY <1>3, <1>4, InQueue, DriverKeeps

LEMMA SendKeeps ==
  ASSUME StreamInv, NEW chain \in TxChains, Send(chain)
  PROVE  StreamInv'
<1>1. chain \in Chains("tx", kind) /\ Publish("tx", chain)
  BY DEF Chains, Send
<1> QED
  BY <1>1, InQueue, DriverKeeps

\* The driver collects.
LEMMA ReapKeeps ==
  ASSUME StreamInv, Reap
  PROVE  StreamInv'
<1> DEFINE m == ring["rx"]
           l == drv.last_used["rx"]
           la == vqs["rx"].last_avail_idx
           m2 == ring'["rx"]
           l2 == drv'.last_used["rx"]
           used == UsedEntries("rx")
<1>1. /\ Queues' /\ vqs' = vqs /\ drv'.kick = drv.kick
      /\ \A q \in Queue : /\ Used(ring'[q], drv'.last_used[q]) = 0
                          /\ ring'[q].avail_idx = ring[q].avail_idx
  BY ReapStep DEF StreamInv
<1>2. /\ owed' = SubSeq(owed, Received + 1, Len(owed))
      /\ UNCHANGED <<kind, vqs, queue_sel, isr_status, phase, packets, input>>
  BY DEF Reap
<1>3. /\ QueueOK(la, m, l, Chains("rx", kind)) /\ Used(m, l) \in Nat /\ Used(m2, l2) = 0
      /\ kind \in {"net", "console"}
      /\ InputOK(input) /\ packets \in Seq(Packet)
  BY <1>1, Types, InQueue DEF StreamInv, Data
<1>4. used = [k \in 1 .. Used(m, l) |-> m.used_ring[Slot(l, k)]]
  BY EntriesAre, InQueue DEF StreamInv
<1>5. Data'
  <2> HIDE DEF m, l, la, m2, l2, used
  <2>1. CASE kind = "net"
    <3>1. owed \in Seq(Packet) /\ NetOrder(m, l, packets, owed) /\ input.count = 0
      BY <2>1 DEF StreamInv, Data, m, l
    <3>2. Received = Used(m, l)
      <4>1. Len(used) = Used(m, l)
        BY <1>3, <1>4
      <4> QED
        BY <2>1, <4>1 DEF Received, used
    <3>3. NetOrder(m2, l2, packets, packets) /\ SubSeq(owed, Used(m, l) + 1, Len(owed)) = packets
      BY <1>3, <3>1, NetReap
    <3> QED
      BY <1>2, <1>3, <2>1, <3>1, <3>2, <3>3 DEF Data, m2, l2
  <2>2. CASE kind = "console"
    <3>1. /\ owed \in Seq(Symbol) /\ TextOrder(m, l, input, owed) /\ packets = << >>
          /\ QueueOK(la, m, l, Chains("rx", "console"))
      BY <1>3, <2>2 DEF StreamInv, Data, m, l
    <3>2. Received = Len(FlattenSeq(Datas(m, l)))
      <4>1. FoldLeft(LAMBDA n, u : n + u.len, 0, used) = Len(FlattenSeq(Datas(m, l)))
        BY <1>4, <3>1, TextCount DEF TextOrder
      <4> QED
        BY <2>2, <4>1 DEF Received, used
    <3> DEFINE r == Received
    <3>3. r = Len(FlattenSeq(Datas(m, l))) /\ owed' = SubSeq(owed, r + 1, Len(owed))
      BY <1>2, <3>2
    <3> HIDE DEF r
    <3>4. TextOrder(m2, l2, input, owed') /\ owed' \in Seq(Symbol)
      BY <1>3, <3>1, <3>3, TextReap
    <3> QED
      BY <1>2, <1>3, <2>2, <3>1, <3>4 DEF Data, m2, l2
  <2> QED
    BY <1>3, <2>1, <2>2
<1>6. Announced'
  <2>1. \A q \in Queue : ~(Used(ring'[q], drv'.last_used[q]) > 0)
    BY <1>1
  <2> QED
    BY <2>1 DEF Announced
<1>7. Served'
  <2>1. virtq_has_work(vqs["rx"], ring'["rx"]) => virtq_has_work(vqs["rx"], ring["rx"])
    BY <1>1, InQueue DEF virtq_has_work
  <2> QED
    BY <1>1, <1>2, <2>1 DEF StreamInv, Served, NothingFromHost
<1> QED
  BY <1>1, <1>5, <1>6, <1>7 DEF StreamInv

LEMMA InvKept ==
  ASSUME StreamInv, [Next]_vars
  PROVE  StreamInv'
<1>1. CASE TxLoop
  BY <1>1, TxLoopKeeps
<1>2. CASE TxDone
  BY <1>2, TxDoneKeeps
<1>3. CASE RxLoop
  BY <1>3, RxLoopKeeps
<1>4. CASE RxDone
  BY <1>4, RxDoneKeeps
<1>5. CASE \E data \in Frames : virtio_net_receive(data)
  BY <1>5, ReceiveKeeps
<1>6. CASE \E data \in Frames : virtio_console_write(data)
  BY <1>6, WriteKeeps
<1>7. CASE Reset
  BY <1>7, ResetKeeps
<1>8. CASE \E q \in Queue : SelectQueue(q)
  BY <1>8, SelectKeeps
<1>9. CASE virtq_set_addr
  BY <1>9, SetAddrKeeps
<1>10. CASE \E q \in Queue : Kick(q)
  BY <1>10, KickKeeps
<1>11. CASE \E size \in RxSizes[kind] : PostBuffer(size)
  BY <1>11, PostKeeps
<1>12. CASE \E chain \in TxChains : Send(chain)
  BY <1>12, SendKeeps
<1>13. CASE ReadISR
  BY <1>13, ReadISRKeeps
<1>14. CASE Reap
  BY <1>14, ReapKeeps
<1>15. CASE UNCHANGED vars
  BY <1>15 DEF vars, StreamInv, Queues, Data, Announced, Served, NothingFromHost
<1> QED
  BY <1>1, <1>2, <1>3, <1>4, <1>5, <1>6, <1>7, <1>8, <1>9, <1>10, <1>11, <1>12, <1>13, <1>14, <1>15
     DEF Next, queue_notify, Collect

-----------------------------------------------------------------------------
(* The theorems. *)

\* The invariant of the two devices with their driver: the rings are well
\* formed, the backlog and the used buffers make up what the guest is owed,
\* used chains are announced, and nothing from the host is left lying.
THEOREM StreamInvariant == Spec => []StreamInv
<1>1. StreamInv /\ [Next]_vars => StreamInv'
  BY InvKept
<1> QED
  BY InvStarts, <1>1, PTL DEF Spec

\* No interrupt of the devices is lost, whatever the queue size, the buffers
\* and the traffic: one ISR bit serves both queues (process_rx, queue_notify,
\* virtio_pci_read).
THEOREM InterruptsReachTheDriver == Spec => []InterruptNotLost
<1>1. StreamInv => InterruptNotLost
  <2> SUFFICES ASSUME StreamInv, phase = "idle", drv.mode = "waiting",
                      NEW q \in Queue, Uncollected(q) > 0
               PROVE  isr_status
    BY DEF InterruptNotLost
  <2>1. Used(ring[q], drv.last_used[q]) > 0 /\ phase # q
    BY InQueue DEF Uncollected, Used
  <2> QED
    BY <2>1 DEF StreamInv, Announced
<1> QED
  BY <1>1, StreamInvariant, PTL

\* Nothing that the host sent waits at a resting device while there is a
\* receive buffer for it (virtio_net_receive, virtio_console_write, process_rx).
THEOREM HostDataIsServed == Spec => []HostDataDoesNotWait
<1>1. StreamInv => HostDataDoesNotWait
  <2> SUFFICES ASSUME StreamInv, phase = "idle", ~drv.kick["rx"],
                      virtq_has_work(vqs["rx"], ring["rx"])
               PROVE  NothingFromHost
    BY DEF HostDataDoesNotWait, NothingFromHost
  <2>1. drv.kick["rx"] = FALSE
    BY InQueue, Types DEF StreamInv
  <2> QED
    BY <2>1 DEF StreamInv, Served
<1> QED
  BY <1>1, StreamInvariant, PTL

LEMMA DeliveredIs ==
  ASSUME StreamInv
  PROVE  LET m == ring["rx"]
             l == drv.last_used["rx"]
         IN  /\ Delivered = [k \in 1 .. Used(m, l) |-> BufferAt(m, l, k)]
             /\ Used(m, l) \in Nat
<1> DEFINE m == ring["rx"]
           l == drv.last_used["rx"]
<1>1. /\ UsedEntries("rx") = [k \in 1 .. Used(m, l) |-> m.used_ring[Slot(l, k)]]
      /\ \A k \in 1 .. Used(m, l) : UsedEntries("rx")[k].id = HeadAt(m, l, k)
      /\ Used(m, l) \in Nat
  BY EntriesAre, InQueue DEF StreamInv
<1>2. DOMAIN UsedEntries("rx") = 1 .. Used(m, l)
  BY <1>1
<1> QED
  BY <1>1, <1>2 DEF Delivered, BufferAt

\* Frames reach the guest in order, none lost, doubled or mixed up, for every
\* queue size, every backlog and every sequence of buffer sizes
\* (net process_rx, loopback_transmit, net_reset).
THEOREM FramesKeepTheirOrder == Spec => []FramesInOrder
<1>1. StreamInv => FramesInOrder
  <2> SUFFICES ASSUME StreamInv, kind = "net"
               PROVE  /\ Len(Delivered) + Len(packets) = Len(owed)
                      /\ \A k \in DOMAIN Delivered :
                           Delivered[k].data = Prefix(owed[k].data, Delivered[k].len - HDR)
                      /\ packets = SubSeq(owed, Len(Delivered) + 1, Len(owed))
    BY DEF FramesInOrder
  <2> DEFINE m == ring["rx"]
             l == drv.last_used["rx"]
  <2>1. Delivered = [k \in 1 .. Used(m, l) |-> BufferAt(m, l, k)] /\ Used(m, l) \in Nat
    BY DeliveredIs
  <2>2. packets \in Seq(Packet) /\ owed \in Seq(Packet) /\ NetOrder(m, l, packets, owed)
    BY DEF StreamInv, Data
  <2> HIDE DEF m, l
  <2>3. Len(Delivered) = Used(m, l) /\ DOMAIN Delivered = 1 .. Used(m, l)
    BY <2>1
  <2>4. packets = SubSeq(owed, Used(m, l) + 1, Len(owed))
    <3>1. PICK m2, l2 : Used(m2, l2) = 0
      BY BlankIsOK
    <3> QED
      BY <2>1, <2>2, <3>1, NetReap
  <2> QED
    BY <2>1, <2>2, <2>3, <2>4 DEF NetOrder
<1> QED
  BY <1>1, StreamInvariant, PTL

\* What buffer_write accepted is what the guest collects, in order, for every
\* size of the input buffer and of the guest's buffers (buffer_write,
\* buffer_get, console process_rx).
THEOREM InputKeepsItsOrder == Spec => []InputInOrder
<1>1. StreamInv => InputInOrder
  <2> SUFFICES ASSUME StreamInv, kind = "console"
               PROVE  FlattenSeq([k \in DOMAIN Delivered |-> Delivered[k].data])
                        \o buffer_peek(input, input.count) = owed
    BY DEF InputInOrder
  <2> DEFINE m == ring["rx"]
             l == drv.last_used["rx"]
  <2>1. Delivered = [k \in 1 .. Used(m, l) |-> BufferAt(m, l, k)]
    BY DeliveredIs
  <2>2. FlattenSeq(Datas(m, l)) \o Contents(input) = owed
    BY DEF StreamInv, Data, TextOrder
  <2> HIDE DEF m, l
  <2>3. [k \in DOMAIN Delivered |-> Delivered[k].data] = Datas(m, l)
    BY <2>1 DEF Datas
  <2> QED
    BY <2>2, <2>3 DEF Contents
<1> QED
  BY <1>1, StreamInvariant, PTL
=============================================================================
