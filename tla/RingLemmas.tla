---------------------------- MODULE RingLemmas -------------------------------
(***************************************************************************)
(* A virtqueue between a device and a driver that keep to their sides of   *)
(* it: what the operations of Virtqueue, and the driver's, do to the       *)
(* chains between the driver's index and the available index.  The proofs  *)
(* about the devices rest on these lemmas.                                 *)
(***************************************************************************)
EXTENDS Virtqueue, FiniteSetTheorems, SequenceTheorems, TLAPS

-----------------------------------------------------------------------------
(* Quotient and remainder. *)

LEMMA Division ==
  ASSUME NEW n \in Nat \ {0}, NEW x \in Nat
  PROVE  /\ x \div n \in Nat /\ x % n \in 0 .. n - 1
         /\ x = (x \div n) * n + (x % n)
OBVIOUS

\* Multiples of n are at least n apart.
LEMMA Product ==
  ASSUME NEW n \in Nat \ {0}, NEW a \in Int, NEW b \in Int, a < b
  PROVE  a * n + n <= b * n
<1>1. (b - a) * n >= n
  OBVIOUS
<1> QED
  BY <1>1

\* Quotient and remainder are the only ones.
LEMMA Remainder ==
  ASSUME NEW n \in Nat \ {0}, NEW q \in Nat, NEW r \in 0 .. n - 1
  PROVE  (q * n + r) % n = r
<1> DEFINE x == q * n + r
<1>1. x \in Nat
  OBVIOUS
<1>2. PICK d \in Nat, m \in 0 .. n - 1 : m = x % n /\ x = d * n + m
  <2> HIDE DEF x
  <2> QED
    BY <1>1, Division
<1>3. d = q
  <2>1. CASE d < q
    BY <1>2, <2>1, Product
  <2>2. CASE q < d
    BY <1>2, <2>2, Product
  <2> QED
    BY <2>1, <2>2
<1> QED
  BY <1>2, <1>3

\* Numbers less than n apart have different remainders.
LEMMA Apart ==
  ASSUME NEW n \in Nat \ {0}, NEW x \in Nat, NEW y \in Nat, x < y, y < x + n
  PROVE  x % n # y % n
<1>1. PICK d \in Nat, m \in 0 .. n - 1 : m = x % n /\ x = d * n + m
  BY Division
<1>2. PICK e \in Nat, k \in 0 .. n - 1 : k = y % n /\ y = e * n + k
  BY Division
<1>3. SUFFICES ASSUME m = k PROVE FALSE
  BY <1>1, <1>2
<1>4. CASE d < e
  BY <1>1, <1>2, <1>3, <1>4, Product
<1>5. CASE e < d
  BY <1>1, <1>2, <1>3, <1>5, Product
<1> QED
  BY <1>1, <1>2, <1>3, <1>4, <1>5

\* A whole number of turns changes no remainder.
LEMMA Turn ==
  ASSUME NEW n \in Nat \ {0}, NEW m \in Nat, m % n = 0, NEW x \in Nat
  PROVE  (x + m) % n = x % n
<1>1. m \div n \in Nat /\ m = (m \div n) * n + (m % n)
  BY Division
<1>2. x \div n \in Nat /\ x % n \in 0 .. n - 1 /\ x = (x \div n) * n + (x % n)
  BY Division
<1> DEFINE c == m \div n
           d == x \div n
           r == x % n
<1>3. c \in Nat /\ d \in Nat /\ r \in 0 .. n - 1 /\ m = c * n /\ x = d * n + r
  BY <1>1, <1>2
<1> HIDE DEF c, d, r
<1>4. x + m = (d + c) * n + r
  BY <1>3
<1>5. ((d + c) * n + r) % n = r
  BY <1>3, Remainder
<1> QED
  BY <1>4, <1>5 DEF r

-----------------------------------------------------------------------------
(* Indexes. *)

LEMMA IndexIs ==
  /\ \A i \in Index : i \in Nat /\ i < IDX_MODULUS
  /\ \A i \in Nat : i < IDX_MODULUS => i \in Index
  /\ 0 \in Index /\ 0 \in DescIndex
BY VirtqueueConstants DEF Index, DescIndex

LEMMA NextIs ==
  ASSUME NEW i \in Index
  PROVE  /\ next_idx(i) = IF i + 1 = IDX_MODULUS THEN 0 ELSE i + 1
         /\ next_idx(i) \in Index
BY VirtqueueConstants DEF Index, next_idx

LEMMA DistanceIs ==
  ASSUME NEW i \in Index, NEW j \in Index
  PROVE  /\ Distance(i, j) = IF i >= j THEN i - j ELSE i - j + IDX_MODULUS
         /\ Distance(i, j) \in Nat /\ Distance(i, j) < IDX_MODULUS
<1>0. i \in Nat /\ j \in Nat /\ i < IDX_MODULUS /\ j < IDX_MODULUS /\ IDX_MODULUS \in Nat \ {0}
  BY VirtqueueConstants DEF Index
<1>1. CASE i >= j
  BY <1>0, <1>1 DEF Distance
<1>2. CASE i < j
  <2>1. i - j + IDX_MODULUS \in 0 .. IDX_MODULUS - 1
    BY <1>0, <1>2
  <2>2. (i - j) % IDX_MODULUS = i - j + IDX_MODULUS
    BY <1>0, <1>2, <2>1
  <2> QED
    BY <1>0, <1>2, <2>1, <2>2 DEF Distance
<1> QED
  BY <1>0, <1>1, <1>2

LEMMA NoDistance == \A i \in Index : Distance(i, i) = 0
<1> SUFFICES ASSUME NEW i \in Index PROVE Distance(i, i) = 0
  OBVIOUS
<1>1. i \in Nat
  BY IndexIs
<1> QED
  BY <1>1, DistanceIs

-----------------------------------------------------------------------------
(* The ring between the driver's index l and the available index: chains   *)
(* 1 .. Outstanding are published and not collected, the first Used of     *)
(* them are done.  P holds the chains that the driver publishes.           *)

Ring(P) ==
    [chain : [DescIndex -> P \cup {<< >>}],
     avail_idx : Index, avail_ring : [DescIndex -> DescIndex], no_interrupt : BOOLEAN,
     used_idx : Index, used_ring : [DescIndex -> [id : DescIndex, len : Nat]]]

Outstanding(m, l) == Distance(m.avail_idx, l)
Used(m, l) == Distance(m.used_idx, l)
Slot(l, k) == ring_slot(l + k - 1)
HeadAt(m, l, k) == m.avail_ring[Slot(l, k)]

QueueOK(la, m, l, P) ==
    /\ m \in Ring(P) /\ l \in Index /\ la = m.used_idx
    /\ Used(m, l) <= Outstanding(m, l) /\ Outstanding(m, l) <= Num
    /\ \A k \in 1 .. Outstanding(m, l) : m.chain[HeadAt(m, l, k)] \in P
    /\ \A j, k \in 1 .. Outstanding(m, l) : HeadAt(m, l, j) = HeadAt(m, l, k) => j = k
    /\ \A k \in 1 .. Used(m, l) : m.used_ring[Slot(l, k)].id = HeadAt(m, l, k)

LEMMA SlotIs ==
  ASSUME NEW l \in Index, NEW k \in Nat \ {0}
  PROVE  Slot(l, k) \in DescIndex
<1>1. l + k - 1 \in Nat /\ Num \in Nat \ {0}
  BY VirtqueueConstants, IndexIs
<1>2. (l + k - 1) % Num \in 0 .. Num - 1
  BY <1>1, Division
<1> QED
  BY <1>2 DEF Slot, ring_slot, DescIndex

\* Positions of one turn have slots of their own.
LEMMA SlotsDiffer ==
  ASSUME NEW l \in Index, NEW j \in 1 .. Num, NEW k \in 1 .. Num, j # k
  PROVE  Slot(l, j) # Slot(l, k)
<1>1. l + j - 1 \in Nat /\ l + k - 1 \in Nat /\ Num \in Nat \ {0}
  BY VirtqueueConstants, IndexIs
<1> DEFINE x == l + j - 1
           y == l + k - 1
<1>2. x \in Nat /\ y \in Nat /\ ((x < y /\ y < x + Num) \/ (y < x /\ x < y + Num))
  BY <1>1, IndexIs
<1> HIDE DEF x, y
<1>3. x % Num # y % Num
  BY <1>1, <1>2, Apart
<1> QED
  BY <1>3 DEF x, y, Slot, ring_slot

\* A slot does not depend on the index that it is counted from.
LEMMA SlotFrom ==
  ASSUME NEW i \in Index, NEW l \in Index, NEW k \in Nat \ {0}
  PROVE  Slot(i, k) = Slot(l, Distance(i, l) + k)
<1> DEFINE d == Distance(i, l)
<1>1. /\ i \in Nat /\ l \in Nat /\ Num \in Nat \ {0} /\ IDX_MODULUS \in Nat
      /\ IDX_MODULUS % Num = 0
  BY VirtqueueConstants, IndexIs
<1>2. d \in Nat /\ d = IF i >= l THEN i - l ELSE i - l + IDX_MODULUS
  BY DistanceIs
<1> HIDE DEF d
<1>3. CASE i >= l
  BY <1>1, <1>2, <1>3 DEF Slot, d
<1>4. CASE i < l
  <2>1. l + (d + k) - 1 = (i + k - 1) + IDX_MODULUS /\ i + k - 1 \in Nat
    BY <1>1, <1>2, <1>4
  <2>2. ((i + k - 1) + IDX_MODULUS) % Num = (i + k - 1) % Num
    BY <1>1, <2>1, Turn
  <2> QED
    BY <2>1, <2>2 DEF Slot, ring_slot, d
<1> QED
  BY <1>1, <1>3, <1>4

LEMMA SlotOfIndex ==
  ASSUME NEW i \in Index, NEW l \in Index
  PROVE  ring_slot(i) = Slot(l, Distance(i, l) + 1)
<1>1. Slot(i, 1) = ring_slot(i)
  BY IndexIs DEF Slot
<1> QED
  BY <1>1, SlotFrom

\* What the device takes next.
LEMMA NextChain ==
  ASSUME NEW P, NEW la, NEW m, NEW l, QueueOK(la, m, l, P), la # m.avail_idx
  PROVE  /\ Used(m, l) \in Nat /\ Used(m, l) + 1 <= Outstanding(m, l)
         /\ m.avail_ring[ring_slot(la)] = HeadAt(m, l, Used(m, l) + 1)
         /\ m.avail_ring[ring_slot(la)] \in DescIndex
         /\ m.chain[m.avail_ring[ring_slot(la)]] \in P
<1>1. m \in Ring(P) /\ l \in Index /\ la = m.used_idx /\ m.used_idx \in Index /\ m.avail_idx \in Index
  BY DEF QueueOK, Ring
<1>2. Used(m, l) \in Nat /\ Outstanding(m, l) \in Nat /\ Used(m, l) <= Outstanding(m, l)
  BY <1>1, DistanceIs DEF Used, Outstanding, QueueOK
<1>3. Used(m, l) # Outstanding(m, l)
  <2>1. Used(m, l) = IF m.used_idx >= l THEN m.used_idx - l ELSE m.used_idx - l + IDX_MODULUS
    BY <1>1, DistanceIs DEF Used
  <2>2. Outstanding(m, l) = IF m.avail_idx >= l THEN m.avail_idx - l
                                               ELSE m.avail_idx - l + IDX_MODULUS
    BY <1>1, DistanceIs DEF Outstanding
  <2>3. /\ m.used_idx \in Nat /\ m.avail_idx \in Nat /\ l \in Nat /\ IDX_MODULUS \in Nat
        /\ m.used_idx < IDX_MODULUS /\ m.avail_idx < IDX_MODULUS
    BY <1>1, IndexIs, VirtqueueConstants
  <2> QED
    BY <1>1, <2>1, <2>2, <2>3
<1>4. Used(m, l) + 1 <= Outstanding(m, l)
  BY <1>2, <1>3
<1>5. m.avail_ring[ring_slot(la)] = HeadAt(m, l, Used(m, l) + 1)
  BY <1>1, SlotOfIndex DEF HeadAt, Used
<1>6. Slot(l, Used(m, l) + 1) \in DescIndex
  BY <1>1, <1>2, SlotIs
<1>7. HeadAt(m, l, Used(m, l) + 1) \in DescIndex
  BY <1>1, <1>6 DEF HeadAt, Ring
<1>8. Used(m, l) + 1 \in 1 .. Outstanding(m, l)
  BY <1>2, <1>4
<1>9. m.chain[HeadAt(m, l, Used(m, l) + 1)] \in P
  BY <1>8 DEF QueueOK
<1> QED
  BY <1>2, <1>4, <1>5, <1>7, <1>9

-----------------------------------------------------------------------------
(* The device's operations. *)

LEMMA PushedFields ==
  ASSUME NEW P, NEW m \in Ring(P), NEW h \in DescIndex, NEW n \in Nat
  PROVE  /\ virtq_push(m, h, n) \in Ring(P)
         /\ virtq_push(m, h, n).chain = m.chain
         /\ virtq_push(m, h, n).avail_idx = m.avail_idx
         /\ virtq_push(m, h, n).avail_ring = m.avail_ring
         /\ virtq_push(m, h, n).no_interrupt = m.no_interrupt
         /\ virtq_push(m, h, n).used_idx = next_idx(m.used_idx)
         /\ virtq_push(m, h, n).used_ring =
              [m.used_ring EXCEPT ![ring_slot(m.used_idx)] = [id |-> h, len |-> n]]
<1>1. next_idx(m.used_idx) \in Index
  BY NextIs DEF Ring
<1> QED
  BY <1>1 DEF virtq_push, Ring

LEMMA UsedGrows ==
  ASSUME NEW i \in Index, NEW l \in Index, Distance(i, l) + 1 < IDX_MODULUS
  PROVE  Distance(next_idx(i), l) = Distance(i, l) + 1
<1>1. Distance(i, l) = IF i >= l THEN i - l ELSE i - l + IDX_MODULUS
  BY DistanceIs
<1>2. next_idx(i) = (IF i + 1 = IDX_MODULUS THEN 0 ELSE i + 1) /\ next_idx(i) \in Index
  BY NextIs
<1>3. Distance(next_idx(i), l) = IF next_idx(i) >= l THEN next_idx(i) - l
                                                    ELSE next_idx(i) - l + IDX_MODULUS
  BY <1>2, DistanceIs
<1>4. i \in Nat /\ l \in Nat /\ IDX_MODULUS \in Nat /\ i < IDX_MODULUS /\ l < IDX_MODULUS
  BY IndexIs, VirtqueueConstants
<1> QED
  BY <1>1, <1>2, <1>3, <1>4

\* m2 is m with one chain more completed, that of head h with n bytes.
Pushed(m, m2, l, h, n) ==
    /\ Used(m2, l) = Used(m, l) + 1
    /\ \A k \in 1 .. Used(m, l) : m2.used_ring[Slot(l, k)] = m.used_ring[Slot(l, k)]
    /\ m2.used_ring[Slot(l, Used(m, l) + 1)] = [id |-> h, len |-> n]
    /\ m2.chain = m.chain /\ m2.avail_idx = m.avail_idx /\ m2.avail_ring = m.avail_ring
    /\ m2.no_interrupt = m.no_interrupt

\* virtq_pop and virtq_push of the chain in turn complete it, and only it.
LEMMA PushKeeps ==
  ASSUME NEW P, NEW la, NEW m, NEW l, QueueOK(la, m, l, P), la # m.avail_idx,
         NEW n \in Nat, NEW h, h = m.avail_ring[ring_slot(la)]
  PROVE  /\ QueueOK(next_idx(la), virtq_push(m, h, n), l, P)
         /\ Pushed(m, virtq_push(m, h, n), l, h, n)
<1> DEFINE u == Used(m, l)
           o == Outstanding(m, l)
           m2 == virtq_push(m, h, n)
<1>1. /\ m \in Ring(P) /\ l \in Index /\ la = m.used_idx /\ la \in Index
      /\ m.used_ring \in [DescIndex -> [id : DescIndex, len : Nat]]
      /\ m.avail_idx \in Index
  BY DEF QueueOK, Ring
<1>2. u \in Nat /\ o \in Nat /\ u + 1 <= o /\ h = HeadAt(m, l, u + 1) /\ h \in DescIndex /\ o < IDX_MODULUS
  BY <1>1, NextChain, DistanceIs DEF Outstanding
<1>3. o <= Num /\ Num \in Nat
  BY VirtqueueConstants DEF QueueOK
<1>4. /\ m2 \in Ring(P) /\ m2.chain = m.chain /\ m2.avail_idx = m.avail_idx
      /\ m2.avail_ring = m.avail_ring /\ m2.used_idx = next_idx(la)
      /\ m2.used_ring = [m.used_ring EXCEPT ![ring_slot(la)] = [id |-> h, len |-> n]]
      /\ m2.no_interrupt = m.no_interrupt
  BY <1>1, <1>2, PushedFields
<1>5. Outstanding(m2, l) = o /\ \A k : HeadAt(m2, l, k) = HeadAt(m, l, k)
  BY <1>4 DEF Outstanding, HeadAt
<1>6. Used(m2, l) = u + 1
  BY <1>1, <1>2, <1>3, <1>4, UsedGrows, VirtqueueConstants DEF Used
<1>7. ring_slot(la) = Slot(l, u + 1)
  BY <1>1, SlotOfIndex DEF Used
<1>8. \A k \in 1 .. u : Slot(l, k) \in DescIndex /\ Slot(l, k) # Slot(l, u + 1)
  BY <1>1, <1>2, <1>3, SlotIs, SlotsDiffer
<1>9. Slot(l, u + 1) \in DescIndex
  BY <1>1, <1>2, SlotIs
<1>10. \A k \in 1 .. u : m2.used_ring[Slot(l, k)] = m.used_ring[Slot(l, k)]
  BY <1>1, <1>4, <1>7, <1>8
<1>11. m2.used_ring[Slot(l, u + 1)] = [id |-> h, len |-> n]
  BY <1>1, <1>4, <1>7, <1>9
<1>12. \A k \in 1 .. o : m2.chain[HeadAt(m2, l, k)] \in P
  BY <1>4, <1>5 DEF QueueOK
<1>13. \A j, k \in 1 .. o : HeadAt(m2, l, j) = HeadAt(m2, l, k) => j = k
  BY <1>5 DEF QueueOK
<1>14. \A k \in 1 .. u + 1 : m2.used_ring[Slot(l, k)].id = HeadAt(m2, l, k)
  <2> SUFFICES ASSUME NEW k \in 1 .. u + 1 PROVE m2.used_ring[Slot(l, k)].id = HeadAt(m, l, k)
    BY <1>5
  <2>1. CASE k = u + 1
    BY <1>2, <1>11, <2>1
  <2>2. CASE k \in 1 .. u
    BY <1>10, <2>2 DEF QueueOK
  <2> QED
    BY <1>2, <2>1, <2>2
<1>15. QueueOK(next_idx(la), m2, l, P)
  <2> HIDE DEF m2, u, o
  <2> QED
    BY <1>1, <1>2, <1>3, <1>4, <1>5, <1>6, <1>12, <1>13, <1>14 DEF QueueOK
<1> HIDE DEF m2
<1>16. Pushed(m, m2, l, h, n)
  BY <1>4, <1>6, <1>10, <1>11 DEF Pushed
<1> QED
  BY <1>15, <1>16 DEF m2

\* What a chain in the driver's memory holds is not the ring's concern.
Refilled(m, m2, l, d, c) ==
    /\ Used(m2, l) = Used(m, l) /\ m2.used_ring = m.used_ring /\ m2.avail_ring = m.avail_ring
    /\ m2.avail_idx = m.avail_idx /\ m2.used_idx = m.used_idx
    /\ m2.no_interrupt = m.no_interrupt
    /\ m2.chain = [m.chain EXCEPT ![d] = c]

LEMMA RefillKeeps ==
  ASSUME NEW P, NEW la, NEW m, NEW l, QueueOK(la, m, l, P), NEW d \in DescIndex, NEW c \in P,
         NEW m2, m2 = [m EXCEPT !.chain[d] = c]
  PROVE  QueueOK(la, m2, l, P) /\ Refilled(m, m2, l, d, c)
<1>1. m \in Ring(P)
  BY DEF QueueOK
<1>2. /\ m2 \in Ring(P) /\ m2.used_ring = m.used_ring /\ m2.avail_ring = m.avail_ring
      /\ m2.avail_idx = m.avail_idx /\ m2.used_idx = m.used_idx
      /\ m2.no_interrupt = m.no_interrupt
      /\ m2.chain = [m.chain EXCEPT ![d] = c]
  BY <1>1 DEF Ring
<1>3. /\ Used(m2, l) = Used(m, l) /\ Outstanding(m2, l) = Outstanding(m, l)
      /\ \A k : HeadAt(m2, l, k) = HeadAt(m, l, k)
  BY <1>2 DEF Used, Outstanding, HeadAt
<1>4. ASSUME NEW k \in 1 .. Outstanding(m, l) PROVE m2.chain[HeadAt(m, l, k)] \in P
  <2>1. m.chain[HeadAt(m, l, k)] \in P
    BY DEF QueueOK
  <2>2. Outstanding(m, l) \in Nat /\ l \in Index
    BY <1>1, DistanceIs DEF QueueOK, Outstanding, Ring
  <2>3. HeadAt(m, l, k) \in DescIndex
    BY <1>1, <2>2, SlotIs DEF HeadAt, Ring
  <2> QED
    BY <1>1, <1>2, <2>1, <2>3 DEF Ring
<1>5. QueueOK(la, m2, l, P)
  BY <1>2, <1>3, <1>4 DEF QueueOK
<1> QED
  BY <1>2, <1>3, <1>5 DEF Refilled

-----------------------------------------------------------------------------
(* The driver's operations. *)

LEMMA PublishedFields ==
  ASSUME NEW P, NEW m \in Ring(P), NEW h \in DescIndex, NEW c \in P
  PROVE  /\ Published(m, h, c) \in Ring(P)
         /\ Published(m, h, c).chain = [m.chain EXCEPT ![h] = c]
         /\ Published(m, h, c).avail_idx = next_idx(m.avail_idx)
         /\ Published(m, h, c).avail_ring = [m.avail_ring EXCEPT ![ring_slot(m.avail_idx)] = h]
         /\ Published(m, h, c).no_interrupt = m.no_interrupt
         /\ Published(m, h, c).used_idx = m.used_idx
         /\ Published(m, h, c).used_ring = m.used_ring
<1>1. next_idx(m.avail_idx) \in Index
  BY NextIs DEF Ring
<1> QED
  BY <1>1 DEF Published, Ring

\* With a free head there is room in the ring: the chains outstanding have heads
\* of their own, which are not free.
LEMMA RoomInRing ==
  ASSUME NEW P, << >> \notin P, NEW la, NEW m, NEW l, QueueOK(la, m, l, P),
         NEW h \in DescIndex, m.chain[h] = << >>
  PROVE  Outstanding(m, l) + 1 <= Num
<1> DEFINE o == Outstanding(m, l)
           f == [k \in 1 .. o |-> HeadAt(m, l, k)]
<1>1. m \in Ring(P) /\ l \in Index /\ o \in Nat /\ Num \in Nat \ {0}
  BY DistanceIs, VirtqueueConstants DEF QueueOK, Ring, Outstanding
<1>2. \A k \in 1 .. o : HeadAt(m, l, k) \in DescIndex \ {h}
  <2> SUFFICES ASSUME NEW k \in 1 .. o PROVE HeadAt(m, l, k) \in DescIndex \ {h}
    OBVIOUS
  <2>1. m.chain[HeadAt(m, l, k)] \in P
    BY DEF QueueOK
  <2>2. HeadAt(m, l, k) \in DescIndex
    BY <1>1, SlotIs DEF HeadAt, Ring
  <2> QED
    BY <2>1, <2>2
<1>3. f \in Injection(1 .. o, DescIndex \ {h})
  <2>1. f \in [1 .. o -> DescIndex \ {h}]
    BY <1>2
  <2>2. \A j, k \in 1 .. o : f[j] = f[k] => j = k
    BY DEF QueueOK
  <2> QED
    BY <2>1, <2>2 DEF Injection, IsInjective
<1>4. IsFiniteSet(DescIndex) /\ Cardinality(DescIndex) = Num
  <2>1. 0 \in Int /\ Num - 1 \in Int /\ 0 <= Num - 1 /\ (Num - 1) - 0 + 1 = Num
    BY <1>1
  <2>2. IsFiniteSet(0 .. Num - 1) /\ Cardinality(0 .. Num - 1) = (Num - 1) - 0 + 1
    BY ONLY <2>1, FS_Interval
  <2> QED
    BY <2>1, <2>2 DEF DescIndex
<1>5. IsFiniteSet(DescIndex \ {h}) /\ Cardinality(DescIndex \ {h}) = Num - 1
  BY <1>4, FS_RemoveElement
<1>6. Cardinality(1 .. o) = o /\ IsFiniteSet(1 .. o)
  BY <1>1, FS_Interval
<1>7. Cardinality(1 .. o) <= Cardinality(DescIndex \ {h})
  BY <1>3, <1>5, <1>6, FS_Injection
<1> QED
  BY <1>1, <1>5, <1>6, <1>7

\* m2 is m with one chain more; those that were there are as they were.
Extended(m, m2, l) ==
    /\ Used(m2, l) = Used(m, l) /\ m2.used_ring = m.used_ring /\ m2.used_idx = m.used_idx
    /\ m2.no_interrupt = m.no_interrupt
    /\ \A k \in 1 .. Outstanding(m, l) :
         /\ HeadAt(m2, l, k) = HeadAt(m, l, k)
         /\ m2.chain[HeadAt(m, l, k)] = m.chain[HeadAt(m, l, k)]

\* The chain that was added is the last one.
Newest(m, m2, l, h, c) ==
    /\ Outstanding(m2, l) = Outstanding(m, l) + 1
    /\ HeadAt(m2, l, Outstanding(m, l) + 1) = h
    /\ m2.chain = [m.chain EXCEPT ![h] = c]

\* Publishing adds one chain behind those that are there.
LEMMA PublishAdds ==
  ASSUME NEW P, << >> \notin P, NEW la, NEW m, NEW l, QueueOK(la, m, l, P),
         Outstanding(m, l) + 1 < IDX_MODULUS, NEW h \in DescIndex, m.chain[h] = << >>, NEW c \in P, NEW m2, m2 = Published(m, h, c)
  PROVE  QueueOK(la, m2, l, P) /\ Extended(m, m2, l) /\ Newest(m, m2, l, h, c)
<1> DEFINE o == Outstanding(m, l)
<1>1. /\ m \in Ring(P) /\ l \in Index /\ o \in Nat /\ Num \in Nat \ {0} /\ m.avail_idx \in Index
      /\ la = m.used_idx
  BY DistanceIs, VirtqueueConstants DEF QueueOK, Ring, Outstanding
<1>2. o + 1 <= Num
  BY RoomInRing
<1>3. /\ m2 \in Ring(P) /\ m2.chain = [m.chain EXCEPT ![h] = c]
      /\ m2.avail_idx = next_idx(m.avail_idx)
      /\ m2.avail_ring = [m.avail_ring EXCEPT ![ring_slot(m.avail_idx)] = h]
      /\ m2.used_idx = m.used_idx /\ m2.used_ring = m.used_ring
      /\ m2.no_interrupt = m.no_interrupt
  BY <1>1, PublishedFields
<1>4. Used(m2, l) = Used(m, l) /\ Used(m, l) <= o /\ Used(m, l) \in Nat
  BY <1>1, <1>3, DistanceIs DEF Used, QueueOK, Ring
<1>5. Outstanding(m2, l) = o + 1
  BY <1>1, <1>3, UsedGrows DEF Outstanding
<1>6. ring_slot(m.avail_idx) = Slot(l, o + 1)
  BY <1>1, SlotOfIndex DEF Outstanding
<1>7. \A k \in 1 .. o + 1 : Slot(l, k) \in DescIndex
  BY <1>1, SlotIs
<1>8. \A k \in 1 .. o : Slot(l, k) # Slot(l, o + 1)
  BY <1>1, <1>2, SlotsDiffer
<1>9. \A k \in 1 .. o : HeadAt(m2, l, k) = HeadAt(m, l, k)
  BY <1>1, <1>3, <1>6, <1>7, <1>8 DEF HeadAt, Ring
<1>10. HeadAt(m2, l, o + 1) = h
  BY <1>1, <1>3, <1>6, <1>7 DEF HeadAt, Ring
<1>11. \A k \in 1 .. o : m.chain[HeadAt(m, l, k)] \in P /\ HeadAt(m, l, k) \in DescIndex
  BY <1>1, <1>7 DEF QueueOK, HeadAt, Ring
<1>12. \A k \in 1 .. o : HeadAt(m, l, k) # h
  BY <1>11
<1>13. \A k \in 1 .. o : m2.chain[HeadAt(m, l, k)] = m.chain[HeadAt(m, l, k)]
  BY <1>1, <1>3, <1>11, <1>12 DEF Ring
<1>14. m2.chain[h] = c
  BY <1>1, <1>3 DEF Ring
<1>15. \A k \in 1 .. o + 1 : m2.chain[HeadAt(m2, l, k)] \in P
  BY <1>1, <1>9, <1>10, <1>11, <1>13, <1>14
<1>16. \A j, k \in 1 .. o : HeadAt(m, l, j) = HeadAt(m, l, k) => j = k
  BY DEF QueueOK
<1>17. \A j, k \in 1 .. o + 1 : HeadAt(m2, l, j) = HeadAt(m2, l, k) => j = k
  BY <1>1, <1>9, <1>10, <1>12, <1>16
<1>18. \A k \in 1 .. Used(m, l) : m2.used_ring[Slot(l, k)].id = HeadAt(m2, l, k)
  <2>1. \A k \in 1 .. Used(m, l) : k \in 1 .. o
    BY <1>1, <1>4
  <2> QED
    BY <1>3, <1>9, <2>1 DEF QueueOK
<1> HIDE DEF o
<1>19. QueueOK(la, m2, l, P)
  BY <1>1, <1>2, <1>3, <1>4, <1>5, <1>15, <1>17, <1>18 DEF QueueOK
<1>20. Newest(m, m2, l, h, c)
  BY <1>3, <1>5, <1>10 DEF o, Newest
<1> QED
  BY <1>3, <1>4, <1>9, <1>13, <1>19, <1>20 DEF o, Extended

\* A ring shorter than the range of its indexes has room for every chain.
LEMMA PublishKeeps ==
  ASSUME NEW P, << >> \notin P, Num < IDX_MODULUS, NEW la, NEW m, NEW l, QueueOK(la, m, l, P),
         NEW h \in DescIndex, m.chain[h] = << >>, NEW c \in P, NEW m2, m2 = Published(m, h, c)
  PROVE  QueueOK(la, m2, l, P) /\ Extended(m, m2, l)
<1>1. Outstanding(m, l) + 1 <= Num
  BY RoomInRing
<1>2. Outstanding(m, l) \in Nat
  BY DistanceIs DEF QueueOK, Ring, Outstanding
<1>3. Outstanding(m, l) + 1 < IDX_MODULUS
  BY <1>1, <1>2, VirtqueueConstants
<1> QED
  BY <1>3, PublishAdds

\* The driver takes back used chains up to index l2 and leaves the others alone.
LEMMA CollectKeeps ==
  ASSUME NEW P, NEW la, NEW m, NEW l, QueueOK(la, m, l, P), NEW m2 \in Ring(P),
         NEW l2 \in Index, NEW c, c = Distance(l2, l), c <= Used(m, l),
         m2.avail_idx = m.avail_idx, m2.used_idx = m.used_idx,
         \A k \in c + 1 .. Outstanding(m, l) :
            /\ m2.avail_ring[Slot(l, k)] = m.avail_ring[Slot(l, k)]
            /\ m2.chain[HeadAt(m, l, k)] = m.chain[HeadAt(m, l, k)],
         \A k \in c + 1 .. Used(m, l) : m2.used_ring[Slot(l, k)] = m.used_ring[Slot(l, k)]
  PROVE  /\ QueueOK(la, m2, l2, P)
         /\ Used(m2, l2) = Used(m, l) - c /\ Outstanding(m2, l2) = Outstanding(m, l) - c
         /\ \A k \in Nat \ {0} : Slot(l2, k) = Slot(l, c + k)
<1> DEFINE o == Outstanding(m, l)
           u == Used(m, l)
<1>1. /\ m \in Ring(P) /\ l \in Index /\ la = m.used_idx /\ m.used_idx \in Index
      /\ m.avail_idx \in Index /\ Num \in Nat \ {0}
  BY VirtqueueConstants DEF QueueOK, Ring
<1>2. o \in Nat /\ u \in Nat /\ c \in Nat /\ c <= u /\ u <= o /\ o <= Num
  BY <1>1, DistanceIs DEF QueueOK, Used, Outstanding
<1>3. \A k \in Nat \ {0} : Slot(l2, k) = Slot(l, c + k)
  BY <1>1, SlotFrom
<1>4. ASSUME NEW i \in Index, Distance(i, l) >= c PROVE Distance(i, l2) = Distance(i, l) - c
  <2>1. Distance(i, l) = IF i >= l THEN i - l ELSE i - l + IDX_MODULUS
    BY <1>1, DistanceIs
  <2>2. Distance(i, l2) = IF i >= l2 THEN i - l2 ELSE i - l2 + IDX_MODULUS
    BY <1>1, DistanceIs
  <2>3. c = IF l2 >= l THEN l2 - l ELSE l2 - l + IDX_MODULUS
    BY <1>1, DistanceIs
  <2>4. /\ i \in Nat /\ l \in Nat /\ l2 \in Nat /\ IDX_MODULUS \in Nat
        /\ i < IDX_MODULUS /\ l < IDX_MODULUS /\ l2 < IDX_MODULUS
    BY <1>1, IndexIs, VirtqueueConstants
  <2> QED
    BY <1>4, <2>1, <2>2, <2>3, <2>4
<1>5. Used(m2, l2) = u - c /\ Outstanding(m2, l2) = o - c
  BY <1>1, <1>2, <1>4 DEF Used, Outstanding
<1>6. \A k \in 1 .. o - c : k \in Nat \ {0} /\ c + k \in c + 1 .. o /\ c + k \in 1 .. o
  BY <1>2
<1>7. \A k \in 1 .. o - c : HeadAt(m2, l2, k) = HeadAt(m, l, c + k)
  BY <1>3, <1>6 DEF HeadAt
<1>8. \A k \in 1 .. o - c : m2.chain[HeadAt(m2, l2, k)] \in P
  BY <1>6, <1>7 DEF QueueOK
<1>9. \A j, k \in 1 .. o - c : HeadAt(m2, l2, j) = HeadAt(m2, l2, k) => j = k
  <2>1. \A j, k \in 1 .. o : HeadAt(m, l, j) = HeadAt(m, l, k) => j = k
    BY DEF QueueOK
  <2> QED
    BY <1>2, <1>6, <1>7, <2>1
<1>10. \A k \in 1 .. u - c : m2.used_ring[Slot(l2, k)].id = HeadAt(m2, l2, k)
  <2> SUFFICES ASSUME NEW k \in 1 .. u - c PROVE m2.used_ring[Slot(l2, k)].id = HeadAt(m2, l2, k)
    OBVIOUS
  <2>1. k \in 1 .. o - c /\ k \in Nat \ {0} /\ c + k \in c + 1 .. u /\ c + k \in 1 .. u
    BY <1>2
  <2>2. m.used_ring[Slot(l, c + k)].id = HeadAt(m, l, c + k)
    BY <2>1 DEF QueueOK
  <2> QED
    BY <1>3, <1>7, <2>1, <2>2
<1> HIDE DEF o, u
<1>11. QueueOK(la, m2, l2, P)
  <2>1. u - c <= o - c /\ o - c <= Num
    BY <1>1, <1>2
  <2> QED
    BY <1>1, <1>5, <1>8, <1>9, <1>10, <2>1 DEF QueueOK
<1> QED
  BY <1>3, <1>5, <1>11 DEF o, u

LEMMA EmptyRing ==
  ASSUME NEW P, NEW m \in Ring(P), m.avail_idx = 0, m.used_idx = 0
  PROVE  QueueOK(0, m, 0, P) /\ Used(m, 0) = 0
<1>1. Distance(0, 0) = 0 /\ 0 \in Index
  BY IndexIs, DistanceIs
<1> QED
  BY <1>1, VirtqueueConstants DEF QueueOK, Used, Outstanding
=============================================================================
