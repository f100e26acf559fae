----------------------------- MODULE BlkProofs ------------------------------
(***************************************************************************)
(* Theorems about the block device and its driver (VirtioBlk), for every   *)
(* queue size, index width, disk size and set of requests.                 *)
(***************************************************************************)
EXTENDS VirtioBlk, RingLemmas

-----------------------------------------------------------------------------
(* Chains. *)

\* What buffers and sectors hold.
Header(r) == [type |-> r.type, sector |-> r.sector]
Statuses == {"OK", "IOERR", "UNSUPP"}
Content ==
    Statuses \cup {Zero, Id, Nil} \cup {Header(r) : r \in Requests}
    \cup UNION {Range(r.data) : r \in Requests}
Desc == [len : Nat, write : BOOLEAN, buf : Content]
Chain == {c \in Seq(Desc) : Len(c) >= 2}

\* A chain that was built for r: header, data, status.
Incoming(r) == r.type # "OUT"
DataDesc(r, k) == [len |-> SECTOR_SIZE, write |-> Incoming(r), buf |-> r.data[k]]
Shape(c, r) ==
    /\ Len(c) = Len(r.data) + 2
    /\ c[1] = [len |-> 16, write |-> FALSE, buf |-> Header(r)]
    /\ \A k \in 1 .. Len(r.data) : c[k + 1] = DataDesc(r, k)
    /\ c[Len(r.data) + 2] = [len |-> 1, write |-> TRUE, buf |-> Nil]

\* What BlkConstants says of one request.
LEMMA RequestIs ==
  ASSUME NEW r \in Requests
  PROVE  /\ Len(r.data) \in Nat /\ DOMAIN r.data = 1 .. Len(r.data)
         /\ \A k \in 1 .. Len(r.data) : r.data[k] \in Content
         /\ r.sector \in Nat
         /\ r.type = "IN" => \A k \in 1 .. Len(r.data) : r.data[k] = Nil
<1>1. /\ r.data \in Seq(Range(r.data)) /\ r.sector \in Nat
      /\ r.type = "IN" => \A k \in DOMAIN r.data : r.data[k] = Nil
  BY BlkConstants
<1>2. Len(r.data) \in Nat /\ DOMAIN r.data = 1 .. Len(r.data)
  BY <1>1
<1>3. \A k \in DOMAIN r.data : r.data[k] \in Range(r.data)
  BY DEF Range
<1> QED
  BY <1>1, <1>2, <1>3 DEF Content

\* The place of a buffer on the disk: the device finds it in range if it is a
\* sector of the disk, and no other buffer of the request has it.
LEMMA PlaceIs ==
  ASSUME NEW r \in Requests, NEW k \in 1 .. Len(r.data)
  PROVE  /\ Place(r, k) \in Nat
         /\ offset(r.sector + k - 1) = Place(r, k)
         /\ InRange(r.sector + k - 1) <=> Place(r, k) \in Sector
<1>1. /\ Sectors \in Nat /\ SECTOR_WRAP \in Nat /\ SECTOR_WRAP > Sectors /\ Sectors > 0
      /\ r.sector \in Nat /\ Len(r.data) \in Nat
      /\ (r.sector + k - 1) % SECTOR_WRAP # SECTOR_WRAP - 1
  <2>1. DOMAIN r.data = 1 .. Len(r.data)
    BY RequestIs
  <2> QED
    BY <2>1, BlkConstants, RequestIs
<1> DEFINE p == (r.sector + k - 1) % SECTOR_WRAP
<1>2. p \in 0 .. SECTOR_WRAP - 1
  BY <1>1
<1>3. p # SECTOR_WRAP - 1
  BY <1>1
<1> HIDE DEF p
<1>4. (p + 1) % SECTOR_WRAP = p + 1
  <2>1. p + 1 \in 0 .. SECTOR_WRAP - 1 /\ 0 * SECTOR_WRAP + (p + 1) = p + 1
    BY <1>1, <1>2, <1>3
  <2>2. (0 * SECTOR_WRAP + (p + 1)) % SECTOR_WRAP = p + 1
    BY <1>1, <2>1, Remainder
  <2> QED
    BY <2>1, <2>2
<1>5. (p + 1) % SECTOR_WRAP <= Sectors <=> p \in 0 .. Sectors - 1
  BY <1>1, <1>2, <1>4
<1>6. Place(r, k) = p /\ offset(r.sector + k - 1) = p
  BY DEF Place, offset, p
<1> QED
  BY <1>2, <1>5, <1>6 DEF InRange, Sector

LEMMA PlacesDiffer ==
  ASSUME NEW r \in Requests, NEW j \in 1 .. Len(r.data), NEW k \in 1 .. Len(r.data),
         Place(r, j) = Place(r, k)
  PROVE  j = k
<1>1. /\ SECTOR_WRAP \in Nat /\ SECTOR_WRAP > 0 /\ r.sector \in Nat
      /\ Len(r.data) \in Nat /\ Len(r.data) <= SECTOR_WRAP
  BY BlkConstants, RequestIs
<1> DEFINE x == r.sector + j - 1
           y == r.sector + k - 1
<1>2. x \in Nat /\ y \in Nat /\ x - y < SECTOR_WRAP /\ y - x < SECTOR_WRAP
  BY <1>1
<1>3. x % SECTOR_WRAP = y % SECTOR_WRAP
  BY DEF Place
<1> HIDE DEF x, y
<1>4. x = y
  <2>0. SECTOR_WRAP \in Nat \ {0}
    BY <1>1
  <2>1. ASSUME x < y PROVE FALSE
    <3>1. y < x + SECTOR_WRAP
      BY <1>1, <1>2
    <3>2. x % SECTOR_WRAP # y % SECTOR_WRAP
      BY ONLY <1>2, <2>0, <2>1, <3>1, Apart
    <3> QED
      BY <1>3, <3>2
  <2>2. ASSUME y < x PROVE FALSE
    <3>1. x < y + SECTOR_WRAP
      BY <1>1, <1>2
    <3>2. y % SECTOR_WRAP # x % SECTOR_WRAP
      BY ONLY <1>2, <2>0, <2>2, <3>1, Apart
    <3> QED
      BY <1>3, <3>2
  <2> QED
    BY <1>2, <2>1, <2>2
<1> QED
  BY <1>1, <1>4 DEF x, y

\* The driver builds a chain of that shape.
LEMMA BuildIs ==
  ASSUME NEW r \in Requests
  PROVE  Build(r) \in Chain /\ Shape(Build(r), r)
<1> DEFINE n == Len(r.data)
           first == [len |-> 16, write |-> FALSE, buf |-> Header(r)]
           last == [len |-> 1, write |-> TRUE, buf |-> Nil]
           mid == [k \in 1 .. n |-> DataDesc(r, k)]
<1>1. n \in Nat /\ DOMAIN r.data = 1 .. n /\ \A k \in 1 .. n : r.data[k] \in Content
  BY RequestIs
<1>2. Build(r) = <<first>> \o mid \o <<last>>
  BY <1>1 DEF Build, Header, DataDesc, Incoming
<1>3. first \in Desc /\ last \in Desc
  <2>1. Header(r) \in Content /\ Nil \in Content
    BY DEF Content
  <2> QED
    BY <2>1 DEF Desc
<1>4. \A k \in 1 .. n : DataDesc(r, k) \in Desc
  <2>1. Incoming(r) \in BOOLEAN
    BY DEF Incoming
  <2> QED
    BY <1>1, <2>1 DEF DataDesc, Desc, SECTOR_SIZE
<1>5. mid \in Seq(Desc) /\ Len(mid) = n
  BY <1>1, <1>4
<1>6. \A k \in 1 .. n : mid[k] = DataDesc(r, k)
  OBVIOUS
<1> HIDE DEF n, first, last, mid
<1> DEFINE a == <<first>> \o mid
<1>7. a \in Seq(Desc) /\ Len(a) = n + 1 /\ a[1] = first /\ \A k \in 1 .. n : a[k + 1] = mid[k]
  BY <1>1, <1>3, <1>5
<1> DEFINE c == a \o <<last>>
<1> HIDE DEF a
<1>8. /\ c \in Seq(Desc) /\ Len(c) = n + 2 /\ c[n + 2] = last
      /\ \A k \in 1 .. n + 1 : c[k] = a[k]
  BY <1>1, <1>3, <1>7
<1>9. c[1] = first /\ \A k \in 1 .. n : c[k + 1] = DataDesc(r, k)
  <2> HIDE DEF c
  <2>1. 1 \in 1 .. n + 1 /\ \A k \in 1 .. n : k + 1 \in 1 .. n + 1
    BY <1>1
  <2> QED
    BY <1>6, <1>7, <1>8, <2>1
<1>10. Build(r) = c
  BY <1>2 DEF a
<1> HIDE DEF c
<1>11. c \in Chain
  BY <1>1, <1>8 DEF Chain
<1>12. Shape(c, r)
  BY <1>8, <1>9 DEF Shape, n, first, last
<1> QED
  BY <1>10, <1>11, <1>12

\* Requests that move data do so at every data descriptor.
Moves(r) == r.type \in {"IN", "OUT", "GET_ID"}

\* The descriptors at which the walk of process_request moves data.
LEMMA SegmentsIs ==
  ASSUME NEW r \in Requests, NEW c, Shape(c, r)
  PROVE  Segments(c) = IF Moves(r) THEN 2 .. Len(r.data) + 1 ELSE {}
<1> DEFINE n == Len(r.data)
<1>1. n \in Nat /\ Len(c) = n + 2
  BY RequestIs DEF Shape
<1>2. c[1].buf.type = r.type
  BY DEF Shape, Header
<1>3. \A k \in 2 .. n + 1 : c[k] = DataDesc(r, k - 1)
  <2> SUFFICES ASSUME NEW k \in 2 .. n + 1 PROVE c[k] = DataDesc(r, k - 1)
    OBVIOUS
  <2>1. k - 1 \in 1 .. n /\ (k - 1) + 1 = k
    BY <1>1
  <2> QED
    BY <2>1 DEF Shape
<1>4. c[n + 2].write = TRUE /\ c[n + 2].len = 1
  BY DEF Shape
<1>5. \A k \in 2 .. n + 1 : c[k].len = 512 /\ c[k].write = Incoming(r)
  <2>1. \A k : DataDesc(r, k).len = 512
    BY DEF DataDesc, SECTOR_SIZE
  <2>2. \A k : DataDesc(r, k).write = Incoming(r)
    BY DEF DataDesc
  <2> QED
    BY <1>3, <2>1, <2>2
<1> DEFINE S(k) == \/ r.type \in {"IN", "GET_ID"} /\ c[k].write /\ ~IsStatus(c[k])
                   \/ r.type = "OUT" /\ ~c[k].write /\ c[k].len > 1
<1>6. Segments(c) = {k \in 2 .. n + 2 : S(k)}
  BY <1>1, <1>2 DEF Segments
<1>7. ~S(n + 2)
  BY <1>4 DEF IsStatus
<1>8. \A k \in 2 .. n + 1 : S(k) <=> Moves(r)
  <2>1. CASE r.type = "OUT"
    <3>1. Incoming(r) = FALSE
      BY <2>1 DEF Incoming
    <3> QED
      BY <1>5, <2>1, <3>1 DEF Moves
  <2>2. CASE r.type # "OUT"
    <3>1. Incoming(r) = TRUE
      BY <2>2 DEF Incoming
    <3>2. \A k \in 2 .. n + 1 : c[k].write = TRUE /\ c[k].len = 512
      <4> SUFFICES ASSUME NEW k \in 2 .. n + 1 PROVE c[k].write = TRUE /\ c[k].len = 512
        OBVIOUS
      <4>1. c[k].write = Incoming(r) /\ c[k].len = 512
        BY <1>5
      <4> QED
        BY <3>1, <4>1
    <3>3. \A k \in 2 .. n + 1 : ~IsStatus(c[k])
      BY <3>2 DEF IsStatus
    <3> QED
      BY <2>2, <3>2, <3>3 DEF Moves
  <2> QED
    BY <2>1, <2>2
<1> HIDE DEF S, n
<1>9. \A k \in 2 .. n + 2 : k = n + 2 \/ k \in 2 .. n + 1
  BY <1>1
<1>10. \A k \in 2 .. n + 1 : k \in 2 .. n + 2
  BY <1>1
<1>11. Segments(c) = IF Moves(r) THEN 2 .. n + 1 ELSE {}
  BY <1>6, <1>7, <1>8, <1>9, <1>10
<1> QED
  BY <1>11 DEF n

\* The sector in turn at position k.
LEMMA SectorIs ==
  ASSUME NEW r \in Requests, NEW c, Shape(c, r), Moves(r), NEW k \in 2 .. Len(r.data) + 2
  PROVE  sector_at(c, k) = r.sector + (k - 2)
<1>1. Len(r.data) \in Nat /\ r.sector \in Nat
  BY RequestIs
<1>2. Segments(c) = 2 .. Len(r.data) + 1
  BY SegmentsIs
<1>3. {j \in Segments(c) : j < k} = 2 .. k - 1
  BY <1>1, <1>2
<1>4. Cardinality(2 .. k - 1) = k - 2
  <2>1. 2 \in Int /\ k - 1 \in Int /\ k \in Int /\ 2 <= k
    BY <1>1
  <2>2. Cardinality(2 .. k - 1) = IF 2 > k - 1 THEN 0 ELSE (k - 1) - 2 + 1
    BY ONLY <2>1, FS_Interval
  <2> QED
    BY <2>1, <2>2
<1>5. c[1].buf.sector = r.sector
  BY DEF Shape, Header
<1> QED
  BY <1>3, <1>4, <1>5 DEF sector_at

\* What a disk d makes of request r.
DiskAfter(r, d) ==
    [s \in Sector |-> IF r.type = "OUT" /\ \E k \in Buffers(r) : Place(r, k) = s
                        THEN r.data[CHOOSE k \in Buffers(r) : Place(r, k) = s]
                        ELSE d[s]]
DataOf(r, d) ==
    CASE r.type = "IN" -> [k \in Buffers(r) |->
            IF Place(r, k) \in Sector THEN d[Place(r, k)] ELSE Nil]
      [] r.type = "GET_ID" -> [k \in Buffers(r) |-> Id]
      [] OTHER -> r.data

\* The status that the walk leaves is the one the driver expects.
LEMMA StatusIs ==
  ASSUME NEW r \in Requests, NEW c, Shape(c, r)
  PROVE  status_at(c, Len(r.data) + 2) = ExpectedStatus(r)
<1> DEFINE n == Len(r.data)
<1>1. n \in Nat /\ r.sector \in Nat /\ Sectors \in Nat \ {0}
  BY RequestIs, BlkConstants
<1>2. c[1].buf.type = r.type
  BY DEF Shape, Header
<1>3. CASE r.type \in {"IN", "OUT"}
  <2>1. Segments(c) = 2 .. n + 1
    BY <1>3, SegmentsIs DEF Moves
  <2>2. \A j \in 2 .. n + 1 : sector_at(c, j) = r.sector + (j - 2)
    <3>1. \A j \in 2 .. n + 1 : j \in 2 .. Len(r.data) + 2
      BY <1>1
    <3> QED
      BY <1>3, <3>1, SectorIs DEF Moves
  <2> DEFINE A == \A j \in Segments(c) : j < n + 2 => InRange(sector_at(c, j))
  <2>3. A <=> \A j \in 2 .. n + 1 : InRange(r.sector + (j - 2))
    <3>1. \A j \in 2 .. n + 1 : j < n + 2
      BY <1>1
    <3> QED
      BY <2>1, <2>2, <3>1
  <2>4. (\A j \in 2 .. n + 1 : InRange(r.sector + (j - 2)))
          <=> \A k \in 1 .. n : Place(r, k) \in Sector
    <3>1. ASSUME NEW j \in 2 .. n + 1
          PROVE  /\ j - 1 \in 1 .. n
                 /\ InRange(r.sector + (j - 2)) <=> Place(r, j - 1) \in Sector
      <4>1. j - 1 \in 1 .. n /\ r.sector + (j - 2) = r.sector + (j - 1) - 1
        BY <1>1
      <4> QED
        BY <4>1, PlaceIs
    <3>2. ASSUME NEW k \in 1 .. n
          PROVE  k + 1 \in 2 .. n + 1 /\ (k + 1) - 1 = k
      BY <1>1
    <3> QED
      BY <3>1, <3>2
  <2>5. status_at(c, n + 2) = IF A THEN "OK" ELSE "IOERR"
    BY <1>2, <1>3 DEF status_at
  <2>6. ExpectedStatus(r) = IF \A k \in 1 .. n : Place(r, k) \in Sector THEN "OK" ELSE "IOERR"
    BY <1>3 DEF ExpectedStatus, Buffers
  <2> HIDE DEF A
  <2> QED
    BY <2>3, <2>4, <2>5, <2>6
<1>4. CASE r.type \notin {"IN", "OUT"}
  BY <1>2, <1>4 DEF status_at, ExpectedStatus
<1> QED
  BY <1>3, <1>4

\* Every status that is written is one of the three.
LEMMA StatusType ==
  ASSUME NEW c, NEW k
  PROVE  status_at(c, k) \in Statuses
BY DEF status_at, Statuses

\* What a request reads or writes consists of contents.
LEMMA DataType ==
  ASSUME NEW r \in Requests, NEW d \in [Sector -> Content]
  PROVE  /\ DataOf(r, d) \in Seq(Content) /\ Len(DataOf(r, d)) = Len(r.data)
         /\ DiskAfter(r, d) \in [Sector -> Content]
<1>1. Len(r.data) \in Nat /\ r.sector \in Nat /\ Sectors \in Nat
  BY RequestIs, BlkConstants
<1>2. r.data \in Seq(Content)
  <2>1. r.data \in Seq(Range(r.data)) /\ \A k \in 1 .. Len(r.data) : r.data[k] \in Content
    BY RequestIs, BlkConstants
  <2> QED
    BY <2>1
<1>3. Id \in Content /\ Nil \in Content
  BY DEF Content
<1>4. ASSUME NEW s \in Sector, \E k \in Buffers(r) : Place(r, k) = s
      PROVE  r.data[CHOOSE k \in Buffers(r) : Place(r, k) = s] \in Content
  <2>1. (CHOOSE k \in Buffers(r) : Place(r, k) = s) \in 1 .. Len(r.data)
    BY <1>4 DEF Buffers
  <2> QED
    BY <2>1, RequestIs
<1>5. DiskAfter(r, d) \in [Sector -> Content]
  BY <1>4 DEF DiskAfter
<1>6. DataOf(r, d) \in Seq(Content) /\ Len(DataOf(r, d)) = Len(r.data)
  <2>1. CASE r.type = "IN"
    <3> DEFINE f == [k \in 1..Len(r.data) |->
                       IF Place(r, k) \in Sector THEN d[Place(r, k)] ELSE Nil]
    <3>1. \A k \in 1 .. Len(r.data) : f[k] \in Content
      BY <1>3
    <3>2. f \in [1 .. Len(r.data) -> Content]
      BY <3>1
    <3>3. DataOf(r, d) = f
      BY <2>1 DEF DataOf, Buffers
    <3> HIDE DEF f
    <3> QED
      BY <1>1, <3>2, <3>3
  <2>2. CASE r.type = "GET_ID"
    <3>1. DataOf(r, d) = [k \in 1..Len(r.data) |-> Id]
      BY <2>2 DEF DataOf, Buffers
    <3> QED
      BY <1>1, <1>3, <3>1
  <2>3. CASE r.type \notin {"IN", "GET_ID"}
    BY <1>2, <2>3 DEF DataOf
  <2> QED
    BY <2>1, <2>2, <2>3
<1> QED
  BY <1>5, <1>6

\* A chain with the status st and the data da.
Filled(c, st, da) ==
    /\ Last(c).buf = st
    /\ [i \in 1 .. Len(c) - 2 |-> c[i + 1].buf] = da

\* The data that the walk leaves in the buffers of r.
LEMMA BufferIs ==
  ASSUME NEW r \in Requests, NEW c, Shape(c, r), NEW i \in 1 .. Len(r.data)
  PROVE  BufferAfter(c, i + 1) = DataOf(r, disk)[i]
<1> DEFINE n == Len(r.data)
<1>1. /\ n \in Nat /\ r.sector \in Nat /\ Sectors \in Nat \ {0}
      /\ r.type = "IN" => r.data[i] = Nil
  BY RequestIs, BlkConstants
<1>2. c[1].buf.type = r.type /\ c[i + 1] = DataDesc(r, i)
  BY DEF Shape, Header
<1>3. c[i + 1].len = 512 /\ c[i + 1].buf = r.data[i]
  BY <1>2 DEF DataDesc, SECTOR_SIZE
<1>4. ~IsStatus(c[i + 1])
  BY <1>3 DEF IsStatus
<1>5. i + 1 \in 2 .. n + 1 /\ i + 1 \in 2 .. n + 2
  BY <1>1
<1>6. CASE Moves(r)
  <2>1. i + 1 \in Segments(c)
    BY <1>5, <1>6, SegmentsIs
  <2>2. sector_at(c, i + 1) = r.sector + ((i + 1) - 2)
    BY <1>5, <1>6, SectorIs
  <2>3. r.sector + ((i + 1) - 2) = r.sector + i - 1
    BY <1>1
  <2>4. /\ InRange(sector_at(c, i + 1)) <=> Place(r, i) \in Sector
        /\ offset(sector_at(c, i + 1)) = Place(r, i)
    BY <2>2, <2>3, PlaceIs
  <2>5. CASE r.type = "IN"
    <3>1. BufferAfter(c, i + 1) = IF InRange(sector_at(c, i + 1))
                                    THEN disk[offset(sector_at(c, i + 1))] ELSE c[i + 1].buf
      BY <1>2, <1>4, <2>1, <2>5 DEF BufferAfter
    <3>2. DataOf(r, disk)[i] = IF Place(r, i) \in Sector THEN disk[Place(r, i)] ELSE Nil
      BY <2>5 DEF DataOf, Buffers
    <3> QED
      BY <1>1, <1>3, <2>4, <2>5, <3>1, <3>2
  <2>6. CASE r.type = "GET_ID"
    <3>1. BufferAfter(c, i + 1) = Id
      BY <1>2, <1>4, <2>1, <2>6 DEF BufferAfter
    <3> QED
      BY <2>6, <3>1 DEF DataOf, Buffers
  <2>7. CASE r.type = "OUT"
    <3>1. BufferAfter(c, i + 1) = c[i + 1].buf
      BY <1>2, <1>4, <2>7 DEF BufferAfter
    <3> QED
      BY <1>3, <2>7, <3>1 DEF DataOf
  <2> QED
    BY <1>6, <2>5, <2>6, <2>7 DEF Moves
<1>7. CASE ~Moves(r)
  <2>1. i + 1 \notin Segments(c)
    BY <1>7, SegmentsIs
  <2>2. BufferAfter(c, i + 1) = c[i + 1].buf
    BY <1>4, <2>1 DEF BufferAfter
  <2>3. DataOf(r, disk) = r.data
    BY <1>7 DEF DataOf, Moves
  <2> QED
    BY <1>3, <2>2, <2>3
<1> QED
  BY <1>6, <1>7

\* The disk that the walk leaves.
LEMMA SectorsAre ==
  ASSUME NEW r \in Requests, NEW c, Shape(c, r), NEW s \in Sector
  PROVE  SectorAfter(c, s) = DiskAfter(r, disk)[s]
<1> DEFINE n == Len(r.data)
           hit == {k \in Segments(c) : offset(sector_at(c, k)) = s}
           x == CHOOSE k \in 1 .. n : Place(r, k) = s
           H == \E k \in 1 .. n : Place(r, k) = s
<1>1. n \in Nat /\ r.sector \in Nat
  BY RequestIs
<1>2. c[1].buf.type = r.type
  BY DEF Shape, Header
<1>3. SectorAfter(c, s) = IF r.type = "OUT" /\ hit # {} THEN c[Min(hit)].buf ELSE disk[s]
  BY <1>2 DEF SectorAfter
<1>4. DiskAfter(r, disk)[s] = IF r.type = "OUT" /\ H THEN r.data[x] ELSE disk[s]
  BY DEF DiskAfter, Buffers
<1>5. CASE r.type # "OUT"
  BY <1>3, <1>4, <1>5
<1>6. CASE r.type = "OUT"
  <2>1. Segments(c) = 2 .. n + 1
    BY <1>6, SegmentsIs DEF Moves
  <2>2. ASSUME NEW k \in 2 .. n + 1
        PROVE  k - 1 \in 1 .. n /\ offset(sector_at(c, k)) = Place(r, k - 1)
    <3>1. k \in 2 .. n + 2 /\ k - 1 \in 1 .. n /\ r.sector + (k - 2) = r.sector + (k - 1) - 1
      BY <1>1
    <3>2. sector_at(c, k) = r.sector + (k - 2)
      BY <1>6, <3>1, SectorIs DEF Moves
    <3> QED
      BY <3>1, <3>2, PlaceIs
  <2>3. CASE H
    <3>1. x \in 1 .. n /\ Place(r, x) = s
      BY <2>3
    <3> HIDE DEF x
    <3>2. x + 1 \in 2 .. n + 1 /\ (x + 1) - 1 = x
      BY <1>1, <3>1
    <3>3. x + 1 \in hit
      BY <2>1, <2>2, <3>1, <3>2
    <3>4. ASSUME NEW k \in hit PROVE k = x + 1
      <4>1. k \in 2 .. n + 1 /\ k - 1 \in 1 .. n /\ Place(r, k - 1) = s
        BY <2>1, <2>2
      <4>2. k - 1 = x
        BY <3>1, <4>1, PlacesDiffer
      <4> QED
        BY <3>1, <4>1, <4>2
    <3>5. hit = {x + 1}
      BY <3>3, <3>4
    <3>6. Min({x + 1}) = x + 1
      BY <3>1 DEF Min
    <3>7. c[x + 1] = DataDesc(r, x)
      BY <3>1 DEF Shape
    <3>8. c[x + 1].buf = r.data[x]
      BY <3>7 DEF DataDesc
    <3> HIDE DEF hit, H
    <3> QED
      BY <1>3, <1>4, <1>6, <2>3, <3>5, <3>6, <3>8
  <2>4. CASE ~H
    <3>1. hit = {}
      <4> SUFFICES ASSUME NEW k \in hit PROVE FALSE
        OBVIOUS
      <4> QED
        BY <2>1, <2>2, <2>4
    <3> HIDE DEF hit, H
    <3> QED
      BY <1>3, <1>4, <2>4, <3>1
  <2> QED
    BY <2>3, <2>4
<1> QED
  BY <1>5, <1>6

\* process_request does what the driver asked for.
Carried(r, e) ==
    /\ e.chain \in Chain /\ Len(e.chain) = Len(Build(r))
    /\ Filled(e.chain, ExpectedStatus(r), DataOf(r, disk))
    /\ e.disk = DiskAfter(r, disk) /\ e.written = 1

\* The whole of process_request on a chain the driver built.
LEMMA ProcessIs ==
  ASSUME NEW r \in Requests, disk \in [Sector -> Content]
  PROVE  Carried(r, process_request(Build(r)))
<1> DEFINE c == Build(r)
           n == Len(r.data)
           g == [k \in DOMAIN c |-> [c[k] EXCEPT !.buf = BufferAfter(c, k)]]
           e == process_request(c)
<1>1. c \in Chain /\ Shape(c, r) /\ n \in Nat
  BY BuildIs, RequestIs
<1>2. e.chain = g /\ e.disk = [s \in Sector |-> SectorAfter(c, s)] /\ e.written = 1
  BY DEF process_request
<1> HIDE DEF c, e
<1>3. Len(c) = n + 2 /\ c \in Seq(Desc) /\ DOMAIN c = 1 .. n + 2
  BY <1>1 DEF Shape, Chain
<1>4. e.disk = DiskAfter(r, disk)
  <2>1. \A s \in Sector : SectorAfter(c, s) = DiskAfter(r, disk)[s]
    BY <1>1, SectorsAre
  <2>2. DiskAfter(r, disk) = [s \in Sector |-> DiskAfter(r, disk)[s]]
    BY DEF DiskAfter
  <2> QED
    BY <1>2, <2>1, <2>2
<1>5. \A k \in 1 .. n + 2 : g[k] = [c[k] EXCEPT !.buf = BufferAfter(c, k)]
  BY <1>3
<1>6. BufferAfter(c, n + 2) = ExpectedStatus(r)
  <2>1. IsStatus(c[n + 2])
    BY <1>1 DEF Shape, IsStatus
  <2>0. n + 2 \notin Segments(c)
    <3>1. Segments(c) \subseteq 2 .. n + 1 /\ n + 2 \notin 2 .. n + 1
      BY <1>1, SegmentsIs
    <3> QED
      BY <3>1
  <2>2. BufferAfter(c, n + 2) = status_at(c, n + 2)
    BY <2>0, <2>1 DEF BufferAfter
  <2> QED
    BY <1>1, <2>2, StatusIs
<1>7. \A i \in 1 .. n : BufferAfter(c, i + 1) = DataOf(r, disk)[i]
  BY <1>1, BufferIs
<1>8. BufferAfter(c, 1) = Header(r)
  <2>1. c[1].len = 16 /\ c[1].buf = Header(r)
    BY <1>1 DEF Shape
  <2>2. ~IsStatus(c[1])
    BY <2>1 DEF IsStatus
  <2>3. 1 \notin Segments(c)
    BY <1>1, SegmentsIs
  <2> QED
    BY <2>1, <2>2, <2>3 DEF BufferAfter
<1>9. \A k \in 1 .. n + 2 : BufferAfter(c, k) \in Content
  <2> SUFFICES ASSUME NEW k \in 1 .. n + 2 PROVE BufferAfter(c, k) \in Content
    OBVIOUS
  <2>1. CASE k = 1
    BY <1>8, <2>1 DEF Content
  <2>2. CASE k = n + 2
    <3>1. ExpectedStatus(r) \in Statuses
      BY <1>1, StatusIs, StatusType
    <3> QED
      BY <1>6, <2>2, <3>1 DEF Content
  <2>3. CASE k # 1 /\ k # n + 2
    <3>1. k - 1 \in 1 .. n /\ (k - 1) + 1 = k
      BY <1>1, <2>3
    <3>2. DataOf(r, disk)[k - 1] \in Content
      BY <3>1, DataType
    <3> QED
      BY <1>7, <3>1, <3>2
  <2> QED
    BY <2>1, <2>2, <2>3
<1>10. \A k \in 1 .. n + 2 : g[k] \in Desc /\ g[k].buf = BufferAfter(c, k)
  <2> DEFINE W(d, x) == [d EXCEPT !.buf = x]
  <2>1. \A d \in Desc : \A x \in Content : W(d, x) \in Desc /\ W(d, x).buf = x
    BY DEF Desc
  <2>2. \A k \in 1 .. n + 2 : g[k] = W(c[k], BufferAfter(c, k))
    BY <1>5
  <2>3. \A k \in 1 .. n + 2 : c[k] \in Desc
    BY <1>3
  <2> HIDE DEF g, W
  <2> QED
    BY <1>9, <2>1, <2>2, <2>3
<1>11. g \in Seq(Desc) /\ Len(g) = n + 2
  <2>1. g = [k \in 1 .. n + 2 |-> g[k]]
    BY <1>3
  <2> HIDE DEF g
  <2>2. g \in [1 .. n + 2 -> Desc]
    BY <1>10, <2>1
  <2> QED
    BY <1>1, <2>2
<1> HIDE DEF g
<1>12. g \in Chain
  BY <1>1, <1>11 DEF Chain
<1>13. Filled(g, ExpectedStatus(r), DataOf(r, disk))
  <2>1. Last(g).buf = ExpectedStatus(r)
    BY <1>1, <1>6, <1>10, <1>11 DEF Last
  <2>2. Len(g) - 2 = n
    BY <1>1, <1>11
  <2>3. \A i \in 1 .. n : g[i + 1].buf = DataOf(r, disk)[i]
    BY <1>1, <1>7, <1>10
  <2>4. DataOf(r, disk) = [i \in 1 .. n |-> DataOf(r, disk)[i]]
    BY <1>1, DataType
  <2>5. [i \in 1 .. n |-> g[i + 1].buf] = DataOf(r, disk)
    BY <2>3, <2>4
  <2> QED
    BY <2>1, <2>2, <2>5 DEF Filled
<1>14. Carried(r, e)
  BY <1>2, <1>3, <1>4, <1>11, <1>12, <1>13 DEF Carried, c
<1> QED
  BY <1>14 DEF e, c

-----------------------------------------------------------------------------
(* Descriptors in use. *)

LengthStep(f, d, n) == Len(f[d]) + n
AnyOf(S) == CHOOSE x \in S : TRUE
Total == INSTANCE ListLemmas WITH step <- LengthStep, pick <- AnyOf

Lengths(f) == Total!Fold(f, 0, DescIndex)
Table == [DescIndex -> Chain \cup {<< >>}]

\* The descriptors in use (InUse of the model) are the sum over the table.
LEMMA InUseIsFold ==
  ASSUME NEW f, DOMAIN f = DescIndex
  PROVE  FoldFunction(LAMBDA c, n : Len(c) + n, 0, f) = Lengths(f)
  BY DEF FoldFunction, FoldFunctionOnSet, MapThenFoldSet, Lengths, Total!Fold, LengthStep, AnyOf

\* There are finitely many descriptors.
LEMMA DescFinite ==
  /\ IsFiniteSet(DescIndex) /\ Cardinality(DescIndex) = Num
  /\ Total!IsFiniteSet(DescIndex) /\ Total!Picks(DescIndex)
<1>1. IsFiniteSet(DescIndex) /\ Cardinality(DescIndex) = Num
  <2>1. 0 \in Int /\ Num - 1 \in Int /\ 0 <= Num - 1 /\ (Num - 1) - 0 + 1 = Num
    BY VirtqueueConstants
  <2>2. IsFiniteSet(0 .. Num - 1) /\ Cardinality(0 .. Num - 1) = (Num - 1) - 0 + 1
    BY ONLY <2>1, FS_Interval
  <2> QED
    BY <2>1, <2>2 DEF DescIndex
<1>2. Total!IsFiniteSet(DescIndex)
  BY <1>1 DEF IsFiniteSet, Total!IsFiniteSet
<1>3. Total!Picks(DescIndex)
  BY DEF Total!Picks, AnyOf
<1> QED
  BY <1>1, <1>2, <1>3

\* An entry of the table is empty or a chain, so its length is a number.
LEMMA TableEntry ==
  ASSUME NEW f \in Table, NEW d \in DescIndex
  PROVE  /\ Len(f[d]) \in Nat /\ (f[d] = << >> \/ Len(f[d]) >= 2)
         /\ f[d] = << >> => Len(f[d]) = 0
<1>1. f[d] \in Chain \/ f[d] = << >>
  BY DEF Table
<1> QED
  BY <1>1 DEF Chain

\* The fold over any set of descriptors is defined.
LEMMA SubsetFolds ==
  ASSUME NEW s \in SUBSET DescIndex
  PROVE  Total!IsFiniteSet(s) /\ Total!Picks(s) /\ IsFiniteSet(s)
<1>1. IsFiniteSet(s)
  BY DescFinite, FS_Subset
<1> QED
  BY <1>1, DescFinite DEF Total!Picks, IsFiniteSet, Total!IsFiniteSet

\* Sums of lengths are natural numbers.
LEMMA LengthsNatural ==
  ASSUME NEW f \in Table, NEW s \in SUBSET DescIndex
  PROVE  Total!Fold(f, 0, s) \in Nat
<1> DEFINE K == [t \in SUBSET s |-> Nat]
<1>1. 0 \in K[{}]
  OBVIOUS
<1>2. \A t \in SUBSET s : t # {} => \A c \in K[t \ {AnyOf(t)}] : LengthStep(f, AnyOf(t), c) \in K[t]
  <2> SUFFICES ASSUME NEW t \in SUBSET s, t # {}, NEW c \in Nat
               PROVE  LengthStep(f, AnyOf(t), c) \in Nat
    OBVIOUS
  <2>1. AnyOf(t) \in DescIndex
    BY DEF AnyOf
  <2> QED
    BY <2>1, TableEntry DEF LengthStep
<1> HIDE DEF K
<1>3. Total!Fold(f, 0, s) \in K[s]
  BY <1>1, <1>2, SubsetFolds, Total!FoldInduction
<1> QED
  BY <1>3 DEF K

Replaced(f, d, w) == [f EXCEPT ![d] = w]

\* Replacing one chain changes the sum by the difference of the lengths.
LEMMA LengthsChange ==
  ASSUME NEW f \in Table, NEW d \in DescIndex, NEW w, w \in Chain \/ w = << >>,
         NEW g, g = Replaced(f, d, w)
  PROVE  Lengths(f) \in Nat /\ Lengths(g) = Lengths(f) + Len(w) - Len(f[d])
<1> DEFINE I == [s \in SUBSET DescIndex |->
                   {Total!Fold(f, 0, s) + (IF d \in s THEN Len(w) - Len(f[d]) ELSE 0)}]
<1>1. \A s \in SUBSET DescIndex : Total!Fold(f, 0, s) \in Nat
  BY LengthsNatural
<1>2. 0 \in I[{}]
  <2>1. Total!Fold(f, 0, {}) = 0
    BY Total!FoldEmpty
  <2> QED
    BY <2>1
<1>3. Len(w) \in Nat /\ g \in Table /\ Len(f[d]) \in Nat
  <2>1. g \in Table /\ g[d] = w
    BY DEF Table, Replaced
  <2> QED
    BY <2>1, TableEntry
<1>4. ASSUME NEW s \in SUBSET DescIndex, s # {}, NEW c \in I[s \ {AnyOf(s)}]
      PROVE  LengthStep(g, AnyOf(s), c) \in I[s]
  <2> DEFINE x == AnyOf(s)
             t == s \ {x}
  <2>1. x \in s /\ x \in DescIndex /\ t \in SUBSET DescIndex
    BY <1>4 DEF AnyOf
  <2>2. Total!Fold(f, 0, s) = LengthStep(f, x, Total!Fold(f, 0, t))
    BY <1>4, SubsetFolds, Total!FoldStep
  <2>3. c = Total!Fold(f, 0, t) + (IF d \in t THEN Len(w) - Len(f[d]) ELSE 0)
    BY <1>4, <2>1
  <2>4. d \in t <=> (d \in s /\ d # x)
    OBVIOUS
  <2>5. Len(g[x]) = IF x = d THEN Len(w) ELSE Len(f[x])
    BY <2>1 DEF Table, Replaced
  <2>6. Total!Fold(f, 0, t) \in Nat /\ Len(f[x]) \in Nat
    BY <1>1, <2>1, TableEntry
  <2> HIDE DEF x, t
  <2>7. LengthStep(g, x, c) = Total!Fold(f, 0, s) + (IF d \in s THEN Len(w) - Len(f[d]) ELSE 0)
    <3> DEFINE total == Total!Fold(f, 0, t)
               lw == Len(w)
               ld == Len(f[d])
               lx == Len(f[x])
    <3>1. LengthStep(g, x, c) = Len(g[x]) + c /\ Total!Fold(f, 0, s) = lx + total
      BY <2>2 DEF LengthStep
    <3>2. /\ total \in Nat /\ lw \in Nat /\ ld \in Nat /\ lx \in Nat /\ (x = d => lx = ld)
          /\ c = total + (IF d \in t THEN lw - ld ELSE 0)
          /\ Len(g[x]) = IF x = d THEN lw ELSE lx
      BY <1>3, <2>3, <2>5, <2>6
    <3> HIDE DEF total, lw, ld, lx
    <3>3. Len(g[x]) + c = (lx + total) + (IF d \in s THEN lw - ld ELSE 0)
      <4>1. CASE x = d
        BY <2>1, <2>4, <3>2, <4>1
      <4>2. CASE x # d
        BY <2>1, <2>4, <3>2, <4>2
      <4> QED
        BY <4>1, <4>2
    <3> QED
      BY <3>1, <3>3 DEF lw, ld
  <2> QED
    BY <2>7 DEF x
<1>5. Total!Fold(g, 0, DescIndex) \in I[DescIndex]
  <2> HIDE DEF I
  <2> QED
    BY <1>2, <1>4, DescFinite, Total!FoldInduction
<1>6. Total!Fold(g, 0, DescIndex) = Total!Fold(f, 0, DescIndex) + (Len(w) - Len(f[d]))
  BY <1>5
<1>7. Lengths(f) \in Nat /\ Lengths(g) = Lengths(f) + (Len(w) - Len(f[d]))
  BY <1>1, <1>6 DEF Lengths
<1> QED
  BY <1>3, <1>7

\* Every chain takes two descriptors or more.
Occupied(f, s) == {d \in s : f[d] # << >>}

\* So the sum is at least twice the number of chains.
LEMMA LengthsBound ==
  ASSUME NEW f \in Table
  PROVE  /\ Lengths(f) >= 2 * Cardinality(Occupied(f, DescIndex))
         /\ IsFiniteSet(Occupied(f, DescIndex)) /\ Cardinality(Occupied(f, DescIndex)) \in Nat
<1> DEFINE I == [s \in SUBSET DescIndex |->
                   {n \in Nat : n >= 2 * Cardinality(Occupied(f, s))}]
<1>1. 0 \in I[{}]
  <2>1. Occupied(f, {}) = {}
    BY DEF Occupied
  <2>2. Cardinality(Occupied(f, {})) = 0
    BY <2>1, FS_EmptySet
  <2> QED
    BY <2>2
<1>0. ASSUME NEW s \in SUBSET DescIndex
      PROVE  IsFiniteSet(Occupied(f, s)) /\ Cardinality(Occupied(f, s)) \in Nat
  <2>1. Occupied(f, s) \subseteq DescIndex
    BY DEF Occupied
  <2> QED
    BY <2>1, DescFinite, FS_Subset, FS_CardinalityType
<1>2. ASSUME NEW s \in SUBSET DescIndex, s # {}, NEW c \in I[s \ {AnyOf(s)}]
      PROVE  LengthStep(f, AnyOf(s), c) \in I[s]
  <2> DEFINE x == AnyOf(s)
             t == s \ {x}
  <2>1. x \in s /\ x \in DescIndex /\ t \in SUBSET DescIndex
    BY <1>2 DEF AnyOf
  <2>2. c \in Nat /\ c >= 2 * Cardinality(Occupied(f, t))
    BY <1>2, <2>1
  <2>3. Len(f[x]) \in Nat /\ (f[x] = << >> \/ Len(f[x]) >= 2)
    BY <2>1, TableEntry
  <2>4. Cardinality(Occupied(f, t)) \in Nat /\ IsFiniteSet(Occupied(f, t))
    BY <1>0, <2>1
  <2>5. CASE f[x] = << >>
    <3>1. Occupied(f, s) = Occupied(f, t)
      BY <2>5 DEF Occupied
    <3>2. LengthStep(f, x, c) \in Nat /\ LengthStep(f, x, c) >= c
      BY <2>2, <2>3 DEF LengthStep
    <3> HIDE DEF x, t
    <3>3. LengthStep(f, x, c) >= 2 * Cardinality(Occupied(f, s))
      BY <2>2, <2>4, <3>1, <3>2
    <3> QED
      BY <3>2, <3>3 DEF x
  <2>6. CASE f[x] # << >>
    <3>1. Occupied(f, s) = Occupied(f, t) \cup {x} /\ x \notin Occupied(f, t)
      BY <2>1, <2>6 DEF Occupied
    <3>2. Cardinality(Occupied(f, s)) = Cardinality(Occupied(f, t)) + 1
      BY <2>4, <3>1, FS_AddElement
    <3>3. LengthStep(f, x, c) \in Nat /\ LengthStep(f, x, c) >= c + 2
      BY <2>2, <2>3, <2>6 DEF LengthStep
    <3> HIDE DEF x, t
    <3>4. LengthStep(f, x, c) >= 2 * Cardinality(Occupied(f, s))
      BY <2>2, <2>4, <3>2, <3>3
    <3> QED
      BY <3>3, <3>4 DEF x
  <2> QED
    BY <2>5, <2>6
<1>3. Total!Fold(f, 0, DescIndex) \in I[DescIndex]
  <2> HIDE DEF I
  <2> QED
    BY <1>1, <1>2, DescFinite, Total!FoldInduction
<1>4. Lengths(f) >= 2 * Cardinality(Occupied(f, DescIndex))
  BY <1>3 DEF Lengths
<1> QED
  BY <1>0, <1>4

\* With room for a chain there is a free head, and the indexes of the ring stay
\* apart although they may be no wider than the ring is long.
LEMMA RoomForChain ==
  ASSUME NEW la, NEW m, NEW l, QueueOK(la, m, l, Chain), NEW n \in Nat, n >= 2,
         Lengths(m.chain) + n <= Num
  PROVE  /\ Outstanding(m, l) + 1 < IDX_MODULUS
         /\ \E d \in DescIndex : m.chain[d] = << >>
<1> DEFINE o == Outstanding(m, l)
           B == Occupied(m.chain, DescIndex)
           f == [k \in 1 .. o |-> HeadAt(m, l, k)]
<1>1. /\ m \in Ring(Chain) /\ l \in Index /\ o \in Nat /\ Num \in Nat \ {0}
      /\ IDX_MODULUS \in Nat \ {0}
  BY DistanceIs, VirtqueueConstants DEF QueueOK, Ring, Outstanding
<1>2. m.chain \in Table
  BY <1>1 DEF Ring, Table
<1>3. IsFiniteSet(B) /\ Cardinality(B) \in Nat /\ Lengths(m.chain) >= 2 * Cardinality(B)
  BY <1>2, LengthsBound
<1>4. Lengths(m.chain) \in Nat
  BY <1>2, LengthsNatural DEF Lengths
<1>5. Cardinality(B) + 1 < Num
  <2>1. 2 * Cardinality(B) + 2 <= Num
    BY <1>1, <1>3, <1>4
  <2> QED
    BY <1>1, <1>3, <2>1
<1>6. f \in Injection(1 .. o, B)
  <2>1. \A k \in 1 .. o : HeadAt(m, l, k) \in B
    <3> SUFFICES ASSUME NEW k \in 1 .. o PROVE HeadAt(m, l, k) \in B
      OBVIOUS
    <3>1. m.chain[HeadAt(m, l, k)] \in Chain
      BY DEF QueueOK
    <3>2. HeadAt(m, l, k) \in DescIndex
      BY <1>1, SlotIs DEF HeadAt, Ring
    <3>3. << >> \notin Chain
      BY DEF Chain
    <3> QED
      BY <3>1, <3>2, <3>3 DEF Occupied
  <2> HIDE DEF B
  <2>2. f \in [1 .. o -> B]
    BY <2>1
  <2>3. \A j, k \in 1 .. o : f[j] = f[k] => j = k
    BY DEF QueueOK
  <2> QED
    BY <2>2, <2>3 DEF Injection, IsInjective
<1>7. Cardinality(1 .. o) = o /\ IsFiniteSet(1 .. o)
  BY <1>1, FS_Interval
<1>8. o <= Cardinality(B)
  BY <1>3, <1>6, <1>7, FS_Injection
<1>9. Num <= IDX_MODULUS
  <2>1. PICK q \in Nat : IDX_MODULUS = q * Num
    <3>1. IDX_MODULUS \div Num \in Nat /\ IDX_MODULUS = (IDX_MODULUS \div Num) * Num + (IDX_MODULUS % Num)
      BY <1>1, Division
    <3>2. IDX_MODULUS % Num = 0
      BY VirtqueueConstants
    <3>3. \A q \in Nat : IDX_MODULUS = q * Num + 0 => IDX_MODULUS = q * Num
      BY <1>1
    <3> QED
      BY <3>1, <3>2, <3>3
  <2>2. 0 < q
    BY <1>1, <2>1
  <2>3. 0 * Num + Num <= q * Num
    BY <1>1, <2>2, Product
  <2> QED
    BY <1>1, <2>1, <2>3
<1>10. o + 1 < IDX_MODULUS
  BY <1>1, <1>3, <1>5, <1>8, <1>9
<1>11. \E d \in DescIndex : m.chain[d] = << >>
  <2> SUFFICES ASSUME \A d \in DescIndex : m.chain[d] # << >> PROVE FALSE
    OBVIOUS
  <2>1. B = DescIndex
    BY DEF Occupied
  <2> QED
    BY <1>3, <1>5, <2>1, DescFinite, VirtqueueConstants
<1> QED
  BY <1>10, <1>11

-----------------------------------------------------------------------------
(* The queue and what is pending. *)

Ticket == [head : DescIndex, status : Statuses, data : Seq(Content)]

\* The driver's list names the chains outstanding, in the order of the ring.
Tracked(m, l, pend) ==
    /\ pend \in Seq(Ticket) /\ Len(pend) = Outstanding(m, l)
    /\ \A k \in 1 .. Outstanding(m, l) : pend[k].head = HeadAt(m, l, k)

\* The chains that are done hold what was expected.
Finished(m, l, pend) ==
    \A k \in 1 .. Used(m, l) : Filled(m.chain[pend[k].head], pend[k].status, pend[k].data)

\* The chains still to be done lead, one after the other, from the disk dk over
\* disks D to sh, and what the driver expects of each is what it will find.
Due(p, c, d, d2) ==
    \E r \in Requests :
        /\ c = Build(r) /\ p.status = ExpectedStatus(r)
        /\ p.data = DataOf(r, d) /\ d2 = DiskAfter(r, d)
Course(m, l, pend, D) ==
    \A k \in Used(m, l) + 1 .. Outstanding(m, l) :
        Due(pend[k], m.chain[pend[k].head], D[k - 1], D[k])
Planned(m, l, pend, dk, sh) ==
    \E D : D[Used(m, l)] = dk /\ D[Outstanding(m, l)] = sh /\ Course(m, l, pend, D)

Sound(la, m, l, pend, dk, sh) ==
    /\ QueueOK(la, m, l, Chain)
    /\ Lengths(m.chain) <= Num
    /\ Tracked(m, l, pend)
    /\ Finished(m, l, pend)
    /\ Planned(m, l, pend, dk, sh)

\* What a well-formed queue says of the counts and heads in it.
LEMMA Numbers ==
  ASSUME NEW la, NEW m, NEW l, QueueOK(la, m, l, Chain)
  PROVE  /\ m \in Ring(Chain) /\ l \in Index /\ la = m.used_idx /\ m.chain \in Table
         /\ m.used_idx \in Index /\ m.avail_idx \in Index
         /\ Used(m, l) \in Nat /\ Outstanding(m, l) \in Nat /\ Used(m, l) <= Outstanding(m, l)
         /\ Num \in Nat /\ Lengths(m.chain) \in Nat
         /\ \A k \in 1 .. Outstanding(m, l) : HeadAt(m, l, k) \in DescIndex
<1>1. m \in Ring(Chain) /\ l \in Index /\ la = m.used_idx
  BY DEF QueueOK
<1>2. m.chain \in Table /\ m.used_idx \in Index /\ m.avail_idx \in Index
  BY <1>1 DEF Ring, Table
<1>3. Used(m, l) \in Nat /\ Outstanding(m, l) \in Nat /\ Used(m, l) <= Outstanding(m, l)
  BY <1>1, <1>2, DistanceIs DEF QueueOK, Used, Outstanding
<1>4. \A k \in 1 .. Outstanding(m, l) : HeadAt(m, l, k) \in DescIndex
  BY <1>1, <1>3, SlotIs DEF HeadAt, Ring
<1>5. Num \in Nat /\ Lengths(m.chain) \in Nat
  BY <1>2, LengthsNatural, VirtqueueConstants DEF Lengths
<1> QED
  BY <1>1, <1>2, <1>3, <1>4, <1>5

\* One iteration of the device's loop.
LEMMA ServeKeeps ==
  ASSUME NEW la, NEW m, NEW l, NEW pend, NEW sh, Sound(la, m, l, pend, disk, sh),
         disk \in [Sector -> Content], la # m.avail_idx,
         NEW h, h = m.avail_ring[ring_slot(la)],
         NEW e, e = process_request(m.chain[h]),
         NEW m1, m1 = [m EXCEPT !.chain[h] = e.chain],
         NEW m2, m2 = virtq_push(m1, h, e.written)
  PROVE  Sound(next_idx(la), m2, l, pend, e.disk, sh) /\ e.disk \in [Sector -> Content]
<1> DEFINE u == Used(m, l)
           o == Outstanding(m, l)
<1>1. QueueOK(la, m, l, Chain) /\ Tracked(m, l, pend) /\ Lengths(m.chain) <= Num /\ Finished(m, l, pend)
  BY DEF Sound
<1>2. /\ u \in Nat /\ o \in Nat /\ u + 1 <= o /\ m.chain \in Table
      /\ \A k \in 1 .. o : HeadAt(m, l, k) \in DescIndex
  BY <1>1, Numbers, NextChain
<1>3. h = HeadAt(m, l, u + 1) /\ h \in DescIndex
  BY <1>1, NextChain
<1>4. u + 1 \in 1 .. o /\ u + 1 \in u + 1 .. o /\ (u + 1) - 1 = u
  BY <1>2
<1>5. pend[u + 1].head = h
  BY <1>1, <1>3, <1>4 DEF Tracked
<1>6. PICK D : D[u] = disk /\ D[o] = sh /\ Course(m, l, pend, D)
  BY DEF Sound, Planned
<1>7. Due(pend[u + 1], m.chain[h], disk, D[u + 1])
  BY <1>4, <1>5, <1>6 DEF Course
<1>8. PICK r \in Requests : /\ m.chain[h] = Build(r) /\ pend[u + 1].status = ExpectedStatus(r)
                            /\ pend[u + 1].data = DataOf(r, disk) /\ D[u + 1] = DiskAfter(r, disk)
  BY <1>7 DEF Due
<1>9. Carried(r, e)
  BY <1>8, ProcessIs
<1>10. /\ e.chain \in Chain /\ Len(e.chain) = Len(m.chain[h]) /\ e.written = 1 /\ e.disk = D[u + 1]
       /\ Filled(e.chain, pend[u + 1].status, pend[u + 1].data)
  BY <1>8, <1>9 DEF Carried
<1>11. QueueOK(la, m1, l, Chain) /\ Refilled(m, m1, l, h, e.chain)
  BY <1>1, <1>3, <1>10, RefillKeeps
<1>12. la # m1.avail_idx /\ h = m1.avail_ring[ring_slot(la)] /\ e.written \in Nat
  BY <1>10, <1>11, SMTT(20) DEF Refilled
<1>13. QueueOK(next_idx(la), m2, l, Chain) /\ Pushed(m1, m2, l, h, e.written)
  BY <1>11, <1>12, PushKeeps
<1>14. /\ m2.chain = [m.chain EXCEPT ![h] = e.chain] /\ m2.avail_idx = m.avail_idx
       /\ m2.avail_ring = m.avail_ring /\ Used(m2, l) = u + 1
  BY <1>11, <1>13 DEF Refilled, Pushed
<1>15. Outstanding(m2, l) = o /\ \A k : HeadAt(m2, l, k) = HeadAt(m, l, k)
  BY <1>14 DEF Outstanding, HeadAt
<1>16. Lengths(m2.chain) <= Num
  <2>0. m2.chain = Replaced(m.chain, h, e.chain)
    BY <1>14 DEF Replaced
  <2>1. Lengths(m2.chain) = Lengths(m.chain) + Len(e.chain) - Len(m.chain[h])
    BY <1>2, <1>3, <1>10, <2>0, LengthsChange
  <2>2. Len(m.chain[h]) \in Nat /\ Lengths(m.chain) \in Nat
    BY <1>1, <1>2, <1>3, TableEntry, Numbers
  <2>3. Len(e.chain) = Len(m.chain[h]) /\ Lengths(m.chain) <= Num /\ Num \in Nat
    BY <1>1, <1>10, VirtqueueConstants
  <2> QED
    BY ONLY <2>1, <2>2, <2>3
<1>17. Tracked(m2, l, pend)
  BY <1>1, <1>15 DEF Tracked
<1>18. \A k \in 1 .. o : pend[k].head \in DescIndex /\ (pend[k].head = h => k = u + 1)
  <2>1. \A k \in 1 .. o : pend[k].head = HeadAt(m, l, k)
    BY <1>1 DEF Tracked
  <2>2. \A j, k \in 1 .. o : HeadAt(m, l, j) = HeadAt(m, l, k) => j = k
    BY <1>1 DEF QueueOK
  <2> QED
    BY <1>2, <1>3, <1>4, <2>1, <2>2
<1>19. \A k \in 1 .. o : k # u + 1 => m2.chain[pend[k].head] = m.chain[pend[k].head]
  BY <1>2, <1>14, <1>18 DEF Table
<1>20. m2.chain[h] = e.chain
  BY <1>2, <1>3, <1>14 DEF Table
<1>21. Finished(m2, l, pend)
  <2> SUFFICES ASSUME NEW k \in 1 .. u + 1
               PROVE  Filled(m2.chain[pend[k].head], pend[k].status, pend[k].data)
    BY <1>14 DEF Finished
  <2>1. CASE k = u + 1
    BY <1>5, <1>10, <1>20, <2>1
  <2>2. CASE k # u + 1
    <3>1. k \in 1 .. u /\ k \in 1 .. o
      BY <1>2, <2>2
    <3> QED
      BY <1>1, <1>19, <2>2, <3>1 DEF Finished
  <2> QED
    BY <2>1, <2>2
<1>22. Planned(m2, l, pend, e.disk, sh)
  <2>1. Course(m2, l, pend, D)
    <3> SUFFICES ASSUME NEW k \in (u + 1) + 1 .. o
                 PROVE  Due(pend[k], m2.chain[pend[k].head], D[k - 1], D[k])
      BY <1>14, <1>15 DEF Course
    <3>1. k \in u + 1 .. o /\ k \in 1 .. o /\ k # u + 1
      BY <1>2
    <3>2. Due(pend[k], m.chain[pend[k].head], D[k - 1], D[k])
      BY <1>6, <3>1 DEF Course
    <3> QED
      BY <1>19, <3>1, <3>2
  <2>2. D[Used(m2, l)] = e.disk /\ D[Outstanding(m2, l)] = sh
    BY <1>6, <1>10, <1>14, <1>15
  <2> QED
    BY <2>1, <2>2, Zenon DEF Planned
<1>23. e.disk \in [Sector -> Content]
  BY <1>8, <1>10, DataType
<1> QED
  BY <1>13, <1>16, <1>17, <1>21, <1>22, <1>23 DEF Sound

\* The driver publishes a chain for r at a free head.
TicketOf(h, r, d) == [head |-> h, status |-> ExpectedStatus(r), data |-> DataOf(r, d)]

\* Publishing keeps queue, pending list and plan together.
LEMMA PublishSound ==
  ASSUME NEW la, NEW m, NEW l, NEW pend, NEW dk, NEW sh, Sound(la, m, l, pend, dk, sh),
         sh \in [Sector -> Content], NEW r \in Requests,
         Lengths(m.chain) + Len(Build(r)) <= Num,
         NEW h \in DescIndex, m.chain[h] = << >>,
         NEW m2, m2 = Published(m, h, Build(r)),
         NEW pend2, pend2 = Append(pend, TicketOf(h, r, sh))
  PROVE  Sound(la, m2, l, pend2, dk, DiskAfter(r, sh))
<1> DEFINE u == Used(m, l)
           o == Outstanding(m, l)
           p == TicketOf(h, r, sh)
           c == Build(r)
<1>1. QueueOK(la, m, l, Chain) /\ Tracked(m, l, pend) /\ Finished(m, l, pend)
  BY DEF Sound
<1>2. /\ u \in Nat /\ o \in Nat /\ u <= o /\ m.chain \in Table /\ Lengths(m.chain) \in Nat
      /\ \A k \in 1 .. o : HeadAt(m, l, k) \in DescIndex
  BY <1>1, Numbers
<1>3. c \in Chain /\ Len(c) \in Nat /\ Len(c) >= 2 /\ << >> \notin Chain
  BY BuildIs DEF Chain
<1>4. o + 1 < IDX_MODULUS
  BY <1>1, <1>3, RoomForChain
<1>5. QueueOK(la, m2, l, Chain) /\ Extended(m, m2, l) /\ Newest(m, m2, l, h, c)
  BY <1>1, <1>3, <1>4, PublishAdds
<1>6. /\ Used(m2, l) = u /\ Outstanding(m2, l) = o + 1 /\ HeadAt(m2, l, o + 1) = h
      /\ m2.chain = [m.chain EXCEPT ![h] = c]
      /\ \A k \in 1 .. o : /\ HeadAt(m2, l, k) = HeadAt(m, l, k)
                           /\ m2.chain[HeadAt(m, l, k)] = m.chain[HeadAt(m, l, k)]
  BY <1>5 DEF Extended, Newest
<1>7. Lengths(m2.chain) <= Num
  <2>0. m2.chain = Replaced(m.chain, h, c)
    BY <1>6 DEF Replaced
  <2>1. Lengths(m2.chain) = Lengths(m.chain) + Len(c) - Len(m.chain[h])
    BY <1>2, <1>3, <2>0, LengthsChange
  <2>2. Len(m.chain[h]) = 0
    OBVIOUS
  <2> QED
    BY <1>2, <1>3, <2>1, <2>2
<1>8. p \in Ticket
  <2>1. ExpectedStatus(r) \in Statuses
    BY DEF ExpectedStatus, Statuses
  <2>2. DataOf(r, sh) \in Seq(Content)
    BY DataType
  <2> QED
    BY <2>1, <2>2 DEF Ticket, TicketOf
<1>9. pend \in Seq(Ticket) /\ Len(pend) = o /\ \A k \in 1 .. o : pend[k].head = HeadAt(m, l, k)
  BY <1>1 DEF Tracked
<1> HIDE DEF p
<1>10. /\ pend2 \in Seq(Ticket) /\ Len(pend2) = o + 1 /\ pend2[o + 1] = p
       /\ \A k \in 1 .. o : pend2[k] = pend[k]
  BY <1>2, <1>8, <1>9 DEF p
<1>11. p.head = h /\ p.status = ExpectedStatus(r) /\ p.data = DataOf(r, sh)
  BY DEF p, TicketOf
<1>12. \A k \in 1 .. o + 1 : k = o + 1 \/ k \in 1 .. o
  BY <1>2
<1>13. Tracked(m2, l, pend2)
  BY <1>6, <1>9, <1>10, <1>11, <1>12 DEF Tracked
<1>14. \A k \in 1 .. o : m2.chain[pend2[k].head] = m.chain[pend[k].head]
  BY <1>6, <1>9, <1>10
<1>15. Finished(m2, l, pend2)
  <2>1. \A k \in 1 .. u : k \in 1 .. o
    BY <1>2
  <2> QED
    BY <1>1, <1>6, <1>10, <1>14, <2>1 DEF Finished
<1>16. PICK D : D[u] = dk /\ D[o] = sh /\ Course(m, l, pend, D)
  BY DEF Sound, Planned
<1> DEFINE E == [k \in 0 .. o + 1 |-> IF k = o + 1 THEN DiskAfter(r, sh) ELSE D[k]]
<1>17. E[o + 1] = DiskAfter(r, sh) /\ \A k \in 0 .. o : E[k] = D[k]
  BY <1>2
<1> HIDE DEF E
<1>18. Course(m2, l, pend2, E)
  <2> SUFFICES ASSUME NEW k \in u + 1 .. o + 1
               PROVE  Due(pend2[k], m2.chain[pend2[k].head], E[k - 1], E[k])
    BY <1>6 DEF Course
  <2>1. CASE k = o + 1
    <3>1. k - 1 = o /\ o \in 0 .. o
      BY <1>2, <2>1
    <3>2. E[k - 1] = sh
      BY <1>16, <1>17, <3>1
    <3>3. m2.chain[h] = c
      BY <1>2, <1>6 DEF Table
    <3>4. Due(p, c, sh, DiskAfter(r, sh))
      BY <1>11 DEF Due
    <3> QED
      BY <1>10, <1>11, <1>17, <2>1, <3>2, <3>3, <3>4
  <2>2. CASE k # o + 1
    <3>1. k \in u + 1 .. o /\ k \in 1 .. o /\ k - 1 \in 0 .. o /\ k \in 0 .. o
      <4> HIDE DEF u, o
      <4> QED
        BY <1>2, <2>2
    <3>2. Due(pend[k], m.chain[pend[k].head], D[k - 1], D[k])
      BY <1>16, <3>1 DEF Course
    <3> QED
      BY <1>10, <1>14, <1>17, <3>1, <3>2
  <2> QED
    BY <2>1, <2>2
<1>19. E[Used(m2, l)] = dk /\ E[Outstanding(m2, l)] = DiskAfter(r, sh)
  <2>1. u \in 0 .. o
    BY <1>2
  <2> QED
    BY <1>6, <1>16, <1>17, <2>1
<1>20. Planned(m2, l, pend2, dk, DiskAfter(r, sh))
  BY <1>18, <1>19, Zenon DEF Planned
<1> QED
  BY <1>5, <1>7, <1>13, <1>15, <1>20 DEF Sound

\* The driver takes the oldest used chain back.
LEMMA ReapSound ==
  ASSUME NEW la, NEW m, NEW l, NEW pend, NEW dk, NEW sh, Sound(la, m, l, pend, dk, sh),
         m.used_idx # l, NEW slot, slot = ring_slot(l), NEW h, h = m.used_ring[slot].id,
         NEW m2, m2 = [m EXCEPT !.chain[h] = << >>, !.used_ring[slot] = NoEntry,
                                !.avail_ring[slot] = 0]
  PROVE  Sound(la, m2, next_idx(l), Tail(pend), dk, sh)
<1> DEFINE u == Used(m, l)
           o == Outstanding(m, l)
           l2 == next_idx(l)
           pend2 == Tail(pend)
<1>1. QueueOK(la, m, l, Chain) /\ Tracked(m, l, pend) /\ Finished(m, l, pend) /\ Lengths(m.chain) <= Num
  BY DEF Sound
<1>2. /\ u \in Nat /\ o \in Nat /\ u <= o /\ m.chain \in Table /\ Lengths(m.chain) \in Nat
      /\ \A k \in 1 .. o : HeadAt(m, l, k) \in DescIndex
      /\ m \in Ring(Chain) /\ l \in Index /\ m.used_idx \in Index /\ Num \in Nat
  BY <1>1, Numbers
<1>3. u >= 1 /\ o >= 1 /\ u < IDX_MODULUS
  <2>1. u = (IF m.used_idx >= l THEN m.used_idx - l ELSE m.used_idx - l + IDX_MODULUS) /\ u < IDX_MODULUS
    BY <1>2, DistanceIs DEF Used
  <2>2. m.used_idx \in Nat /\ l \in Nat /\ l < IDX_MODULUS /\ IDX_MODULUS \in Nat
    BY <1>2, IndexIs, VirtqueueConstants
  <2>3. u # 0
    BY <2>1, <2>2
  <2> QED
    BY <1>2, <2>1, <2>3
<1>4. slot = Slot(l, 1) /\ slot \in DescIndex
  <2>1. l + 1 - 1 = l
    BY <1>2, IndexIs
  <2>2. Slot(l, 1) \in DescIndex
    BY <1>2, SlotIs
  <2> QED
    BY <2>1, <2>2 DEF Slot
<1>5. h = HeadAt(m, l, 1) /\ h \in DescIndex
  <2>1. 1 \in 1 .. u /\ 1 \in 1 .. o
    BY <1>2, <1>3
  <2> QED
    BY <1>1, <1>2, <1>4, <2>1 DEF QueueOK
<1>6. /\ m2.avail_idx = m.avail_idx /\ m2.used_idx = m.used_idx
      /\ m2.chain = [m.chain EXCEPT ![h] = << >>]
      /\ m2.used_ring = [m.used_ring EXCEPT ![slot] = NoEntry]
      /\ m2.avail_ring = [m.avail_ring EXCEPT ![slot] = 0]
      /\ m2 \in Ring(Chain)
  <2>1. NoEntry \in [id : DescIndex, len : Nat] /\ 0 \in DescIndex
    BY IndexIs DEF NoEntry
  <2> QED
    BY <1>2, <1>4, <1>5, <2>1 DEF Ring
<1>7. l2 \in Index /\ Distance(l2, l) = 1
  <2>1. Distance(l, l) = 0
    BY <1>2, NoDistance
  <2>2. Distance(l, l) + 1 < IDX_MODULUS
    <3>1. o <= Num /\ o < IDX_MODULUS
      BY <1>1, <1>2, DistanceIs DEF QueueOK, Outstanding, Ring
    <3>2. 1 < IDX_MODULUS
      BY <1>2, <1>3, VirtqueueConstants
    <3> QED
      BY <2>1, <3>2
  <2> QED
    BY <1>2, <2>1, <2>2, NextIs, UsedGrows
<1>8. \A k \in 1 + 1 .. o : /\ m2.avail_ring[Slot(l, k)] = m.avail_ring[Slot(l, k)]
                            /\ m2.chain[HeadAt(m, l, k)] = m.chain[HeadAt(m, l, k)]
                            /\ Slot(l, k) # slot /\ Slot(l, k) \in DescIndex
  <2> SUFFICES ASSUME NEW k \in 2 .. o
               PROVE  /\ m2.avail_ring[Slot(l, k)] = m.avail_ring[Slot(l, k)]
                      /\ m2.chain[HeadAt(m, l, k)] = m.chain[HeadAt(m, l, k)]
                      /\ Slot(l, k) # slot /\ Slot(l, k) \in DescIndex
    OBVIOUS
  <2>1. k \in 1 .. o /\ 1 \in 1 .. o /\ k # 1 /\ k \in 1 .. Num /\ 1 \in 1 .. Num /\ k \in Nat \ {0}
    <3>1. o <= Num
      BY <1>1 DEF QueueOK
    <3> QED
      BY <1>2, <1>3, <3>1
  <2>2. Slot(l, k) # slot /\ Slot(l, k) \in DescIndex
    BY <1>2, <1>4, <2>1, SlotsDiffer, SlotIs
  <2>3. HeadAt(m, l, k) # h /\ HeadAt(m, l, k) \in DescIndex
    BY <1>1, <1>2, <1>5, <2>1 DEF QueueOK
  <2> QED
    BY <1>2, <1>6, <2>2, <2>3 DEF Ring, Table
<1>9. \A k \in 1 + 1 .. u : m2.used_ring[Slot(l, k)] = m.used_ring[Slot(l, k)]
  <2>1. \A k \in 1 + 1 .. u : k \in 1 + 1 .. o
    BY <1>2
  <2> QED
    BY <1>2, <1>6, <1>8, <2>1 DEF Ring
<1>10. /\ QueueOK(la, m2, l2, Chain)
       /\ Used(m2, l2) = u - 1 /\ Outstanding(m2, l2) = o - 1
       /\ \A k \in Nat \ {0} : Slot(l2, k) = Slot(l, 1 + k)
  <2> HIDE DEF l2
  <2> DEFINE c == Distance(l2, l)
  <2>1. c = 1
    BY <1>7
  <2>2. c <= Used(m, l)
    BY <1>2, <1>3, <2>1
  <2>3. \A k \in c + 1 .. Outstanding(m, l) :
            /\ m2.avail_ring[Slot(l, k)] = m.avail_ring[Slot(l, k)]
            /\ m2.chain[HeadAt(m, l, k)] = m.chain[HeadAt(m, l, k)]
    BY <1>8, <2>1
  <2>4. \A k \in c + 1 .. Used(m, l) : m2.used_ring[Slot(l, k)] = m.used_ring[Slot(l, k)]
    BY <1>9, <2>1
  <2>5. m2.avail_idx = m.avail_idx /\ m2.used_idx = m.used_idx /\ m2 \in Ring(Chain) /\ l2 \in Index
    BY <1>6, <1>7
  <2>6. c = Distance(l2, l)
    OBVIOUS
  <2> HIDE DEF c, u, o
  <2>7. /\ QueueOK(la, m2, l2, Chain)
        /\ Used(m2, l2) = Used(m, l) - c /\ Outstanding(m2, l2) = Outstanding(m, l) - c
        /\ \A k \in Nat \ {0} : Slot(l2, k) = Slot(l, c + k)
    BY ONLY <1>1, <2>3, <2>4, <2>5, <2>6, <2>2, CollectKeeps
  <2> QED
    BY <2>1, <2>7 DEF u, o
<1>11. Lengths(m2.chain) <= Num
  <2>0. m2.chain = Replaced(m.chain, h, << >>)
    BY <1>6 DEF Replaced
  <2>1. Lengths(m2.chain) = Lengths(m.chain) + Len(<< >>) - Len(m.chain[h])
    BY <1>2, <1>5, <2>0, LengthsChange
  <2>2. Len(m.chain[h]) \in Nat /\ Len(<< >>) = 0
    BY <1>2, <1>5, TableEntry
  <2> QED
    BY <1>1, <1>2, <2>1, <2>2
<1>12. pend \in Seq(Ticket) /\ Len(pend) = o /\ \A k \in 1 .. o : pend[k].head = HeadAt(m, l, k)
  BY <1>1 DEF Tracked
<1>13. /\ pend2 \in Seq(Ticket) /\ Len(pend2) = o - 1
       /\ \A k \in 1 .. o - 1 : pend2[k] = pend[k + 1]
  BY <1>2, <1>3, <1>12
<1>14. \A k \in 1 .. o - 1 : HeadAt(m2, l2, k) = HeadAt(m, l, k + 1)
  <2> SUFFICES ASSUME NEW k \in 1 .. o - 1 PROVE HeadAt(m2, l2, k) = HeadAt(m, l, k + 1)
    OBVIOUS
  <2>1. k \in Nat \ {0} /\ 1 + k = k + 1 /\ k + 1 \in 1 + 1 .. o
    BY <1>2
  <2> QED
    BY <1>8, <1>10, <2>1 DEF HeadAt
<1> HIDE DEF pend2, l2
<1>15. Tracked(m2, l2, pend2)
  <2>1. \A k \in 1 .. o - 1 : k + 1 \in 1 .. o
    BY <1>2
  <2> QED
    BY <1>10, <1>12, <1>13, <1>14, <2>1 DEF Tracked
<1>16. \A k \in 1 .. o - 1 : m2.chain[pend2[k].head] = m.chain[pend[k + 1].head]
  <2>1. \A k \in 1 .. o - 1 : k + 1 \in 1 .. o /\ k + 1 \in 1 + 1 .. o
    BY <1>2
  <2> QED
    BY <1>8, <1>12, <1>13, <2>1
<1>17. Finished(m2, l2, pend2)
  <2>1. \A k \in 1 .. u - 1 : k \in 1 .. o - 1 /\ k + 1 \in 1 .. u
    BY <1>2
  <2> QED
    BY <1>1, <1>10, <1>13, <1>16, <2>1 DEF Finished
<1>18. PICK D : D[u] = dk /\ D[o] = sh /\ Course(m, l, pend, D)
  BY DEF Sound, Planned
<1> DEFINE E == [k \in 0 .. o - 1 |-> D[k + 1]]
<1>19. \A k \in 0 .. o - 1 : E[k] = D[k + 1]
  OBVIOUS
<1> HIDE DEF E
<1>20. Course(m2, l2, pend2, E)
  <2> SUFFICES ASSUME NEW k \in (u - 1) + 1 .. o - 1
               PROVE  Due(pend2[k], m2.chain[pend2[k].head], E[k - 1], E[k])
    BY <1>10 DEF Course
  <2>1. /\ k \in 1 .. o - 1 /\ k \in 0 .. o - 1 /\ k - 1 \in 0 .. o - 1
        /\ k + 1 \in u + 1 .. o /\ (k - 1) + 1 = k /\ (k + 1) - 1 = k
    BY <1>2, <1>3
  <2>2. Due(pend[k + 1], m.chain[pend[k + 1].head], D[(k + 1) - 1], D[k + 1])
    BY <1>18, <2>1 DEF Course
  <2>3. E[k - 1] = D[k] /\ E[k] = D[k + 1]
    BY <1>19, <2>1
  <2> QED
    BY <1>13, <1>16, <2>1, <2>2, <2>3
<1>21. E[Used(m2, l2)] = dk /\ E[Outstanding(m2, l2)] = sh
  <2>1. u - 1 \in 0 .. o - 1 /\ o - 1 \in 0 .. o - 1 /\ (u - 1) + 1 = u /\ (o - 1) + 1 = o
    BY <1>2, <1>3
  <2> QED
    BY <1>10, <1>18, <1>19, <2>1
<1>22. Planned(m2, l2, pend2, dk, sh)
  BY <1>20, <1>21, Zenon DEF Planned
<1>23. Sound(la, m2, l2, pend2, dk, sh)
  BY <1>10, <1>11, <1>15, <1>17, <1>22 DEF Sound
<1> QED
  BY <1>23 DEF l2, pend2

\* The interrupt flag is no concern of the chains.
LEMMA FlagSound ==
  ASSUME NEW la, NEW m, NEW l, NEW pend, NEW dk, NEW sh, Sound(la, m, l, pend, dk, sh),
         NEW b \in BOOLEAN, NEW m2, m2 = [m EXCEPT !.no_interrupt = b]
  PROVE  Sound(la, m2, l, pend, dk, sh)
<1>1. m \in Ring(Chain)
  BY DEF Sound, QueueOK
<1>2. /\ m2 \in Ring(Chain) /\ m2.chain = m.chain /\ m2.avail_idx = m.avail_idx
      /\ m2.avail_ring = m.avail_ring /\ m2.used_idx = m.used_idx /\ m2.used_ring = m.used_ring
  BY <1>1 DEF Ring
<1>3. /\ Used(m2, l) = Used(m, l) /\ Outstanding(m2, l) = Outstanding(m, l)
      /\ \A k : HeadAt(m2, l, k) = HeadAt(m, l, k)
  BY <1>2 DEF Used, Outstanding, HeadAt
<1>4. QueueOK(la, m2, l, Chain)
  BY <1>2, <1>3 DEF Sound, QueueOK
<1>5. Lengths(m2.chain) <= Num /\ Tracked(m2, l, pend) /\ Finished(m2, l, pend)
  BY <1>2, <1>3 DEF Sound, Tracked, Finished
<1>6. Planned(m2, l, pend, dk, sh)
  BY <1>2, <1>3 DEF Sound, Planned, Course
<1> QED
  BY <1>4, <1>5, <1>6 DEF Sound

\* A blank table has no descriptor in use.
LEMMA NoChains ==
  ASSUME NEW f, \A d \in DescIndex : f[d] = << >>
  PROVE  Lengths(f) = 0
<1> DEFINE I == [s \in SUBSET DescIndex |-> {0}]
<1>1. 0 \in I[{}]
  OBVIOUS
<1>2. \A s \in SUBSET DescIndex : s # {} =>
        \A c \in I[s \ {AnyOf(s)}] : LengthStep(f, AnyOf(s), c) \in I[s]
  <2> SUFFICES ASSUME NEW s \in SUBSET DescIndex, s # {} PROVE LengthStep(f, AnyOf(s), 0) = 0
    OBVIOUS
  <2>1. AnyOf(s) \in DescIndex
    BY DEF AnyOf
  <2> QED
    BY <2>1 DEF LengthStep
<1> HIDE DEF I
<1>3. Total!Fold(f, 0, DescIndex) \in I[DescIndex]
  BY <1>1, <1>2, DescFinite, Total!FoldInduction
<1> QED
  BY <1>3 DEF I, Lengths

\* A queue in zeroed memory.
LEMMA BlankSound ==
  ASSUME NEW d
  PROVE  Sound(0, BlankMemory, 0, << >>, d, d)
<1> DEFINE m == BlankMemory
<1>1. m \in Ring(Chain) /\ m.avail_idx = 0 /\ m.used_idx = 0 /\ \A x \in DescIndex : m.chain[x] = << >>
  BY IndexIs DEF BlankMemory, Ring, NoEntry
<1> HIDE DEF m
<1>2. QueueOK(0, m, 0, Chain) /\ Used(m, 0) = 0
  BY <1>1, EmptyRing
<1>3. Outstanding(m, 0) = 0
  BY <1>1, IndexIs, NoDistance DEF Outstanding
<1>4. Lengths(m.chain) <= Num
  BY <1>1, NoChains, VirtqueueConstants
<1>5. Tracked(m, 0, << >>) /\ Finished(m, 0, << >>)
  BY <1>2, <1>3 DEF Tracked, Finished
<1> DEFINE D == [k \in {0} |-> d]
<1>6. D[0] = d
  OBVIOUS
<1> HIDE DEF D
<1>7. Course(m, 0, << >>, D)
  BY <1>2, <1>3 DEF Course
<1>8. Planned(m, 0, << >>, d, d)
  BY <1>2, <1>3, <1>6, <1>7 DEF Planned
<1> QED
  BY <1>2, <1>4, <1>5, <1>8 DEF Sound, m

-----------------------------------------------------------------------------
(* The inductive invariant. *)

Kept ==
    /\ vq \in [enabled : BOOLEAN, last_avail_idx : Index, last_used_idx : Index]
    /\ isr_status \in BOOLEAN
    /\ phase \in {"idle", "loop", "signal"}
    /\ disk \in [Sector -> Content] /\ shadow \in [Sector -> Content]
    /\ drv \in [last_used : Index, pending : Seq(Ticket), kick : BOOLEAN,
                mode : {"waiting", "reaping", "recheck"}]

BlkInv ==
    /\ Kept
    /\ Sound(vq.last_avail_idx, mem, drv.last_used, drv.pending, disk, shadow)

\* A queue after a reset and an idle driver have their types.
LEMMA RestingKept ==
  /\ ResetQueue \in [enabled : BOOLEAN, last_avail_idx : Index, last_used_idx : Index]
  /\ IdleDriver \in [last_used : Index, pending : Seq(Ticket), kick : BOOLEAN,
                     mode : {"waiting", "reaping", "recheck"}]
<1>1. ResetQueue \in [enabled : BOOLEAN, last_avail_idx : Index, last_used_idx : Index]
  BY IndexIs DEF ResetQueue
<1>2. << >> \in Seq(Ticket)
  OBVIOUS
<1>3. IdleDriver \in [last_used : Index, pending : Seq(Ticket), kick : BOOLEAN,
                      mode : {"waiting", "reaping", "recheck"}]
  BY <1>2, IndexIs DEF IdleDriver
<1> QED
  BY <1>1, <1>3

\* The initial states satisfy the invariant.
LEMMA BlkStart == Init => BlkInv
<1> SUFFICES ASSUME Init PROVE BlkInv
  OBVIOUS
<1>1. Zero \in Content
  BY DEF Content
<1>2. Kept
  BY <1>1, RestingKept DEF Init, Kept
<1>3. vq.last_avail_idx = 0 /\ mem = BlankMemory /\ drv.last_used = 0 /\ drv.pending = << >> /\ disk = shadow
  BY DEF Init, ResetQueue, IdleDriver
<1> QED
  BY <1>2, <1>3, BlankSound DEF BlkInv

\* An iteration of the loop of blk_queue_notify keeps the invariant.
LEMMA LoopKeeps == BlkInv /\ NotifyLoop => BlkInv'
<1> SUFFICES ASSUME BlkInv, NotifyLoop PROVE BlkInv'
  OBVIOUS
<1> DEFINE la == vq.last_avail_idx
           l == drv.last_used
           h == mem.avail_ring[ring_slot(la)]
           e == process_request(mem.chain[h])
           m1 == [mem EXCEPT !.chain[h] = e.chain]
           m2 == virtq_push(m1, h, e.written)
<1>1. /\ Kept /\ Sound(la, mem, l, drv.pending, disk, shadow) /\ disk \in [Sector -> Content]
      /\ vq \in [enabled : BOOLEAN, last_avail_idx : Index, last_used_idx : Index]
  BY DEF BlkInv, Kept
<1>2. la # mem.avail_idx /\ mem' = m2 /\ disk' = e.disk
  BY DEF NotifyLoop, virtq_has_work, virtq_pop_head
<1>3. UNCHANGED <<isr_status, phase, drv, shadow>>
  BY DEF NotifyLoop
<1>4. vq' = [virtq_pop(vq) EXCEPT !.last_used_idx = next_idx(@)]
  BY DEF NotifyLoop
<1>5. /\ vq' \in [enabled : BOOLEAN, last_avail_idx : Index, last_used_idx : Index]
      /\ vq'.last_avail_idx = next_idx(la)
  BY <1>1, <1>4, NextIs DEF virtq_pop
<1>6. /\ h = mem.avail_ring[ring_slot(la)] /\ e = process_request(mem.chain[h])
      /\ m1 = [mem EXCEPT !.chain[h] = e.chain] /\ m2 = virtq_push(m1, h, e.written)
  OBVIOUS
<1> HIDE DEF la, l, h, e, m1, m2
<1>7. Sound(next_idx(la), m2, l, drv.pending, e.disk, shadow) /\ e.disk \in [Sector -> Content]
  BY <1>1, <1>2, <1>6, ServeKeeps
<1>8. Kept'
  BY <1>1, <1>2, <1>3, <1>5, <1>7 DEF Kept
<1> QED
  BY <1>2, <1>3, <1>5, <1>7, <1>8 DEF BlkInv, l

\* Publishing a request keeps the invariant.
LEMMA SubmitKeeps ==
  ASSUME BlkInv, NEW r \in Requests, Submit(r)
  PROVE  BlkInv'
<1> DEFINE la == vq.last_avail_idx
           l == drv.last_used
           h == FreeHead
           t == TicketOf(h, r, shadow)
           m2 == Published(mem, h, Build(r))
           pend2 == Append(drv.pending, t)
<1>1. Kept /\ Sound(la, mem, l, drv.pending, disk, shadow) /\ shadow \in [Sector -> Content]
  BY DEF BlkInv, Kept
<1>2. QueueOK(la, mem, l, Chain)
  BY <1>1 DEF Sound
<1>3. mem.chain \in Table
  BY <1>2, Numbers
<1>4. InUse = Lengths(mem.chain)
  <2>1. DOMAIN mem.chain = DescIndex
    BY <1>3 DEF Table
  <2> QED
    BY <2>1, InUseIsFold DEF InUse
<1>5. Lengths(mem.chain) + Len(Build(r)) <= Num
  BY <1>4 DEF Submit
<1>6. h \in DescIndex /\ mem.chain[h] = << >>
  <2> DEFINE F == {d \in DescIndex : mem.chain[d] = << >>}
  <2>1. Len(Build(r)) \in Nat /\ Len(Build(r)) >= 2
    BY BuildIs DEF Chain
  <2>2. \E d \in DescIndex : mem.chain[d] = << >>
    BY <1>2, <1>5, <2>1, RoomForChain
  <2>3. F # {} /\ F \subseteq Nat
    BY <2>2, VirtqueueConstants DEF DescIndex
  <2> HIDE DEF F
  <2>4. \E x \in F : \A y \in F : x <= y
    BY <2>3, Total!LeastMember
  <2>5. Min(F) \in F
    BY <2>4 DEF Min
  <2> QED
    BY <2>5 DEF F, FreeHead
<1>7. mem' = m2 /\ UNCHANGED <<vq, isr_status, phase, disk>> /\ shadow' = DiskAfter(r, shadow)
  BY DEF Submit, ExpectedDisk, DiskAfter
<1>8. drv' = [drv EXCEPT !.pending = Append(@, t), !.kick = TRUE]
  BY DEF Submit, TicketOf, ExpectedData, DataOf
<1>9. m2 = Published(mem, h, Build(r)) /\ pend2 = Append(drv.pending, TicketOf(h, r, shadow))
  OBVIOUS
<1> HIDE DEF h, m2, t, pend2
<1>10. Sound(la, m2, l, pend2, disk, DiskAfter(r, shadow))
  BY <1>1, <1>5, <1>6, <1>9, PublishSound
<1>11. pend2 \in Seq(Ticket)
  BY <1>10 DEF Sound, Tracked
<1>12. /\ drv'.last_used = drv.last_used /\ drv'.pending = pend2
       /\ drv' \in [last_used : Index, pending : Seq(Ticket), kick : BOOLEAN,
                    mode : {"waiting", "reaping", "recheck"}]
  <2>1. drv \in [last_used : Index, pending : Seq(Ticket), kick : BOOLEAN,
                 mode : {"waiting", "reaping", "recheck"}]
    BY <1>1 DEF Kept
  <2> QED
    BY <1>8, <1>11, <2>1 DEF pend2
<1>13. DiskAfter(r, shadow) \in [Sector -> Content]
  BY <1>1, DataType
<1>14. Kept'
  BY <1>1, <1>7, <1>12, <1>13 DEF Kept
<1> QED
  BY <1>7, <1>10, <1>12, <1>14 DEF BlkInv

\* Collecting a completion keeps the invariant.
LEMMA ReapKeeps == BlkInv /\ Reap => BlkInv'
<1> SUFFICES ASSUME BlkInv, Reap PROVE BlkInv'
  OBVIOUS
<1> DEFINE la == vq.last_avail_idx
           l == drv.last_used
           slot == ring_slot(l)
           h == mem.used_ring[slot].id
           m2 == [mem EXCEPT !.chain[h] = << >>, !.used_ring[slot] = NoEntry,
                             !.avail_ring[slot] = 0]
<1>1. /\ Kept /\ Sound(la, mem, l, drv.pending, disk, shadow)
      /\ drv \in [last_used : Index, pending : Seq(Ticket), kick : BOOLEAN,
                  mode : {"waiting", "reaping", "recheck"}]
  BY DEF BlkInv, Kept
<1>2. mem.used_idx # l /\ mem' = m2 /\ UNCHANGED <<vq, isr_status, phase, disk, shadow>>
  BY DEF Reap
<1>3. drv' = [drv EXCEPT !.last_used = next_idx(@), !.pending = Tail(@)]
  BY DEF Reap
<1>4. /\ slot = ring_slot(l) /\ h = mem.used_ring[slot].id
      /\ m2 = [mem EXCEPT !.chain[h] = << >>, !.used_ring[slot] = NoEntry, !.avail_ring[slot] = 0]
  OBVIOUS
<1> HIDE DEF m2, slot, h
<1>5. Sound(la, m2, next_idx(l), Tail(drv.pending), disk, shadow)
  BY <1>1, <1>2, <1>4, ReapSound
<1>6. Tail(drv.pending) \in Seq(Ticket) /\ next_idx(l) \in Index
  BY <1>5 DEF Sound, Tracked, QueueOK
<1>7. /\ drv'.last_used = next_idx(l) /\ drv'.pending = Tail(drv.pending)
      /\ drv' \in [last_used : Index, pending : Seq(Ticket), kick : BOOLEAN,
                   mode : {"waiting", "reaping", "recheck"}]
  BY <1>1, <1>3, <1>6
<1>8. Kept'
  BY <1>1, <1>2, <1>7 DEF Kept
<1> QED
  BY <1>2, <1>5, <1>7, <1>8 DEF BlkInv

\* Steps that touch at most the interrupt flag of guest memory.
Quiet ==
    /\ \E b \in BOOLEAN : mem' = [mem EXCEPT !.no_interrupt = b]
    /\ drv'.last_used = drv.last_used /\ drv'.pending = drv.pending
    /\ vq'.last_avail_idx = vq.last_avail_idx
    /\ disk' = disk /\ shadow' = shadow

\* A step that changes neither the rings (but their flag), disk nor pending list keeps it.
LEMMA QuietKeeps == BlkInv /\ Kept' /\ Quiet => BlkInv'
<1> SUFFICES ASSUME BlkInv, Kept', Quiet PROVE BlkInv'
  OBVIOUS
<1>1. PICK b \in BOOLEAN : mem' = [mem EXCEPT !.no_interrupt = b]
  BY DEF Quiet
<1>2. Sound(vq.last_avail_idx, mem', drv.last_used, drv.pending, disk, shadow)
  BY <1>1, FlagSound DEF BlkInv
<1> QED
  BY <1>2 DEF BlkInv, Quiet

\* Every step keeps the invariant.
LEMMA BlkStep == BlkInv /\ [Next]_vars => BlkInv'
<1> SUFFICES ASSUME BlkInv, [Next]_vars PROVE BlkInv'
  OBVIOUS
<1>1. /\ Kept /\ Sound(vq.last_avail_idx, mem, drv.last_used, drv.pending, disk, shadow)
      /\ vq \in [enabled : BOOLEAN, last_avail_idx : Index, last_used_idx : Index]
      /\ isr_status \in BOOLEAN /\ phase \in {"idle", "loop", "signal"}
      /\ disk \in [Sector -> Content] /\ shadow \in [Sector -> Content]
      /\ drv \in [last_used : Index, pending : Seq(Ticket), kick : BOOLEAN,
                  mode : {"waiting", "reaping", "recheck"}]
  BY DEF BlkInv, Kept
<1>2. mem \in Ring(Chain) /\ mem.no_interrupt \in BOOLEAN /\ mem = [mem EXCEPT !.no_interrupt = mem.no_interrupt]
  <2>1. mem \in Ring(Chain)
    BY <1>1 DEF Sound, QueueOK
  <2> QED
    BY <2>1 DEF Ring
<1>3. CASE NotifyLoop
  BY <1>3, LoopKeeps
<1>4. CASE NotifyDone
  <2>1. Kept' /\ Quiet
    BY <1>1, <1>2, <1>4 DEF NotifyDone, Kept, Quiet
  <2> QED
    BY <2>1, QuietKeeps
<1>5. CASE NotifySignal
  <2>1. (isr_status \/ virtq_should_notify(vq, mem)) \in BOOLEAN
    OBVIOUS
  <2>2. Kept' /\ Quiet
    BY <1>1, <1>2, <1>5, <2>1 DEF NotifySignal, Kept, Quiet
  <2> QED
    BY <2>2, QuietKeeps
<1>6. CASE Reset
  <2>1. Kept'
    BY <1>1, <1>6, RestingKept DEF Reset, Kept
  <2>2. /\ vq'.last_avail_idx = 0 /\ mem' = BlankMemory /\ drv'.last_used = 0 /\ drv'.pending = << >>
        /\ disk' = disk /\ shadow' = disk
    BY <1>6 DEF Reset, ResetQueue, IdleDriver
  <2> QED
    BY <2>1, <2>2, BlankSound DEF BlkInv
<1>7. CASE virtq_set_addr
  <2>1. Kept' /\ Quiet
    BY <1>1, <1>2, <1>7 DEF virtq_set_addr, Kept, Quiet
  <2> QED
    BY <2>1, QuietKeeps
<1>8. CASE Kick
  <2>1. Kept' /\ Quiet
    BY <1>1, <1>2, <1>8 DEF Kick, Kept, Quiet
  <2> QED
    BY <2>1, QuietKeeps
<1>9. CASE ReadISR
  <2>1. Kept' /\ Quiet
    BY <1>1, <1>9 DEF ReadISR, Kept, Quiet
  <2> QED
    BY <2>1, QuietKeeps
<1>10. CASE Reap
  BY <1>10, ReapKeeps
<1>11. CASE EnableInterrupts
  <2>1. Kept' /\ Quiet
    BY <1>1, <1>11 DEF EnableInterrupts, Kept, Quiet
  <2> QED
    BY <2>1, QuietKeeps
<1>12. CASE Recheck
  <2>1. Kept' /\ Quiet
    BY <1>1, <1>12 DEF Recheck, Kept, Quiet
  <2> QED
    BY <2>1, QuietKeeps
<1>13. CASE \E r \in Requests : Submit(r)
  BY <1>13, SubmitKeeps
<1>14. CASE UNCHANGED vars
  BY <1>1, <1>14 DEF vars, BlkInv, Kept
<1> QED
  BY <1>3, <1>4, <1>5, <1>6, <1>7, <1>8, <1>9, <1>10, <1>11, <1>12, <1>13, <1>14
     DEF Next, blk_queue_notify, Collect

-----------------------------------------------------------------------------
(* Theorems. *)

\* The inductive invariant of the block device and its driver: a well-formed
\* queue, a list of what is pending that follows the ring, finished chains that
\* hold what was expected, and chains still to be done that lead from the disk
\* to the one the driver expects.
THEOREM BlkInvariant == Spec => []BlkInv
  BY BlkStart, BlkStep, PTL DEF Spec

\* Each published chain is completed at most once and in the order in which it was
\* published, and indexes and structures keep their types, through wrap-arounds,
\* requests that arrive while the loop of blk_queue_notify runs, and resets.
THEOREM ChainsCompleteInOrder == Spec => []CompletesInOrder
<1>1. BlkInv => CompletesInOrder
  <2> SUFFICES ASSUME BlkInv PROVE CompletesInOrder
    OBVIOUS
  <2> DEFINE l == drv.last_used
  <2>1. /\ Kept /\ QueueOK(vq.last_avail_idx, mem, l, Chain) /\ Tracked(mem, l, drv.pending)
        /\ Lengths(mem.chain) <= Num
    BY DEF BlkInv, Sound
  <2>2. /\ mem \in Ring(Chain) /\ mem.chain \in Table /\ vq.last_avail_idx = mem.used_idx
        /\ Used(mem, l) \in Nat /\ Outstanding(mem, l) \in Nat /\ Used(mem, l) <= Outstanding(mem, l)
    BY <2>1, Numbers
  <2>3. InUse <= Num
    <3>1. DOMAIN mem.chain = DescIndex
      BY <2>2 DEF Table
    <3>2. InUse = Lengths(mem.chain)
      BY <3>1, InUseIsFold DEF InUse
    <3> QED
      BY <2>1, <3>2
  <2>4. TypeOK
    BY <2>1, <2>2, <2>3 DEF TypeOK, Kept, Ring
  <2>5. Completed = Used(mem, l)
    BY DEF Completed, Used
  <2>6. Completed <= Len(drv.pending)
    BY <2>1, <2>2, <2>5 DEF Tracked
  <2>7. ASSUME NEW k \in 1 .. Completed
        PROVE  mem.used_ring[ring_slot(drv.last_used + k - 1)].id = drv.pending[k].head
    <3>1. k \in 1 .. Used(mem, l) /\ k \in 1 .. Outstanding(mem, l)
      BY <2>2, <2>5
    <3>2. mem.used_ring[Slot(l, k)].id = HeadAt(mem, l, k) /\ drv.pending[k].head = HeadAt(mem, l, k)
      BY <2>1, <3>1 DEF QueueOK, Tracked
    <3> QED
      BY <3>2 DEF Slot
  <2>8. Distance(vq.last_avail_idx, drv.last_used) = Completed
    BY <2>2 DEF Completed
  <2> QED
    BY <2>4, <2>6, <2>7, <2>8 DEF CompletesInOrder
<1> QED
  BY <1>1, BlkInvariant, PTL

\* A completed request carries the status and the data that all the requests
\* published before it call for, whatever arrived since (process_request).
THEOREM CompletionsAreCorrect == Spec => []CompletionCorrect
<1>1. BlkInv => CompletionCorrect
  <2> SUFFICES ASSUME BlkInv PROVE CompletionCorrect
    OBVIOUS
  <2>1. Finished(mem, drv.last_used, drv.pending)
    BY DEF BlkInv, Sound
  <2>2. Completed = Used(mem, drv.last_used)
    BY DEF Completed, Used
  <2> QED
    BY <2>1, <2>2 DEF Finished, Filled, CompletionCorrect
<1> QED
  BY <1>1, BlkInvariant, PTL
=============================================================================
