----------------------------- MODULE PoolProofs ------------------------------
(***************************************************************************)
(* Theorems about the storage pool (StoragePool), for every number and     *)
(* size of devices and volumes.                                            *)
(*                                                                         *)
(* They are about plain pools: thick volumes without replicas, whose       *)
(* requests stay inside an extent.  The program does not keep the promises *)
(* to other volumes: a thin volume may get extent 0, whose number means    *)
(* "not allocated", and a freed extent keeps its replica links.            *)
(***************************************************************************)
EXTENDS StoragePool, FiniteSetTheorems, SequenceTheorems, TLAPS

Plain == Replications \subseteq {0} /\ ThinModes \subseteq {FALSE} /\ Straddle = FALSE

\* The loops of the code: pre-allocation, its replicas, the release of a volume
\* and of one extent, and the copies of a write.
CreateStep(replication, i, prev) ==
    LET next == pool_alloc_replicated_extent(prev.pool, replication)
    IN  IF ~prev.ok THEN prev
        ELSE IF next.ok
          THEN [ok |-> TRUE, pool |-> next.pool, map |-> Append(prev.map, next.id)]
          ELSE [ok |-> FALSE, map |-> << >>,
                pool |-> FoldLeft(pool_free_extent, next.pool, prev.map)]
Create == INSTANCE ListLemmas WITH step <- CreateStep, pick <- Max

CopyStep(first, k, prev) ==
    LET next == pool_alloc_extent(prev.pool)
    IN  IF ~prev.ok THEN prev
        ELSE IF next.ok
          THEN [ok |-> TRUE, ids |-> Append(prev.ids, next.id),
                pool |-> [next.pool EXCEPT !.extents[first].replica_extents[k] = next.id]]
          ELSE [ok |-> FALSE, ids |-> prev.ids,
                pool |-> FoldLeft(pool_free_extent, prev.pool, prev.ids)]
Copy == INSTANCE ListLemmas WITH step <- CopyStep, pick <- Max

ReleaseStep(map, i, p) == Release(p, map[i])
Destroy == INSTANCE ListLemmas WITH step <- ReleaseStep, pick <- Max

FreeStep(ids, i, p) == pool_free_extent(p, ids[i])
Free == INSTANCE ListLemmas WITH step <- FreeStep, pick <- Max

WriteStep(w, i, content) ==
    block_write(content, PhysDevice(w.pool, w.copies[i]),
                PhysOffset(w.pool, w.copies[i], w.offset), w.length, w.data)
Write == INSTANCE ListLemmas WITH step <- WriteStep, pick <- Max

LEMMA CreateIsRec ==
  ASSUME NEW p, NEW n, NEW replication
  PROVE  Preallocate(p, n, replication)
           = Create!Rec(replication, [ok |-> TRUE, pool |-> p, map |-> << >>], n)
  BY DEF Preallocate, Create!Rec, CreateStep

LEMMA ReplicatedIsRec ==
  ASSUME NEW p, NEW replication
  PROVE  LET primary == pool_alloc_extent(p)
             last == Copy!Rec(primary.id, [ok |-> primary.ok, pool |-> primary.pool,
                                           ids |-> <<primary.id>>], replication)
         IN  pool_alloc_replicated_extent(p, replication)
               = IF p.free_extents < replication + 1 THEN [ok |-> FALSE, pool |-> p, id |-> 0]
                 ELSE [ok |-> last.ok, id |-> primary.id,
                       pool |-> IF last.ok
                                  THEN [last.pool EXCEPT
                                         !.extents[primary.id].replica_count = replication]
                                  ELSE last.pool]
  BY DEF pool_alloc_replicated_extent, Copy!Rec, CopyStep

LEMMA DestroyIsFold ==
  ASSUME NEW p, NEW map
  PROVE  FoldLeft(Release, p, map) = Destroy!Fold(map, p, DOMAIN map)
  BY DEF FoldLeft, MapThenFoldSet, Destroy!Fold, ReleaseStep

LEMMA FreeIsFold ==
  ASSUME NEW p, NEW ids
  PROVE  FoldLeft(pool_free_extent, p, ids) = Free!Fold(ids, p, DOMAIN ids)
  BY DEF FoldLeft, MapThenFoldSet, Free!Fold, FreeStep

-----------------------------------------------------------------------------
(* The extent allocator. *)

\* A table of m extents: none has replicas, free_extents counts the free ones,
\* and extent 0 is the first to be taken and is never given back.
Pools(m) == [extents : [0 .. m - 1 -> Extent], free_extents : Nat, next_extent : 0 .. m]
FreeSet(p, m) == {i \in 0 .. m - 1 : p.extents[i].state = "FREE"}
PoolOK(p, m) ==
    /\ p \in Pools(m)
    /\ \A i \in 0 .. m - 1 : p.extents[i].replica_count = 0
    /\ p.free_extents = Cardinality(FreeSet(p, m))
    /\ p.next_extent = 0 => \A i \in 0 .. m - 1 : p.extents[i].state = "FREE"
    /\ p.next_extent > 0 => p.extents[0].state = "ALLOCATED"

\* The table f with extent i in state s.
In(f, i, s) == [f EXCEPT ![i].state = s]

LEMMA TableSize ==
  ASSUME NEW m \in Nat, NEW p \in Pools(m)
  PROVE  /\ DOMAIN p.extents = 0 .. m - 1 /\ total_extents(p) = m
         /\ IsFiniteSet(FreeSet(p, m)) /\ Cardinality(FreeSet(p, m)) \in Nat
<1>1. DOMAIN p.extents = 0 .. m - 1
  BY DEF Pools
<1>2. IsFiniteSet(0 .. m - 1) /\ Cardinality(0 .. m - 1) = m
  BY FS_Interval
<1>3. FreeSet(p, m) \subseteq 0 .. m - 1
  BY DEF FreeSet
<1> QED
  BY <1>1, <1>2, <1>3, FS_Subset, FS_CardinalityType DEF total_extents

LEMMA Least ==
  ASSUME NEW S, S \subseteq Nat, S # {}
  PROVE  Min(S) \in S
  BY Free!LeastMember DEF Min

\* Nothing but its state changes in an extent.
Alike(x, y) ==
    /\ x.device_id = y.device_id /\ x.device_offset = y.device_offset
    /\ x.replica_count = y.replica_count
ChangedTo(g, f, m, i, s) ==
    /\ g \in [0 .. m - 1 -> Extent] /\ g[i].state = s
    /\ \A j \in 0 .. m - 1 : Alike(g[j], f[j])
    /\ \A j \in 0 .. m - 1 : j # i => g[j] = f[j]

LEMMA Changed ==
  ASSUME NEW m \in Nat, NEW f \in [0 .. m - 1 -> Extent], NEW i \in 0 .. m - 1,
         NEW s \in {"FREE", "ALLOCATED"}
  PROVE  ChangedTo(In(f, i, s), f, m, i, s)
<1> DEFINE g == In(f, i, s)
<1> DEFINE x == [f[i] EXCEPT !.state = s]
<1>1. f[i] \in Extent
  OBVIOUS
<1>2. x \in Extent /\ x.state = s /\ Alike(x, f[i])
  <2> HIDE DEF Alike
  <2>1. x \in Extent /\ x.state = s
    BY <1>1 DEF Extent
  <2>2. x.device_id = f[i].device_id /\ x.device_offset = f[i].device_offset
        /\ x.replica_count = f[i].replica_count
    BY <1>1 DEF Extent
  <2> QED
    BY <2>1, <2>2 DEF Alike
<1> HIDE DEF x
<1>3. g = [f EXCEPT ![i] = x]
  BY DEF x, In
<1> HIDE DEF g
<1>4. g \in [0 .. m - 1 -> Extent] /\ g[i] = x /\ \A j \in 0 .. m - 1 : j # i => g[j] = f[j]
  BY <1>2, <1>3
<1>5. \A j \in 0 .. m - 1 : Alike(g[j], f[j])
  BY <1>2, <1>4 DEF Alike
<1> QED
  BY <1>2, <1>4, <1>5 DEF g, ChangedTo

\* Extent i gets state s; b are free, c is the next to look at.
Moved(p, q, m, i, s, b, c) ==
    /\ q \in Pools(m) /\ q.extents = In(p.extents, i, s)
    /\ q.free_extents = b /\ q.next_extent = c

Allot(p, i, s, b, c) == [p EXCEPT !.extents[i].state = s, !.free_extents = b, !.next_extent = c]
LEMMA Update ==
  ASSUME NEW m \in Nat, NEW p \in Pools(m), NEW i \in 0 .. m - 1,
         NEW s \in {"FREE", "ALLOCATED"}, NEW b \in Nat, NEW c \in 0 .. m
  PROVE  /\ Moved(p, Allot(p, i, s, b, c), m, i, s, b, c)
         /\ Moved(p, [p EXCEPT !.extents[i].state = s, !.free_extents = b],
                  m, i, s, b, p.next_extent)
<1> DEFINE w == In(p.extents, i, s)
           q == Allot(p, i, s, b, c)
           r == [p EXCEPT !.extents[i].state = s, !.free_extents = b]
<1>1. /\ q = [p EXCEPT !.extents = w, !.free_extents = b, !.next_extent = c]
      /\ r = [p EXCEPT !.extents = w, !.free_extents = b]
  BY DEF In, Allot
<1>2. w \in [0 .. m - 1 -> Extent]
  <2>1. p.extents \in [0 .. m - 1 -> Extent]
    BY DEF Pools
  <2> QED
    BY <2>1, Changed DEF ChangedTo
<1> HIDE DEF w, q, r
<1>3. q \in Pools(m) /\ q.extents = w /\ q.free_extents = b /\ q.next_extent = c
  BY <1>1, <1>2 DEF Pools
<1>4. r \in Pools(m) /\ r.extents = w /\ r.free_extents = b /\ r.next_extent = p.next_extent
  BY <1>1, <1>2 DEF Pools
<1> QED
  BY <1>3, <1>4 DEF w, q, r, Moved

\* One extent changes hands.
LEMMA Taken ==
  ASSUME NEW m \in Nat, NEW p, PoolOK(p, m), NEW i \in FreeSet(p, m),
         p.next_extent = 0 => i = 0, NEW q,
         Moved(p, q, m, i, "ALLOCATED", p.free_extents - 1, i + 1)
  PROVE  PoolOK(q, m) /\ p.free_extents > 0
<1> USE DEF PoolOK
<1>1. p \in Pools(m) /\ i \in 0 .. m - 1 /\ p.extents \in [0 .. m - 1 -> Extent]
  BY DEF FreeSet, Pools
<1> DEFINE f == p.extents
           g == In(f, i, "ALLOCATED")
<1> HIDE DEF f, g
<1>2. /\ g \in [0 .. m - 1 -> Extent] /\ g[i].state = "ALLOCATED"
      /\ \A j \in 0 .. m - 1 : Alike(g[j], f[j])
      /\ \A j \in 0 .. m - 1 : j # i => g[j] = f[j]
  <2>1. f \in [0 .. m - 1 -> Extent]
    BY <1>1 DEF f
  <2>2. ChangedTo(g, f, m, i, "ALLOCATED")
    BY <2>1, <1>1, Changed DEF g
  <2> QED
    BY <2>2 DEF ChangedTo
<1>b. q.extents = g /\ q.free_extents = p.free_extents - 1 /\ q.next_extent = i + 1 /\ p.extents = f
  BY DEF g, f, Moved
<1>3. FreeSet(q, m) = FreeSet(p, m) \ {i}
  BY <1>1, <1>2, <1>b DEF FreeSet
<1>4. IsFiniteSet(FreeSet(p, m)) /\ Cardinality(FreeSet(p, m)) \in Nat
  BY <1>1, TableSize
<1>5. Cardinality(FreeSet(q, m)) = Cardinality(FreeSet(p, m)) - 1 /\ Cardinality(FreeSet(q, m)) \in Nat
  BY <1>3, <1>4, FS_RemoveElement, FS_Subset, FS_CardinalityType
<1>6. q \in Pools(m) /\ q.free_extents = Cardinality(FreeSet(q, m))
  BY <1>5, <1>b DEF Moved
<1>7. \A j \in 0 .. m - 1 : q.extents[j].replica_count = 0
  BY <1>1, <1>2, <1>b DEF Alike
<1>8. q.next_extent > 0 /\ q.extents[0].state = "ALLOCATED"
  <2>1. CASE i = 0
    BY <2>1, <1>1, <1>2, <1>b
  <2>2. CASE i # 0
    <3>1. p.next_extent > 0 /\ 0 \in 0 .. m - 1
      BY <1>1, <2>2 DEF Pools
    <3>2. f[0].state = "ALLOCATED"
      BY <3>1, <1>b
    <3> QED
      BY <3>1, <3>2, <1>1, <1>2, <2>2, <1>b
  <2> QED
    BY <2>1, <2>2
<1> QED
  BY <1>4, <1>5, <1>6, <1>7, <1>8

\* pool_alloc_extent succeeds exactly when an extent is free.
LEMMA AllocExtent ==
  ASSUME NEW m \in Nat, NEW p, PoolOK(p, m)
  PROVE  LET r == pool_alloc_extent(p) IN
         /\ p.free_extents = 0 => r = [ok |-> FALSE, pool |-> p, id |-> 0]
         /\ p.free_extents > 0 =>
              /\ r.ok = TRUE /\ r.id \in FreeSet(p, m)
              /\ (p.next_extent = 0) <=> (r.id = 0)
              /\ Moved(p, r.pool, m, r.id, "ALLOCATED", p.free_extents - 1, r.id + 1)
              /\ PoolOK(r.pool, m)
<1> USE DEF PoolOK
<1> DEFINE free(S) == {i \in S : p.extents[i].state = "FREE"}
           ahead == free(p.next_extent .. total_extents(p) - 1)
           found == IF ahead # {} THEN ahead ELSE free(1 .. p.next_extent - 1)
           r == pool_alloc_extent(p)
<1>1. p \in Pools(m) /\ total_extents(p) = m /\ p.next_extent \in 0 .. m
  BY TableSize DEF Pools
<1>2. p.free_extents = 0 => r = [ok |-> FALSE, pool |-> p, id |-> 0]
  BY DEF pool_alloc_extent
<1> SUFFICES ASSUME p.free_extents > 0
             PROVE  /\ r.ok = TRUE /\ r.id \in FreeSet(p, m)
                    /\ (p.next_extent = 0) <=> (r.id = 0)
                    /\ Moved(p, r.pool, m, r.id, "ALLOCATED", p.free_extents - 1, r.id + 1)
                    /\ PoolOK(r.pool, m)
  BY <1>1, <1>2 DEF Pools
<1>3. FreeSet(p, m) # {}
  <2>1. Cardinality(FreeSet(p, m)) > 0 /\ ~(0 > 0)
    OBVIOUS
  <2> HIDE DEF PoolOK
  <2> QED
    BY <2>1, FS_EmptySet
<1>4. found # {} /\ found \subseteq FreeSet(p, m)
  <2>1. PICK j \in 0 .. m - 1 : p.extents[j].state = "FREE"
    BY <1>3 DEF FreeSet
  <2>2. CASE p.next_extent = 0
    BY <1>1, <2>1, <2>2 DEF FreeSet
  <2>3. CASE p.next_extent > 0
    <3>1. j # 0
      BY <2>1, <2>3
    <3> QED
      BY <1>1, <2>1, <2>3, <3>1 DEF FreeSet
  <2> QED
    BY <1>1, <2>2, <2>3
<1>5. Min(found) \in found
  <2>1. found \subseteq Nat
    BY <1>4 DEF FreeSet
  <2> HIDE DEF found
  <2> QED
    BY <1>4, <2>1, Least
<1>6. (p.next_extent = 0) <=> (Min(found) = 0)
  <2>1. CASE p.next_extent = 0
    <3>1. 0 \in found /\ found \subseteq Nat
      BY <1>1, <1>3, <1>4, <2>1 DEF FreeSet
    <3> HIDE DEF found
    <3>2. \E x \in found : \A y \in found : x <= y
      BY <1>4, <3>1, Free!LeastMember
    <3>3. Min(found) <= 0
      BY <3>1, <3>2 DEF Min
    <3> QED
      BY <2>1, <3>1, <3>3, <1>5
  <2>2. CASE p.next_extent > 0
    BY <1>1, <1>4, <1>5, <2>2 DEF FreeSet
  <2> QED
    BY <1>1, <2>1, <2>2
<1>7. r = [ok |-> TRUE, id |-> Min(found),
           pool |-> [p EXCEPT !.extents[Min(found)].state = "ALLOCATED",
                              !.free_extents = @ - 1, !.next_extent = Min(found) + 1]]
  BY <1>4 DEF pool_alloc_extent
<1> DEFINE i == Min(found)
<1>8. i \in FreeSet(p, m) /\ (p.next_extent = 0 => i = 0)
  BY <1>4, <1>5, <1>6
<1>9. i \in 0 .. m - 1 /\ i + 1 \in 0 .. m /\ p.free_extents - 1 \in Nat
  <2> HIDE DEF i, PoolOK
  <2>1. i \in 0 .. m - 1
    BY <1>8 DEF FreeSet
  <2>2. p.free_extents \in Nat
    BY <1>1 DEF Pools
  <2> QED
    BY <2>1, <2>2
<1>10. r.ok = TRUE /\ r.id = i
       /\ r.pool = [p EXCEPT !.extents[i].state = "ALLOCATED",
                             !.free_extents = p.free_extents - 1, !.next_extent = i + 1]
  <2> HIDE DEF found, r
  <2> QED
    BY <1>7
<1> HIDE DEF i, r
<1>11. Moved(p, r.pool, m, i, "ALLOCATED", p.free_extents - 1, i + 1)
  <2> DEFINE b == p.free_extents - 1
             c == i + 1
  <2>1. b \in Nat /\ c \in 0 .. m
    BY <1>9
  <2>2. r.pool = Allot(p, i, "ALLOCATED", b, c)
    BY <1>10 DEF Allot
  <2> HIDE DEF b, c, PoolOK
  <2>3. p \in Pools(m) /\ i \in 0 .. m - 1
    BY <1>1, <1>9
  <2>4. Moved(p, Allot(p, i, "ALLOCATED", b, c), m, i, "ALLOCATED", b, c)
    BY <2>1, <2>3, Update
  <2> QED
    BY <2>2, <2>4 DEF b, c
<1>12. PoolOK(r.pool, m)
  BY <1>8, <1>11, Taken
<1> QED
  BY <1>6, <1>8, <1>10, <1>11, <1>12 DEF i

\* An extent other than 0 that is in use is given back.
LEMMA FreeExtent ==
  ASSUME NEW m \in Nat, NEW p, PoolOK(p, m), NEW e \in 1 .. m - 1,
         p.extents[e].state = "ALLOCATED"
  PROVE  LET q == pool_free_extent(p, e) IN
         /\ Moved(p, q, m, e, "FREE", p.free_extents + 1, p.next_extent)
         /\ PoolOK(q, m)
<1> USE DEF PoolOK
<1> DEFINE q == pool_free_extent(p, e)
<1>1. p \in Pools(m) /\ e \in 0 .. m - 1 /\ 0 \in 0 .. m - 1 /\ p.extents \in [0 .. m - 1 -> Extent]
      /\ DOMAIN p.extents = 0 .. m - 1 /\ p.next_extent \in 0 .. m
  BY DEF Pools
<1>2. Moved(p, q, m, e, "FREE", p.free_extents + 1, p.next_extent)
  <2>1. q = [p EXCEPT !.extents[e].state = "FREE", !.free_extents = p.free_extents + 1]
    BY <1>1 DEF pool_free_extent
  <2>2. p.free_extents + 1 \in Nat
    BY <1>1 DEF Pools
  <2> HIDE DEF q
  <2> QED
    BY <1>1, <2>1, <2>2, Update
<1> HIDE DEF q
<1> DEFINE f == p.extents
           g == In(f, e, "FREE")
<1> HIDE DEF f, g
<1>3. /\ g \in [0 .. m - 1 -> Extent] /\ g[e].state = "FREE"
      /\ \A j \in 0 .. m - 1 : Alike(g[j], f[j])
      /\ \A j \in 0 .. m - 1 : j # e => g[j] = f[j]
  <2>1. f \in [0 .. m - 1 -> Extent]
    BY <1>1 DEF f
  <2>2. ChangedTo(g, f, m, e, "FREE")
    BY <2>1, <1>1, Changed DEF g
  <2> QED
    BY <2>2 DEF ChangedTo
<1>b. /\ q.extents = g /\ q.free_extents = p.free_extents + 1 /\ q.next_extent = p.next_extent
      /\ p.extents = f
  BY <1>2 DEF g, f, Moved
<1>4. FreeSet(q, m) = FreeSet(p, m) \cup {e} /\ e \notin FreeSet(p, m)
  BY <1>1, <1>3, <1>b DEF FreeSet
<1>5. IsFiniteSet(FreeSet(p, m)) /\ Cardinality(FreeSet(p, m)) \in Nat
  BY <1>1, TableSize
<1>6. Cardinality(FreeSet(q, m)) = Cardinality(FreeSet(p, m)) + 1
  BY <1>4, <1>5, FS_AddElement
<1>7. q \in Pools(m) /\ q.free_extents = Cardinality(FreeSet(q, m))
  BY <1>2, <1>b, <1>6 DEF Moved
<1>8. \A j \in 0 .. m - 1 : q.extents[j].replica_count = 0
  BY <1>1, <1>b, <1>3 DEF Alike
<1>9. p.next_extent > 0
  BY <1>1
<1>10. q.next_extent > 0 /\ q.extents[0].state = "ALLOCATED"
  <2>1. f[0].state = "ALLOCATED"
    BY <1>9, <1>b
  <2> QED
    BY <2>1, <1>1, <1>b, <1>3, <1>9
<1> QED
  BY <1>2, <1>7, <1>8, <1>10 DEF q

\* An allocation that succeeded.
Got(p, r, m) ==
    /\ r.ok = TRUE /\ r.id \in FreeSet(p, m)
    /\ (p.next_extent = 0) <=> (r.id = 0)
    /\ PoolOK(r.pool, m)
    /\ r.pool.free_extents = p.free_extents - 1 /\ r.pool.next_extent = r.id + 1
    /\ ChangedTo(r.pool.extents, p.extents, m, r.id, "ALLOCATED")

LEMMA AllocSucceeds ==
  ASSUME NEW m \in Nat, NEW p, PoolOK(p, m), p.free_extents > 0
  PROVE  Got(p, pool_alloc_extent(p), m)
<1> DEFINE r == pool_alloc_extent(p)
<1>1. /\ r.ok = TRUE /\ r.id \in FreeSet(p, m)
      /\ (p.next_extent = 0) <=> (r.id = 0)
      /\ Moved(p, r.pool, m, r.id, "ALLOCATED", p.free_extents - 1, r.id + 1)
      /\ PoolOK(r.pool, m)
  BY AllocExtent
<1> HIDE DEF r
<1> DEFINE f == p.extents
           i == r.id
<1>2. f \in [0 .. m - 1 -> Extent] /\ i \in 0 .. m - 1
  BY <1>1 DEF PoolOK, Pools, FreeSet
<1> HIDE DEF f, i
<1>3. ChangedTo(In(f, i, "ALLOCATED"), f, m, i, "ALLOCATED")
  BY <1>2, Changed
<1> QED
  BY <1>1, <1>3 DEF f, i, r, Got, Moved

\* Without replicas, a replicated extent is one extent.
LEMMA AllocReplicated ==
  ASSUME NEW m \in Nat, NEW p, PoolOK(p, m), p.free_extents > 0
  PROVE  Got(p, pool_alloc_replicated_extent(p, 0), m)
<1> DEFINE r == pool_alloc_extent(p)
           base == [ok |-> r.ok, pool |-> r.pool, ids |-> <<r.id>>]
           s == pool_alloc_replicated_extent(p, 0)
           q == r.pool
           i == r.id
           x == q.extents
<1>1. Got(p, r, m) /\ p.free_extents \in Nat
  BY AllocSucceeds DEF PoolOK, Pools
<1>2. s = [ok |-> r.ok, id |-> i,
           pool |-> IF r.ok THEN [q EXCEPT !.extents[i].replica_count = 0] ELSE q]
  <2>1. Copy!Rec(r.id, base, 0) = base
    BY Copy!RecZero
  <2> DEFINE last == Copy!Rec(r.id, base, 0)
  <2>2. s = IF p.free_extents < 0 + 1 THEN [ok |-> FALSE, pool |-> p, id |-> 0]
            ELSE [ok |-> last.ok, id |-> r.id,
                  pool |-> IF last.ok THEN [last.pool EXCEPT !.extents[r.id].replica_count = 0]
                                      ELSE last.pool]
    BY ReplicatedIsRec
  <2>3. last.ok = r.ok /\ last.pool = r.pool
    BY <2>1
  <2> HIDE DEF last, r, s
  <2>4. ~(p.free_extents < 0 + 1)
    BY <1>1
  <2> QED
    BY <2>2, <2>3, <2>4
<1>3. q \in Pools(m) /\ x \in [0 .. m - 1 -> Extent] /\ i \in 0 .. m - 1 /\ x[i].replica_count = 0
      /\ r.ok = TRUE
  BY <1>1 DEF Got, PoolOK, Pools, FreeSet
<1> HIDE DEF r, s, q, i, x
<1>4. [q EXCEPT !.extents[i].replica_count = 0] = q
  <2>1. [x[i] EXCEPT !.replica_count = 0] = x[i]
    <3>1. x[i] \in Extent
      BY <1>3
    <3> QED
      BY <1>3, <3>1 DEF Extent
  <2> DEFINE y == [x[i] EXCEPT !.replica_count = 0]
  <2>2. [q EXCEPT !.extents[i].replica_count = 0] = [q EXCEPT !.extents = [x EXCEPT ![i] = y]]
    BY DEF x
  <2> HIDE DEF y
  <2>3. [x EXCEPT ![i] = y] = x
    BY <1>3, <2>1 DEF y
  <2>4. [q EXCEPT !.extents = x] = q
    BY <1>3 DEF Pools, x
  <2> QED
    BY <2>2, <2>3, <2>4
<1>5. s.ok = r.ok /\ s.id = r.id /\ s.pool = r.pool
  BY <1>2, <1>3, <1>4 DEF q, i
<1> QED
  BY <1>1, <1>5 DEF Got, s

\* Without replicas, releasing an entry of an extent map frees one extent.
LEMMA ReleaseIsFree ==
  ASSUME NEW m \in Nat, NEW p, PoolOK(p, m), NEW e \in 1 .. m - 1
  PROVE  Release(p, e) = pool_free_extent(p, e)
<1> DEFINE ext == p.extents[e]
           replicas == [r \in 1 .. ext.replica_count |-> ext.replica_extents[r]]
<1>1. ext.replica_count = 0
  BY DEF PoolOK
<1>2. replicas = << >>
  BY <1>1
<1>3. Append(replicas, e) = <<e>>
  <2>1. Append(<< >>, e) = <<e>>
    OBVIOUS
  <2> HIDE DEF replicas
  <2> QED
    BY <1>2, <2>1
<1>4. Release(p, e) = FoldLeft(pool_free_extent, p, Append(replicas, e))
  BY DEF Release
<1>5. FoldLeft(pool_free_extent, p, <<e>>) = Free!Fold(<<e>>, p, DOMAIN <<e>>)
  BY FreeIsFold
<1>6. DOMAIN <<e>> = 1 .. 1
  OBVIOUS
<1>7. Free!PicksLast(1)
  BY Free!GreatestMember DEF Free!PicksLast, Max
<1>8. Free!Fold(<<e>>, p, 1 .. 1) = FreeStep(<<e>>, 1, p)
  BY <1>7, Free!FoldOne
<1> QED
  BY <1>3, <1>4, <1>5, <1>6, <1>8 DEF FreeStep

\* The loop of volume_destroy frees the extents in the map.
Freed(map, k) == {map[j] : j \in 1 .. k} \ {0}
Releases(p, q, m, map, k) ==
    /\ PoolOK(q, m) /\ q.next_extent = p.next_extent
    /\ \A i \in 0 .. m - 1 : Alike(q.extents[i], p.extents[i])
    /\ \A i \in 0 .. m - 1 : i \in Freed(map, k) => q.extents[i].state = "FREE"
    /\ \A i \in 0 .. m - 1 : i \notin Freed(map, k) => q.extents[i] = p.extents[i]

LEMMA ReleaseOne ==
  ASSUME NEW m \in Nat, NEW p, NEW q, NEW map \in Seq(Nat), NEW k \in 0 .. Len(map) - 1,
         Releases(p, q, m, map, k),
         map[k + 1] # 0 => /\ map[k + 1] \in 0 .. m - 1
                           /\ p.extents[map[k + 1]].state = "ALLOCATED"
                           /\ \A j \in 1 .. k : map[j] # map[k + 1]
  PROVE  Releases(p, Release(q, map[k + 1]), m, map, k + 1)
<1> DEFINE e == map[k + 1]
<1>1. 1 .. k + 1 = (1 .. k) \cup {k + 1} /\ k + 1 \in 1 .. Len(map) /\ e \in Nat
  OBVIOUS
<1>2. CASE e = 0
  <2>1. Freed(map, k + 1) = Freed(map, k)
    BY <1>1, <1>2 DEF Freed
  <2>2. Release(q, e) = q
    BY <1>2 DEF Release
  <2> QED
    BY <2>1, <2>2 DEF Releases
<1>3. CASE e # 0
  <2>1. Freed(map, k + 1) = Freed(map, k) \cup {e} /\ e \notin Freed(map, k)
    BY <1>1, <1>3 DEF Freed
  <2>2. /\ e \in 1 .. m - 1 /\ e \in 0 .. m - 1 /\ PoolOK(q, m) /\ q.extents[e].state = "ALLOCATED"
    BY <1>1, <1>3, <2>1 DEF Releases
  <2> HIDE DEF e
  <2> DEFINE r == pool_free_extent(q, e)
             f == q.extents
  <2>3. Release(q, e) = r
    BY <2>2, ReleaseIsFree
  <2>4. /\ Moved(q, r, m, e, "FREE", q.free_extents + 1, q.next_extent) /\ PoolOK(r, m)
    BY <2>2, FreeExtent
  <2> HIDE DEF r
  <2>5. f \in [0 .. m - 1 -> Extent]
    BY <2>2 DEF PoolOK, Pools
  <2> HIDE DEF f
  <2>6. ChangedTo(In(f, e, "FREE"), f, m, e, "FREE")
    BY <2>2, <2>5, Changed
  <2>7. /\ r.extents[e].state = "FREE" /\ r.next_extent = q.next_extent
        /\ \A j \in 0 .. m - 1 : Alike(r.extents[j], q.extents[j])
        /\ \A j \in 0 .. m - 1 : j # e => r.extents[j] = q.extents[j]
    BY <2>4, <2>6 DEF f, Moved, ChangedTo
  <2>8. \A i \in 0 .. m - 1 : Alike(r.extents[i], p.extents[i])
    BY <2>7 DEF Alike, Releases
  <2>9. \A i \in 0 .. m - 1 : i \in Freed(map, k + 1) => r.extents[i].state = "FREE"
    BY <2>1, <2>7 DEF Releases
  <2>10. \A i \in 0 .. m - 1 : i \notin Freed(map, k + 1) => r.extents[i] = p.extents[i]
    BY <2>1, <2>7 DEF Releases
  <2>11. PoolOK(r, m) /\ r.next_extent = p.next_extent
    BY <2>4, <2>7 DEF Releases
  <2> QED
    BY <2>3, <2>8, <2>9, <2>10, <2>11 DEF Releases, e
<1> QED
  BY <1>2, <1>3

LEMMA ReleaseAll ==
  ASSUME NEW m \in Nat, NEW p, PoolOK(p, m), NEW map \in Seq(Nat),
         \A i \in 1 .. Len(map) : map[i] # 0 =>
             /\ map[i] \in 0 .. m - 1 /\ p.extents[map[i]].state = "ALLOCATED"
             /\ \A j \in 1 .. Len(map) : map[j] = map[i] => j = i
  PROVE  Releases(p, FoldLeft(Release, p, map), m, map, Len(map))
<1> DEFINE n == Len(map)
           I == [k \in 0 .. n |-> {q \in Pools(m) : Releases(p, q, m, map, k)}]
<1>1. n \in Nat /\ DOMAIN map = 1 .. n
  OBVIOUS
<1>2. p \in I[0]
  <2>1. Freed(map, 0) = {}
    BY DEF Freed
  <2>2. p \in Pools(m) /\ Releases(p, p, m, map, 0)
    BY <2>1 DEF Releases, Alike, PoolOK
  <2> QED
    BY <1>1, <2>2
<1>3. \A k \in 0 .. n - 1 : \A q \in I[k] : ReleaseStep(map, k + 1, q) \in I[k + 1]
  <2> SUFFICES ASSUME NEW k \in 0 .. n - 1, NEW q \in I[k]
               PROVE  ReleaseStep(map, k + 1, q) \in I[k + 1]
    OBVIOUS
  <2>1. k \in 0 .. n /\ k + 1 \in 0 .. n /\ k + 1 \in 1 .. n /\ \A j \in 1 .. k : j \in 1 .. n /\ j # k + 1
    BY <1>1
  <2>2. Releases(p, q, m, map, k)
    BY <2>1
  <2>3. map[k + 1] # 0 => /\ map[k + 1] \in 0 .. m - 1
                          /\ p.extents[map[k + 1]].state = "ALLOCATED"
                          /\ \A j \in 1 .. k : map[j] # map[k + 1]
    BY <2>1
  <2> DEFINE r == Release(q, map[k + 1])
  <2>4. Releases(p, r, m, map, k + 1)
    BY <2>2, <2>3, ReleaseOne
  <2> HIDE DEF r
  <2>5. r \in Pools(m)
    BY <2>4 DEF Releases, PoolOK
  <2>6. r \in I[k + 1]
    BY <2>1, <2>4, <2>5
  <2> QED
    BY <2>6 DEF ReleaseStep, r
<1>4. Destroy!PicksLast(n)
  BY <1>1, Destroy!GreatestMember DEF Destroy!PicksLast, Max
<1>5. FoldLeft(Release, p, map) = Destroy!Fold(map, p, 1 .. n)
  BY <1>1, DestroyIsFold
<1>6. Destroy!Fold(map, p, 1 .. n) \in I[n]
  <2> HIDE DEF I, n
  <2> QED
    BY <1>1, <1>2, <1>3, <1>4, Destroy!FoldSeqInduction
<1> QED
  BY <1>1, <1>5, <1>6

-----------------------------------------------------------------------------
(* The pre-allocation loop of volume_create does not fail: free_extents is  *)
(* exact, and the volume was checked against it.                            *)

Allots(p, c, m, k) ==
    /\ c.ok = TRUE /\ PoolOK(c.pool, m) /\ c.pool.free_extents = p.free_extents - k
    /\ c.map \in Seq(Nat) /\ Len(c.map) = k
    /\ \A i \in 1 .. k : /\ c.map[i] \in FreeSet(p, m)
                         /\ c.pool.extents[c.map[i]].state = "ALLOCATED"
    /\ \A i, j \in 1 .. k : c.map[j] = c.map[i] => j = i
    /\ \A i \in 0 .. m - 1 : Alike(c.pool.extents[i], p.extents[i])
    /\ \A i \in 0 .. m - 1 : (\A j \in 1 .. k : c.map[j] # i) => c.pool.extents[i] = p.extents[i]
    /\ k > 0 \/ p.next_extent > 0 => c.pool.next_extent > 0

LEMMA AllotOne ==
  ASSUME NEW m \in Nat, NEW p, p.free_extents \in Nat, NEW c, NEW k \in Nat, k < p.free_extents,
         Allots(p, c, m, k)
  PROVE  Allots(p, CreateStep(0, k + 1, c), m, k + 1)
<1> DEFINE q == c.pool
           r == pool_alloc_replicated_extent(q, 0)
           e == r.id
           s == c.map
           t == Append(s, e)
           d == CreateStep(0, k + 1, c)
<1>1. /\ PoolOK(q, m) /\ q.free_extents = p.free_extents - k /\ s \in Seq(Nat) /\ Len(s) = k
      /\ c.ok = TRUE
  BY DEF Allots
<1>2. Got(q, r, m)
  BY <1>1, AllocReplicated
<1>3. d = [ok |-> TRUE, pool |-> r.pool, map |-> t]
  BY <1>1, <1>2 DEF CreateStep, Got
<1>4. /\ \A i \in 1 .. k : s[i] \in FreeSet(p, m) /\ q.extents[s[i]].state = "ALLOCATED"
      /\ \A i, j \in 1 .. k : s[j] = s[i] => j = i
      /\ \A i \in 0 .. m - 1 : Alike(q.extents[i], p.extents[i])
      /\ \A i \in 0 .. m - 1 : (\A j \in 1 .. k : s[j] # i) => q.extents[i] = p.extents[i]
  BY DEF Allots
<1> HIDE DEF r, q, s, e, d
<1>5. e \in 0 .. m - 1 /\ q.extents[e].state = "FREE" /\ e \in Nat
  BY <1>2 DEF Got, FreeSet, e
<1>6. \A j \in 1 .. k : s[j] # e
  BY <1>4, <1>5
<1>7. e \in FreeSet(p, m)
  BY <1>4, <1>5, <1>6 DEF FreeSet
<1>8. t \in Seq(Nat) /\ Len(t) = k + 1 /\ t[k + 1] = e /\ \A i \in 1 .. k : t[i] = s[i]
  BY <1>1, <1>5, AppendProperties
<1> HIDE DEF t
<1>9. 1 .. k + 1 = (1 .. k) \cup {k + 1} /\ k + 1 \notin 1 .. k
  OBVIOUS
<1> DEFINE x == r.pool.extents
<1>10. /\ x[e].state = "ALLOCATED" /\ \A j \in 0 .. m - 1 : Alike(x[j], q.extents[j])
       /\ \A j \in 0 .. m - 1 : j # e => x[j] = q.extents[j]
       /\ PoolOK(r.pool, m) /\ r.pool.free_extents = q.free_extents - 1
       /\ r.pool.next_extent = e + 1
  BY <1>2 DEF Got, ChangedTo, e
<1>11. d.ok = TRUE /\ d.map = t /\ d.pool = r.pool /\ d.pool.extents = x
  BY <1>3
<1> HIDE DEF x
<1>12. \A i \in 1 .. k + 1 : t[i] \in FreeSet(p, m) /\ x[t[i]].state = "ALLOCATED"
  <2> SUFFICES ASSUME NEW i \in 1 .. k + 1
               PROVE  t[i] \in FreeSet(p, m) /\ x[t[i]].state = "ALLOCATED"
    OBVIOUS
  <2>1. CASE i = k + 1
    BY <2>1, <1>7, <1>8, <1>10
  <2>2. CASE i \in 1 .. k
    <3>1. t[i] = s[i] /\ s[i] \in FreeSet(p, m) /\ q.extents[s[i]].state = "ALLOCATED" /\ s[i] # e
      BY <2>2, <1>4, <1>6, <1>8
    <3>2. s[i] \in 0 .. m - 1
      BY <3>1 DEF FreeSet
    <3> QED
      BY <3>1, <3>2, <1>10
  <2> QED
    BY <1>9, <2>1, <2>2
<1>13. \A i, j \in 1 .. k + 1 : t[j] = t[i] => j = i
  BY <1>4, <1>6, <1>8, <1>9
<1>14. \A i \in 0 .. m - 1 : Alike(x[i], p.extents[i])
  BY <1>4, <1>10 DEF Alike
<1>15. \A i \in 0 .. m - 1 : (\A j \in 1 .. k + 1 : t[j] # i) => x[i] = p.extents[i]
  <2> SUFFICES ASSUME NEW i \in 0 .. m - 1, \A j \in 1 .. k + 1 : t[j] # i
               PROVE  x[i] = p.extents[i]
    OBVIOUS
  <2>1. i # e /\ \A j \in 1 .. k : s[j] # i
    BY <1>8, <1>9
  <2> QED
    BY <2>1, <1>4, <1>10
<1>16. d.pool.free_extents = p.free_extents - (k + 1) /\ d.pool.next_extent > 0
  BY <1>1, <1>5, <1>10, <1>11
<1>17. PoolOK(d.pool, m)
  BY <1>10, <1>11
<1> DEFINE n == k + 1
           y == d.pool
<1>18. y.extents = x /\ y.next_extent > 0 /\ y.free_extents = p.free_extents - n /\ PoolOK(y, m)
  BY <1>11, <1>16, <1>17
<1> HIDE DEF n, y
<1>19. /\ t \in Seq(Nat) /\ Len(t) = n
       /\ \A i \in 1 .. n : t[i] \in FreeSet(p, m) /\ x[t[i]].state = "ALLOCATED"
       /\ \A i, j \in 1 .. n : t[j] = t[i] => j = i
       /\ \A i \in 0 .. m - 1 : (\A j \in 1 .. n : t[j] # i) => x[i] = p.extents[i]
  BY <1>8, <1>12, <1>13, <1>15 DEF n
<1>20. d.ok = TRUE /\ d.map = t /\ d.pool = y
  BY <1>11 DEF y
<1>21. Allots(p, d, m, n)
  <2>1. /\ d.ok = TRUE /\ PoolOK(d.pool, m) /\ d.pool.free_extents = p.free_extents - n
        /\ d.map \in Seq(Nat) /\ Len(d.map) = n /\ d.pool.next_extent > 0
    BY <1>18, <1>19, <1>20
  <2>2. d.map = t /\ d.pool.extents = x
    BY <1>18, <1>20
  <2>3. /\ \A i \in 1 .. n : /\ d.map[i] \in FreeSet(p, m)
                             /\ d.pool.extents[d.map[i]].state = "ALLOCATED"
        /\ \A i, j \in 1 .. n : d.map[j] = d.map[i] => j = i
    BY <1>19, <2>2
  <2>4. /\ \A i \in 0 .. m - 1 : Alike(d.pool.extents[i], p.extents[i])
        /\ \A i \in 0 .. m - 1 : (\A j \in 1 .. n : d.map[j] # i)
                                   => d.pool.extents[i] = p.extents[i]
    BY <1>14, <1>19, <2>2
  <2> QED
    BY <2>1, <2>3, <2>4, Zenon DEF Allots
<1> QED
  BY <1>21 DEF d, n

LEMMA AllotAll ==
  ASSUME NEW m \in Nat, NEW p, PoolOK(p, m), NEW n \in Nat, n <= p.free_extents
  PROVE  Allots(p, Preallocate(p, n, 0), m, n)
<1> DEFINE U == [ok : BOOLEAN, pool : Pools(m), map : Seq(Nat)]
           I == [k \in 0 .. n |-> {c \in U : Allots(p, c, m, k)}]
           base == [ok |-> TRUE, pool |-> p, map |-> << >>]
<1>1. p \in Pools(m) /\ p.free_extents \in Nat
  BY DEF PoolOK, Pools
<1>2. base \in I[0]
  <2>1. base \in U
    BY <1>1
  <2>2. << >> \in Seq(Nat) /\ Len(<< >>) = 0 /\ \A i \in 1 .. 0 : FALSE
    OBVIOUS
  <2>3. base.ok = TRUE /\ base.pool = p /\ base.map = << >>
    OBVIOUS
  <2> HIDE DEF base
  <2>4. Allots(p, base, m, 0)
    BY <1>1, <2>2, <2>3 DEF Allots, Alike
  <2> QED
    BY <2>1, <2>4
<1>3. \A k \in 0 .. n - 1 : \A c \in I[k] : CreateStep(0, k + 1, c) \in I[k + 1]
  <2> SUFFICES ASSUME NEW k \in 0 .. n - 1, NEW c \in I[k]
               PROVE  CreateStep(0, k + 1, c) \in I[k + 1]
    OBVIOUS
  <2>1. k \in Nat /\ k < p.free_extents /\ k \in 0 .. n /\ k + 1 \in 0 .. n
    BY <1>1
  <2>2. c \in U /\ Allots(p, c, m, k)
    BY <2>1
  <2> DEFINE d == CreateStep(0, k + 1, c)
  <2>3. Allots(p, d, m, k + 1)
    BY <1>1, <2>1, <2>2, AllotOne
  <2>4. d \in U
    <3> DEFINE r == pool_alloc_replicated_extent(c.pool, 0)
    <3>1. c.ok = TRUE /\ Got(c.pool, r, m) /\ c.map \in Seq(Nat)
      <4>1. c.ok = TRUE /\ PoolOK(c.pool, m) /\ c.pool.free_extents = p.free_extents - k
            /\ c.map \in Seq(Nat)
        BY <2>2 DEF Allots
      <4>2. c.pool.free_extents > 0
        BY <4>1, <2>1, <1>1
      <4> QED
        BY <4>1, <4>2, AllocReplicated
    <3>2. d = [ok |-> TRUE, pool |-> r.pool, map |-> Append(c.map, r.id)]
      BY <3>1 DEF CreateStep, Got
    <3>3. r.pool \in Pools(m) /\ r.id \in Nat
      BY <3>1 DEF Got, PoolOK, FreeSet
    <3> HIDE DEF r, d
    <3>4. Append(c.map, r.id) \in Seq(Nat)
      BY <3>1, <3>3
    <3> QED
      BY <3>2, <3>3, <3>4
  <2> HIDE DEF d, U
  <2>5. d \in I[k + 1]
    BY <2>1, <2>3, <2>4
  <2> QED
    BY <2>5 DEF d
<1>4. Preallocate(p, n, 0) = Create!Rec(0, base, n)
  BY CreateIsRec
<1>5. Create!Rec(0, base, n) \in I[n]
  <2> HIDE DEF I, base
  <2> QED
    BY <1>2, <1>3, Create!RecInduction
<1> HIDE DEF U
<1> QED
  BY <1>4, <1>5

-----------------------------------------------------------------------------
(* The invariant. *)

LiveIn(vol) == {v \in Volume : vol[v] # Nil}
Map(vol, v) == vol[v].extent_map
Places(vol, v) == 1 .. Len(Map(vol, v))
Blocks(vol, v) == 0 .. Len(Map(vol, v)) * BLOCKS_PER_EXTENT - 1

\* An entry other than 0 names an extent in use, and no other entry of any
\* volume names it too.
Exclusive(vol, p, m, v, i) ==
    Map(vol, v)[i] # 0 =>
        /\ Map(vol, v)[i] \in 0 .. m - 1
        /\ p.extents[Map(vol, v)[i]].state = "ALLOCATED"
        /\ \A w \in LiveIn(vol) : \A j \in Places(vol, w) :
             Map(vol, w)[j] = Map(vol, v)[i] => w = v /\ j = i
Maps(vol, p, m) ==
    /\ vol \in [Volume -> VolumeRecord \cup {Nil}]
    /\ \A v \in LiveIn(vol) : Len(Map(vol, v)) <= MaxExtents
    /\ \A v \in LiveIn(vol) : \A i \in Places(vol, v) : Exclusive(vol, p, m, v, i)
    /\ LiveIn(vol) # {} => p.next_extent > 0

\* Every extent in use but extent 0 is in some map.
Owned(vol, p, m) ==
    \A e \in 1 .. m - 1 :
        p.extents[e].state = "ALLOCATED" =>
            \E v \in LiveIn(vol) : \E i \in Places(vol, v) : Map(vol, v)[i] = e

\* Each extent has a place of its own on one of the n devices.
Layout(p, m, devs, n) ==
    /\ devs \in [Slot -> Device \cup {Nil}] /\ n \in 0 .. POOL_MAX_DEVICES
    /\ \A s \in 0 .. n - 1 : devs[s] \in Device
    /\ \A s, t \in 0 .. n - 1 : devs[s] = devs[t] => s = t
    /\ \A i \in 0 .. m - 1 : /\ p.extents[i].device_id \in 0 .. n - 1
                             /\ p.extents[i].device_offset < DeviceExtents[devs[p.extents[i].device_id]]
    /\ \A i, j \in 0 .. m - 1 :
         /\ p.extents[i].device_id = p.extents[j].device_id
         /\ p.extents[i].device_offset = p.extents[j].device_offset
         => i = j

\* What was written to a block is on the device.
Cell(p, devs, dk, e, b) == dk[devs[p.extents[e].device_id]][PhysOffset(p, e, b)]
Held(vol, p, devs, dk, wr, v, b) ==
    wr[v][b] # Nil =>
        /\ Map(vol, v)[ExtentIndex(b)] # 0
        /\ Cell(p, devs, dk, Map(vol, v)[ExtentIndex(b)], b) = wr[v][b]
Stored(vol, p, devs, dk, wr) ==
    /\ dk = [d \in Device |-> dk[d]]
    /\ \A d \in Device : DOMAIN dk[d] = 0 .. DeviceBlocks(d) - 1
    /\ wr = [v \in Volume |-> wr[v]]
    /\ \A v \in LiveIn(vol) : DOMAIN wr[v] = Blocks(vol, v)
    /\ \A v \in LiveIn(vol) : \A b \in Blocks(vol, v) : Held(vol, p, devs, dk, wr, v, b)

Size == total_extents(pool)
PoolSound ==
    /\ Plain
    /\ pool_state \in {"NONE", "OFFLINE", "ONLINE"}
    /\ used_size \in 0 .. SIZE_MODULUS - 1 /\ free_size \in 0 .. SIZE_MODULUS - 1
    /\ Size \in Nat /\ PoolOK(pool, Size)
    /\ Maps(volumes, pool, Size) /\ Owned(volumes, pool, Size)
    /\ Layout(pool, Size, devices, device_count)
    /\ Stored(volumes, pool, devices, disk, written)

-----------------------------------------------------------------------------
(* Blocks and extents. *)

LEMMA Division ==
  ASSUME NEW n \in Nat \ {0}, NEW x \in Nat
  PROVE  /\ x \div n \in Nat /\ x % n \in 0 .. n - 1
         /\ x = (x \div n) * n + (x % n)
OBVIOUS

LEMMA Product ==
  ASSUME NEW n \in Nat \ {0}, NEW a \in Int, NEW b \in Int, a < b
  PROVE  a * n + n <= b * n
<1>1. (b - a) * n >= n
  OBVIOUS
<1> QED
  BY <1>1

\* Quotient and remainder are the only ones.
LEMMA Digits ==
  ASSUME NEW n \in Nat \ {0}, NEW p \in Nat, NEW q \in Nat, NEW r \in 0 .. n - 1,
         NEW s \in 0 .. n - 1, p * n + r = q * n + s
  PROVE  p = q /\ r = s
<1>0. p * n \in Nat /\ q * n \in Nat
  OBVIOUS
<1>1. ~(p < q)
  <2> SUFFICES ASSUME p < q PROVE FALSE
    OBVIOUS
  <2>1. p * n + n <= q * n
    BY Product
  <2> QED
    BY <1>0, <2>1
<1>2. ~(q < p)
  <2> SUFFICES ASSUME q < p PROVE FALSE
    OBVIOUS
  <2>1. q * n + n <= p * n
    BY Product
  <2> QED
    BY <1>0, <2>1
<1>3. p = q
  BY <1>1, <1>2
<1> QED
  BY <1>3, <1>0

\* A block of a volume lies in one of its extents.
LEMMA BlockPlace ==
  ASSUME NEW k \in Nat, NEW b \in 0 .. k * BLOCKS_PER_EXTENT - 1
  PROVE  ExtentIndex(b) \in 1 .. k
<1> DEFINE n == BLOCKS_PER_EXTENT
           q == b \div n
           r == b % n
<1>1. n \in Nat \ {0}
  BY PoolConstants
<1> HIDE DEF n
<1>2. b \in Nat /\ b < k * n
  BY <1>1 DEF n
<1>3. q \in Nat /\ r \in 0 .. n - 1 /\ b = q * n + r
  BY <1>1, <1>2, Division
<1> HIDE DEF q, r
<1>4. q < k
  <2> SUFFICES ASSUME k <= q PROVE FALSE
    BY <1>3
  <2>1. CASE k = q
    BY <1>1, <1>2, <1>3, <2>1
  <2>2. CASE k < q
    <3>1. k * n + n <= q * n
      BY <1>1, <1>3, <2>2, Product
    <3>2. k * n \in Nat /\ q * n \in Nat
      BY <1>1, <1>3
    <3> QED
      BY <1>1, <1>2, <1>3, <3>1, <3>2
  <2> QED
    BY <1>3, <2>1, <2>2
<1>5. ExtentIndex(b) = q + 1
  BY DEF ExtentIndex, q, n
<1> QED
  BY <1>3, <1>4, <1>5

\* The blocks of a run that begins and ends in one extent.
LEMMA OneExtent ==
  ASSUME NEW n \in Nat \ {0}, NEW x \in Nat, NEW l \in Nat \ {0}, NEW k \in 0 .. l - 1,
         x \div n = (x + l - 1) \div n
  PROVE  /\ (x + k) \div n = x \div n /\ (x + k) % n = (x % n) + k
         /\ (x % n) + l <= n
<1> DEFINE y == x + l - 1
           z == x + k
           q == x \div n
           r == x % n
           s == y % n
<1>1. y \in Nat /\ z \in Nat
  OBVIOUS
<1>2. q \in Nat /\ r \in 0 .. n - 1 /\ x = q * n + r
  BY Division
<1>3. s \in 0 .. n - 1 /\ y = q * n + s
  <2>1. y \div n = q
    OBVIOUS
  <2> HIDE DEF q, y
  <2> QED
    BY <1>1, <2>1, Division
<1>4. /\ z \div n \in Nat /\ z % n \in 0 .. n - 1 /\ z = (z \div n) * n + (z % n)
  <2> HIDE DEF z
  <2> QED
    BY <1>1, Division
<1>5. q * n \in Nat
  <2> HIDE DEF q
  <2> QED
    BY <1>2
<1>6. y = x + l - 1 /\ z = x + k
  OBVIOUS
<1> HIDE DEF y, z, q, r, s
<1>7. r + k \in 0 .. n - 1 /\ r + l <= n /\ z = q * n + (r + k)
  <2> DEFINE w == q * n
  <2>1. w \in Nat /\ x = w + r /\ y = w + s
    BY <1>2, <1>3, <1>5
  <2> HIDE DEF w
  <2>2. r + k \in 0 .. n - 1 /\ r + l <= n /\ z = w + (r + k)
    BY <2>1, <1>2, <1>3, <1>6
  <2> QED
    BY <2>2 DEF w
<1>8. z \div n = q /\ z % n = r + k
  BY <1>2, <1>4, <1>7, Digits
<1> QED
  BY <1>6, <1>7, <1>8 DEF q, r, z

-----------------------------------------------------------------------------
(* What does not change. *)

Same(p, q, m) == \A i \in 0 .. m - 1 : Alike(q.extents[i], p.extents[i])

LEMMA LayoutKept ==
  ASSUME NEW m, NEW p, NEW q, NEW devs, NEW n, Layout(p, m, devs, n), Same(p, q, m)
  PROVE  Layout(q, m, devs, n)
  BY DEF Layout, Same, Alike

LEMMA CellKept ==
  ASSUME NEW m, NEW p, NEW q, NEW devs, NEW dk, Same(p, q, m), NEW e \in 0 .. m - 1, NEW b
  PROVE  Cell(q, devs, dk, e, b) = Cell(p, devs, dk, e, b)
  BY DEF Cell, PhysOffset, Same, Alike

\* A block of a volume that was not written, or that is where it was before.
Carried(vol, wr, vol2, wr2, v, b) ==
    \/ wr2[v][b] = Nil
    \/ /\ v \in LiveIn(vol) /\ b \in Blocks(vol, v) /\ wr2[v][b] = wr[v][b]
       /\ Map(vol2, v)[ExtentIndex(b)] = Map(vol, v)[ExtentIndex(b)]
CarriedAll(vol, wr, vol2, wr2) ==
    /\ wr2 = [v \in Volume |-> wr2[v]]
    /\ \A v \in LiveIn(vol2) : DOMAIN wr2[v] = Blocks(vol2, v)
    /\ \A v \in LiveIn(vol2) : \A b \in Blocks(vol2, v) : Carried(vol, wr, vol2, wr2, v, b)

\* An entry of a map is 0 or an extent of the table.
LEMMA EntryOK ==
  ASSUME NEW vol, NEW p, NEW m, Maps(vol, p, m), NEW v \in LiveIn(vol), NEW b \in Blocks(vol, v),
         NEW e, e = Map(vol, v)[ExtentIndex(b)]
  PROVE  /\ ExtentIndex(b) \in Places(vol, v) /\ e \in Nat
         /\ e # 0 => e \in 0 .. m - 1
<1>1. vol[v] \in VolumeRecord
  BY DEF Maps, LiveIn
<1>2. Map(vol, v) \in Seq(Nat) /\ Len(Map(vol, v)) \in Nat
  BY <1>1 DEF Map, VolumeRecord
<1>3. ExtentIndex(b) \in Places(vol, v)
  BY <1>2, BlockPlace DEF Blocks, Places
<1>4. Exclusive(vol, p, m, v, ExtentIndex(b))
  BY <1>3 DEF Maps
<1> QED
  BY <1>2, <1>3, <1>4 DEF Exclusive, Places

LEMMA StoredKept ==
  ASSUME NEW vol, NEW p, NEW q, NEW m, NEW devs, NEW dk, NEW wr, NEW vol2, NEW wr2,
         Maps(vol, p, m), Same(p, q, m), Stored(vol, p, devs, dk, wr),
         CarriedAll(vol, wr, vol2, wr2)
  PROVE  Stored(vol2, q, devs, dk, wr2)
<1> SUFFICES ASSUME NEW v \in LiveIn(vol2), NEW b \in Blocks(vol2, v)
             PROVE  Held(vol2, q, devs, dk, wr2, v, b)
  BY DEF Stored, CarriedAll
<1>1. Carried(vol, wr, vol2, wr2, v, b)
  BY DEF CarriedAll
<1>2. CASE wr2[v][b] = Nil
  BY <1>2 DEF Held
<1>3. CASE wr2[v][b] # Nil
  <2> DEFINE e == Map(vol, v)[ExtentIndex(b)]
  <2>1. /\ v \in LiveIn(vol) /\ b \in Blocks(vol, v) /\ wr2[v][b] = wr[v][b]
        /\ Map(vol2, v)[ExtentIndex(b)] = e
    BY <1>1, <1>3 DEF Carried
  <2>2. e # 0 /\ Cell(p, devs, dk, e, b) = wr[v][b]
    BY <2>1, <1>3 DEF Stored, Held
  <2>3. e \in 0 .. m - 1
    BY <2>1, <2>2, EntryOK
  <2> HIDE DEF e
  <2>4. Cell(q, devs, dk, e, b) = Cell(p, devs, dk, e, b)
    BY <2>3, CellKept
  <2> QED
    BY <2>1, <2>2, <2>4 DEF Held
<1> QED
  BY <1>2, <1>3

LEMMA Assemble ==
  ASSUME Plain, NEW m \in Nat, PoolOK(pool', m),
         pool_state' \in {"NONE", "OFFLINE", "ONLINE"},
         used_size' \in 0 .. SIZE_MODULUS - 1, free_size' \in 0 .. SIZE_MODULUS - 1,
         Maps(volumes', pool', m), Owned(volumes', pool', m),
         Layout(pool', m, devices', device_count'),
         Stored(volumes', pool', devices', disk', written')
  PROVE  PoolSound'
<1>1. pool' \in Pools(m)
  BY DEF PoolOK
<1>2. Size' = m
  BY <1>1, TableSize DEF Size, total_extents
<1> QED
  BY <1>2 DEF PoolSound, Plain

\* Nothing is kept when no volume is left.
LEMMA NoVolumes ==
  ASSUME NEW vol, vol = [v \in Volume |-> Nil], NEW p, NEW m
  PROVE  LiveIn(vol) = {} /\ Maps(vol, p, m)
  BY DEF LiveIn, Maps

LEMMA EmptyIsOK ==
  /\ PoolOK(EmptyPool, 0)
  /\ \A vol : Owned(vol, EmptyPool, 0)
  /\ Layout(EmptyPool, 0, [s \in Slot |-> Nil], 0)
  /\ total_extents(EmptyPool) = 0
<1> DEFINE x == EmptyPool.extents
<1>1. x = << >> /\ EmptyPool.free_extents = 0 /\ EmptyPool.next_extent = 0
  BY DEF EmptyPool
<1>2. 0 .. 0 - 1 = {} /\ 1 .. 0 - 1 = {} /\ 0 .. 0 = {0}
  OBVIOUS
<1>3. << >> \in [0 .. 0 - 1 -> Extent] /\ DOMAIN << >> = {}
  BY <1>2
<1>4. EmptyPool \in Pools(0)
  BY <1>2, <1>3 DEF Pools, EmptyPool
<1>5. FreeSet(EmptyPool, 0) = {}
  BY <1>2 DEF FreeSet
<1>6. PoolOK(EmptyPool, 0)
  BY <1>1, <1>2, <1>4, <1>5, FS_EmptySet DEF PoolOK
<1>7. Layout(EmptyPool, 0, [s \in Slot |-> Nil], 0)
  <2>1. 0 \in 0 .. POOL_MAX_DEVICES
    BY PoolConstants
  <2> QED
    BY <1>2, <2>1 DEF Layout
<1>8. total_extents(EmptyPool) = 0
  BY <1>1, <1>3, FS_EmptySet DEF total_extents
<1> QED
  BY <1>2, <1>6, <1>7, <1>8 DEF Owned

LEMMA Modulo == \A n \in Int : Wrap(n) \in 0 .. SIZE_MODULUS - 1
  BY PoolConstants DEF Wrap
LEMMA ZeroSize == 0 \in 0 .. SIZE_MODULUS - 1
  BY PoolConstants

LEMMA PoolStart == Init /\ Plain => PoolSound
<1> SUFFICES ASSUME Init, Plain PROVE PoolSound
  OBVIOUS
<1>1. pool = EmptyPool /\ volumes = [v \in Volume |-> Nil]
  BY DEF Init
<1>2. Size = 0
  BY <1>1, EmptyIsOK DEF Size
<1>3. LiveIn(volumes) = {} /\ Maps(volumes, pool, 0)
  BY <1>1, NoVolumes
<1>4. Layout(pool, 0, devices, device_count)
  BY <1>1, EmptyIsOK DEF Init
<1>5. Stored(volumes, pool, devices, disk, written)
  BY <1>3 DEF Init, Stored
<1>6. PoolOK(pool, 0) /\ Owned(volumes, pool, 0)
  BY <1>1, EmptyIsOK
<1> QED
  BY <1>2, <1>3, <1>4, <1>5, <1>6, ZeroSize DEF PoolSound, Init

LEMMA SoundCreatePool == PoolSound /\ pool_create => PoolSound'
<1> SUFFICES ASSUME PoolSound, pool_create PROVE PoolSound'
  OBVIOUS
<1> USE DEF pool_create, PoolSound
<1>1. Size \in Nat
  OBVIOUS
<1> QED
  BY <1>1, Assemble

LEMMA SoundDestroyPool == PoolSound /\ pool_destroy => PoolSound'
<1> SUFFICES ASSUME PoolSound, pool_destroy PROVE PoolSound'
  OBVIOUS
<1>1. pool' = EmptyPool /\ volumes' = [v \in Volume |-> Nil]
  BY DEF pool_destroy
<1>2. LiveIn(volumes') = {} /\ Maps(volumes', pool', 0)
  BY <1>1, NoVolumes
<1>3. Layout(pool', 0, devices', device_count')
  BY <1>1, EmptyIsOK DEF pool_destroy
<1>4. Stored(volumes', pool', devices', disk', written')
  BY <1>2 DEF pool_destroy, Stored, PoolSound
<1>5. PoolOK(pool', 0) /\ Owned(volumes', pool', 0)
  BY <1>1, EmptyIsOK
<1>6. /\ pool_state' \in {"NONE", "OFFLINE", "ONLINE"} /\ Plain
      /\ used_size' \in 0 .. SIZE_MODULUS - 1 /\ free_size' \in 0 .. SIZE_MODULUS - 1
  BY ZeroSize DEF pool_destroy, PoolSound
<1> QED
  BY <1>2, <1>3, <1>4, <1>5, <1>6, Assemble

-----------------------------------------------------------------------------
(* volume_destroy *)

LEMMA RecordOf ==
  ASSUME NEW vol, NEW p, NEW m, Maps(vol, p, m), NEW v \in LiveIn(vol)
  PROVE  /\ v \in Volume /\ vol[v] \in VolumeRecord /\ vol[v] # Nil
         /\ Map(vol, v) \in Seq(Nat) /\ Len(Map(vol, v)) \in Nat
         /\ DOMAIN Map(vol, v) = Places(vol, v)
<1>1. v \in Volume /\ vol[v] \in VolumeRecord /\ vol[v] # Nil
  BY DEF Maps, LiveIn
<1>2. Map(vol, v) \in Seq(Nat)
  BY <1>1 DEF Map, VolumeRecord
<1> QED
  BY <1>1, <1>2 DEF Places

Without(vol, v) == [vol EXCEPT ![v] = Nil]
Destroyed(vol, vol2, q, m, v) ==
    /\ Maps(vol2, q, m) /\ Owned(vol2, q, m)
    /\ LiveIn(vol2) = LiveIn(vol) \ {v}
    /\ \A w \in LiveIn(vol2) : vol2[w] = vol[w]

LEMMA DestroyMaps ==
  ASSUME NEW m \in Nat, NEW p, NEW q, NEW vol, NEW vol2, NEW v \in LiveIn(vol),
         Maps(vol, p, m), Owned(vol, p, m), vol2 = Without(vol, v),
         Releases(p, q, m, Map(vol, v), Len(Map(vol, v)))
  PROVE  Destroyed(vol, vol2, q, m, v)
<1> DEFINE map == Map(vol, v)
<1>1. /\ v \in Volume /\ vol \in [Volume -> VolumeRecord \cup {Nil}]
  BY RecordOf DEF Maps
<1>2. LiveIn(vol2) = LiveIn(vol) \ {v} /\ \A w \in LiveIn(vol2) : vol2[w] = vol[w]
  BY <1>1 DEF LiveIn, Without
<1>3. vol2 \in [Volume -> VolumeRecord \cup {Nil}]
  BY <1>1 DEF Without
<1>4. Freed(map, Len(map)) = {map[j] : j \in Places(vol, v)} \ {0}
  BY DEF Freed, Places
<1>5. \A w \in LiveIn(vol2) : w \in LiveIn(vol) /\ w # v /\ Map(vol2, w) = Map(vol, w)
                              /\ Places(vol2, w) = Places(vol, w)
  BY <1>2 DEF Map, Places
<1> HIDE DEF map
<1>6. ASSUME NEW w \in LiveIn(vol2), NEW i \in Places(vol2, w)
      PROVE  Exclusive(vol2, q, m, w, i)
  <2> DEFINE e == Map(vol, w)[i]
  <2> SUFFICES ASSUME e # 0
               PROVE  /\ e \in 0 .. m - 1 /\ q.extents[e].state = "ALLOCATED"
                      /\ \A u \in LiveIn(vol2) : \A j \in Places(vol2, u) :
                           Map(vol2, u)[j] = e => u = w /\ j = i
    BY <1>5 DEF Exclusive
  <2>1. Exclusive(vol, p, m, w, i)
    BY <1>5, <1>6 DEF Maps
  <2>2. /\ e \in 0 .. m - 1 /\ p.extents[e].state = "ALLOCATED"
        /\ \A u \in LiveIn(vol) : \A j \in Places(vol, u) : Map(vol, u)[j] = e => u = w /\ j = i
    BY <2>1 DEF Exclusive
  <2>3. e \notin Freed(map, Len(map))
    BY <1>4, <1>5, <1>6, <2>2 DEF map
  <2>4. q.extents[e] = p.extents[e]
    BY <2>2, <2>3 DEF Releases, map
  <2> QED
    BY <2>2, <2>4, <1>5
<1>7. \A w \in LiveIn(vol2) : Len(Map(vol2, w)) <= MaxExtents
  BY <1>5 DEF Maps
<1>8. LiveIn(vol2) # {} => q.next_extent > 0
  BY <1>2 DEF Maps, Releases
<1>9. Maps(vol2, q, m)
  BY <1>3, <1>6, <1>7, <1>8 DEF Maps
<1>10. ASSUME NEW e \in 1 .. m - 1, q.extents[e].state = "ALLOCATED"
       PROVE  \E w \in LiveIn(vol2) : \E i \in Places(vol2, w) : Map(vol2, w)[i] = e
  <2>1. e \in 0 .. m - 1
    OBVIOUS
  <2>2. e \notin Freed(map, Len(map))
    BY <1>10, <2>1 DEF Releases, map
  <2>3. p.extents[e].state = "ALLOCATED"
    BY <1>10, <2>1, <2>2 DEF Releases, map
  <2>4. PICK w \in LiveIn(vol) : \E i \in Places(vol, w) : Map(vol, w)[i] = e
    BY <2>3 DEF Owned
  <2>5. PICK i \in Places(vol, w) : Map(vol, w)[i] = e
    BY <2>4
  <2>6. w # v
    BY <1>4, <2>2, <2>5 DEF map
  <2>7. w \in LiveIn(vol2)
    BY <1>2, <2>6
  <2> QED
    BY <2>5, <2>7, <1>5
<1> QED
  BY <1>2, <1>9, <1>10 DEF Owned, Destroyed

LEMMA DestroyReleases ==
  ASSUME PoolSound, NEW v \in LiveIn(volumes)
  PROVE  Releases(pool, FoldLeft(Release, pool, Map(volumes, v)), Size, Map(volumes, v),
                  Len(Map(volumes, v)))
<1> DEFINE m == Size
           map == Map(volumes, v)
<1>1. m \in Nat /\ PoolOK(pool, m) /\ Maps(volumes, pool, m)
  BY DEF PoolSound
<1>2. map \in Seq(Nat)
  BY <1>1, RecordOf
<1> HIDE DEF m
<1>3. \A i \in 1 .. Len(map) : map[i] # 0 =>
         /\ map[i] \in 0 .. m - 1 /\ pool.extents[map[i]].state = "ALLOCATED"
         /\ \A j \in 1 .. Len(map) : map[j] = map[i] => j = i
  <2> SUFFICES ASSUME NEW i \in 1 .. Len(map), map[i] # 0
               PROVE  /\ map[i] \in 0 .. m - 1 /\ pool.extents[map[i]].state = "ALLOCATED"
                      /\ \A j \in 1 .. Len(map) : map[j] = map[i] => j = i
    OBVIOUS
  <2>1. i \in Places(volumes, v) /\ Places(volumes, v) = 1 .. Len(map)
    BY DEF Places
  <2>2. Exclusive(volumes, pool, m, v, i)
    BY <2>1, <1>1 DEF Maps
  <2> QED
    BY <2>1, <2>2 DEF Exclusive
<1> HIDE DEF map
<1> QED
  BY <1>1, <1>2, <1>3, ReleaseAll DEF m, map

LEMMA SoundDestroy ==
  ASSUME PoolSound, NEW v \in Volume, volume_destroy(v)
  PROVE  PoolSound'
<1> DEFINE m == Size
           map == Map(volumes, v)
           vol2 == [volumes EXCEPT ![v] = Nil]
           q == FoldLeft(Release, pool, map)
           wr2 == [written EXCEPT ![v] = << >>]
<1>1. /\ v \in LiveIn(volumes) /\ pool' = q /\ volumes' = vol2 /\ written' = wr2
      /\ used_size' = Wrap(used_size - volumes[v].allocated)
      /\ free_size' = Wrap(free_size + volumes[v].allocated)
      /\ UNCHANGED <<pool_state, devices, device_count, disk>>
  BY DEF volume_destroy, Live, LiveIn, Map
<1>2. /\ m \in Nat /\ PoolOK(pool, m) /\ Maps(volumes, pool, m) /\ Owned(volumes, pool, m)
      /\ Layout(pool, m, devices, device_count) /\ Stored(volumes, pool, devices, disk, written)
  BY DEF PoolSound
<1>3. volumes[v] \in VolumeRecord /\ map \in Seq(Nat) /\ DOMAIN map = Places(volumes, v)
  BY <1>1, <1>2, RecordOf
<1>4. volumes[v].allocated \in Nat /\ used_size \in Int /\ free_size \in Int
  BY <1>3, PoolConstants DEF VolumeRecord, PoolSound
<1> HIDE DEF q, m
<1>5. Releases(pool, q, m, map, Len(map))
  BY <1>1, DestroyReleases DEF m, q
<1>6. /\ Maps(vol2, q, m) /\ Owned(vol2, q, m) /\ LiveIn(vol2) = LiveIn(volumes) \ {v}
      /\ \A w \in LiveIn(vol2) : vol2[w] = volumes[w]
  <2>1. vol2 = Without(volumes, v) /\ Releases(pool, q, m, Map(volumes, v), Len(Map(volumes, v)))
    BY <1>5 DEF Without
  <2> HIDE DEF vol2, map
  <2>2. Destroyed(volumes, vol2, q, m, v)
    BY <1>1, <1>2, <2>1, DestroyMaps
  <2> QED
    BY <2>2 DEF Destroyed
<1>7. PoolOK(q, m) /\ Same(pool, q, m)
  BY <1>5 DEF Releases, Same
<1>8. Layout(q, m, devices, device_count)
  BY <1>2, <1>7, LayoutKept
<1>9. CarriedAll(volumes, written, vol2, wr2)
  <2>1. written = [w \in Volume |-> written[w]] /\ \A w \in LiveIn(volumes) : DOMAIN written[w] = Blocks(volumes, w)
    BY <1>2 DEF Stored
  <2>2. wr2 = [w \in Volume |-> wr2[w]] /\ \A w \in Volume : w # v => wr2[w] = written[w]
    BY <2>1
  <2>3. \A w \in LiveIn(vol2) : /\ w \in LiveIn(volumes) /\ w # v /\ w \in Volume
                                /\ Map(vol2, w) = Map(volumes, w)
                                /\ Blocks(vol2, w) = Blocks(volumes, w)
    BY <1>6 DEF Map, Blocks, LiveIn
  <2> HIDE DEF vol2, wr2
  <2> QED
    BY <2>1, <2>2, <2>3 DEF CarriedAll, Carried
<1>10. Stored(vol2, q, devices, disk, wr2)
  <2> HIDE DEF vol2, wr2
  <2> QED
    BY <1>2, <1>7, <1>9, StoredKept
<1>11. used_size' \in 0 .. SIZE_MODULUS - 1 /\ free_size' \in 0 .. SIZE_MODULUS - 1
  <2>1. used_size - volumes[v].allocated \in Int /\ free_size + volumes[v].allocated \in Int
    BY <1>4
  <2> QED
    BY <1>1, <2>1, Modulo
<1>12. /\ PoolOK(pool', m) /\ Maps(volumes', pool', m) /\ Owned(volumes', pool', m)
       /\ Layout(pool', m, devices', device_count')
       /\ Stored(volumes', pool', devices', disk', written')
  <2> HIDE DEF vol2, wr2
  <2> QED
    BY <1>1, <1>6, <1>7, <1>8, <1>10
<1>13. pool_state' \in {"NONE", "OFFLINE", "ONLINE"} /\ Plain
  BY <1>1 DEF PoolSound
<1> QED
  BY <1>2, <1>11, <1>12, <1>13, Assemble

-----------------------------------------------------------------------------
(* volume_create *)

With(vol, v, rec) == [vol EXCEPT ![v] = rec]
Created(vol, vol2, q, m, v, map) ==
    /\ Maps(vol2, q, m) /\ Owned(vol2, q, m)
    /\ LiveIn(vol2) = LiveIn(vol) \cup {v} /\ Map(vol2, v) = map
    /\ \A w \in LiveIn(vol) : w # v /\ vol2[w] = vol[w]

LEMMA CreateMaps ==
  ASSUME NEW m \in Nat, NEW p, PoolOK(p, m), NEW c, NEW vol, NEW vol2,
         NEW v \in Volume, v \notin LiveIn(vol), NEW n \in 1 .. MaxExtents,
         Maps(vol, p, m), Owned(vol, p, m), Allots(p, c, m, n),
         NEW rec \in VolumeRecord, rec.extent_map = c.map, vol2 = With(vol, v, rec)
  PROVE  Created(vol, vol2, c.pool, m, v, c.map)
<1> DEFINE q == c.pool
           map == c.map
<1>1. vol \in [Volume -> VolumeRecord \cup {Nil}] /\ rec # Nil
  BY NoVolume DEF Maps
<1>2. /\ LiveIn(vol2) = LiveIn(vol) \cup {v} /\ vol2[v] = rec
      /\ \A w \in LiveIn(vol) : w # v /\ vol2[w] = vol[w]
      /\ vol2 \in [Volume -> VolumeRecord \cup {Nil}]
  BY <1>1 DEF LiveIn, With
<1>3. Map(vol2, v) = map /\ Places(vol2, v) = 1 .. n /\ Len(map) = n
  BY <1>2 DEF Map, Places, Allots
<1>4. \A w \in LiveIn(vol) : Map(vol2, w) = Map(vol, w) /\ Places(vol2, w) = Places(vol, w)
  BY <1>2 DEF Map, Places
<1>5. /\ \A i \in 1 .. n : map[i] \in FreeSet(p, m) /\ q.extents[map[i]].state = "ALLOCATED"
      /\ \A i, j \in 1 .. n : map[j] = map[i] => j = i
      /\ \A i \in 0 .. m - 1 : (\A j \in 1 .. n : map[j] # i) => q.extents[i] = p.extents[i]
      /\ q.next_extent > 0
  BY DEF Allots
<1> HIDE DEF q, map
\* What other volumes have is in use, so the new one did not get it.
<1>6. \A w \in LiveIn(vol) : \A i \in Places(vol, w) : \A j \in 1 .. n :
         Map(vol, w)[i] # 0 => Map(vol, w)[i] # map[j]
  <2> SUFFICES ASSUME NEW w \in LiveIn(vol), NEW i \in Places(vol, w), NEW j \in 1 .. n,
                      Map(vol, w)[i] # 0, Map(vol, w)[i] = map[j]
               PROVE  FALSE
    OBVIOUS
  <2>1. p.extents[map[j]].state = "ALLOCATED"
    BY DEF Maps, Exclusive
  <2> QED
    BY <2>1, <1>5 DEF FreeSet
<1>7. ASSUME NEW w \in LiveIn(vol), NEW i \in Places(vol, w)
      PROVE  Exclusive(vol2, q, m, w, i)
  <2> DEFINE e == Map(vol, w)[i]
  <2> SUFFICES ASSUME e # 0
               PROVE  /\ e \in 0 .. m - 1 /\ q.extents[e].state = "ALLOCATED"
                      /\ \A u \in LiveIn(vol2) : \A j \in Places(vol2, u) :
                           Map(vol2, u)[j] = e => u = w /\ j = i
    BY <1>4, <1>7 DEF Exclusive
  <2>1. Exclusive(vol, p, m, w, i)
    BY <1>7 DEF Maps
  <2>2. /\ e \in 0 .. m - 1 /\ p.extents[e].state = "ALLOCATED"
        /\ \A u \in LiveIn(vol) : \A j \in Places(vol, u) : Map(vol, u)[j] = e => u = w /\ j = i
    BY <2>1 DEF Exclusive
  <2>3. \A j \in 1 .. n : map[j] # e
    BY <1>6, <1>7
  <2>4. q.extents[e] = p.extents[e]
    BY <1>5, <2>2, <2>3
  <2>5. \A u \in LiveIn(vol2) : \A j \in Places(vol2, u) : Map(vol2, u)[j] = e => u = w /\ j = i
    BY <1>2, <1>3, <1>4, <2>2, <2>3
  <2> QED
    BY <2>2, <2>4, <2>5
<1>8. ASSUME NEW i \in 1 .. n
      PROVE  Exclusive(vol2, q, m, v, i)
  <2> SUFFICES ASSUME map[i] # 0
               PROVE  /\ map[i] \in 0 .. m - 1 /\ q.extents[map[i]].state = "ALLOCATED"
                      /\ \A u \in LiveIn(vol2) : \A j \in Places(vol2, u) :
                           Map(vol2, u)[j] = map[i] => u = v /\ j = i
    BY <1>3 DEF Exclusive
  <2>1. map[i] \in 0 .. m - 1 /\ q.extents[map[i]].state = "ALLOCATED"
    BY <1>5, <1>8 DEF FreeSet
  <2>2. ASSUME NEW u \in LiveIn(vol2), NEW j \in Places(vol2, u), Map(vol2, u)[j] = map[i]
        PROVE  u = v /\ j = i
    <3>1. CASE u = v
      BY <3>1, <2>2, <1>3, <1>5, <1>8
    <3>2. CASE u \in LiveIn(vol)
      BY <3>2, <2>2, <1>4, <1>6, <1>8
    <3> QED
      BY <3>1, <3>2, <1>2
  <2> QED
    BY <2>1, <2>2
<1>9. Maps(vol2, q, m)
  <2>1. \A w \in LiveIn(vol2) : \A i \in Places(vol2, w) : Exclusive(vol2, q, m, w, i)
    BY <1>2, <1>3, <1>4, <1>7, <1>8
  <2>2. \A w \in LiveIn(vol2) : Len(Map(vol2, w)) <= MaxExtents
    BY <1>2, <1>3, <1>4 DEF Maps
  <2> QED
    BY <1>2, <1>5, <2>1, <2>2 DEF Maps
<1>10. ASSUME NEW e \in 1 .. m - 1, q.extents[e].state = "ALLOCATED"
       PROVE  \E w \in LiveIn(vol2) : \E i \in Places(vol2, w) : Map(vol2, w)[i] = e
  <2>1. CASE \E j \in 1 .. n : map[j] = e
    BY <2>1, <1>2, <1>3
  <2>2. CASE \A j \in 1 .. n : map[j] # e
    <3>1. e \in 0 .. m - 1
      OBVIOUS
    <3>2. p.extents[e].state = "ALLOCATED"
      BY <3>1, <2>2, <1>5, <1>10
    <3>3. PICK w \in LiveIn(vol) : \E i \in Places(vol, w) : Map(vol, w)[i] = e
      BY <3>2 DEF Owned
    <3> QED
      BY <3>3, <1>2, <1>4
  <2> QED
    BY <2>1, <2>2
<1> QED
  BY <1>2, <1>3, <1>9, <1>10 DEF Owned, Created, q, map

LEMMA CreateAllots ==
  ASSUME PoolSound, NEW v \in Volume, NEW n \in 1 .. MaxExtents, NEW r \in Replications,
         NEW thin \in ThinModes, volume_create(v, n, r, thin)
  PROVE  Allots(pool, Preallocate(pool, n, 0), Size, n)
<1> DEFINE m == Size
           c == Preallocate(pool, n, 0)
<1>1. r = 0 /\ thin = FALSE
  BY DEF PoolSound, Plain
<1>2. m \in Nat /\ PoolOK(pool, m)
  BY DEF PoolSound
<1>3. n \in Nat /\ pool.free_extents \in Nat /\ n <= pool.free_extents
  <2>1. n \in Nat
    BY PoolConstants
  <2>2. pool.free_extents \in Nat
    BY <1>2 DEF PoolOK, Pools
  <2>3. pool.free_extents >= n * (0 + 1)
    BY <1>1 DEF volume_create, volume_create_thick
  <2> QED
    BY <2>1, <2>2, <2>3
<1>4. Allots(pool, c, m, n)
  <2> HIDE DEF m
  <2> QED
    BY <1>2, <1>3, AllotAll
<1> QED
  BY <1>4

LEMMA SoundCreate ==
  ASSUME PoolSound, NEW v \in Volume, NEW n \in 1 .. MaxExtents, NEW r \in Replications,
         NEW thin \in ThinModes, volume_create(v, n, r, thin)
  PROVE  PoolSound'
<1> DEFINE m == Size
           c == Preallocate(pool, n, 0)
           rec == NewVolume(c.map, 0, FALSE, FALSE)
           vol2 == With(volumes, v, rec)
           wr2 == [written EXCEPT ![v] = Unwritten(n)]
<1>1. r = 0 /\ thin = FALSE /\ v \notin LiveIn(volumes)
  BY DEF PoolSound, Plain, volume_create, Live, LiveIn
<1>2. /\ m \in Nat /\ PoolOK(pool, m) /\ Maps(volumes, pool, m) /\ Owned(volumes, pool, m)
      /\ Layout(pool, m, devices, device_count) /\ Stored(volumes, pool, devices, disk, written)
  BY DEF PoolSound
<1>3. n \in Nat
  BY PoolConstants
<1>4. Allots(pool, c, m, n)
  BY CreateAllots
<1>5. /\ pool' = c.pool /\ volumes' = [volumes EXCEPT ![v] = NewVolume(c.map, 0, FALSE, FALSE)]
      /\ used_size' = Wrap(used_size + n) /\ free_size' = Wrap(free_size - n)
  <2>1. c.ok = TRUE
    BY <1>4 DEF Allots
  <2> QED
    BY <1>1, <2>1 DEF volume_create, volume_create_thick
<1> HIDE DEF m, c
<1>6. rec \in VolumeRecord /\ rec.extent_map = c.map
  <2>1. c.map \in Seq(Nat) /\ Len(c.map) \in Nat
    BY <1>3, <1>4 DEF Allots
  <2> QED
    BY <2>1 DEF NewVolume, VolumeRecord
<1> HIDE DEF rec
<1>7. volumes' = vol2
  BY <1>5 DEF rec, With
<1> HIDE DEF vol2
<1>8. Created(volumes, vol2, c.pool, m, v, c.map)
  BY <1>1, <1>2, <1>4, <1>6, CreateMaps DEF vol2
<1>9. written' = wr2 /\ UNCHANGED <<pool_state, devices, device_count, disk>>
  <2>1. volumes'[v] # Nil
    BY <1>7, <1>8 DEF Created, LiveIn
  <2> QED
    BY <2>1 DEF volume_create
<1>10. PoolOK(c.pool, m) /\ Same(pool, c.pool, m)
  BY <1>4 DEF Allots, Same
<1>11. Layout(c.pool, m, devices, device_count)
  BY <1>2, <1>10, LayoutKept
<1>12. CarriedAll(volumes, written, vol2, wr2)
  <2>1. written = [w \in Volume |-> written[w]] /\ \A w \in LiveIn(volumes) : DOMAIN written[w] = Blocks(volumes, w)
    BY <1>2 DEF Stored
  <2>2. /\ wr2 = [w \in Volume |-> wr2[w]] /\ \A w \in Volume : w # v => wr2[w] = written[w]
        /\ wr2[v] = Unwritten(n)
    BY <2>1
  <2>3. \A w \in LiveIn(volumes) : /\ w # v /\ w \in Volume /\ Map(vol2, w) = Map(volumes, w)
                                   /\ Blocks(vol2, w) = Blocks(volumes, w)
    BY <1>8 DEF Created, Map, Blocks, LiveIn
  <2>4. LiveIn(vol2) = LiveIn(volumes) \cup {v} /\ Blocks(vol2, v) = 0 .. n * BLOCKS_PER_EXTENT - 1
    BY <1>4, <1>8 DEF Created, Blocks, Allots
  <2>5. DOMAIN Unwritten(n) = Blocks(vol2, v) /\ \A b \in Blocks(vol2, v) : Unwritten(n)[b] = Nil
    BY <2>4 DEF Unwritten
  <2> HIDE DEF wr2
  <2>6. \A w \in LiveIn(vol2) : DOMAIN wr2[w] = Blocks(vol2, w)
    BY <2>1, <2>2, <2>3, <2>4, <2>5
  <2>7. \A w \in LiveIn(vol2) : \A b \in Blocks(vol2, w) : Carried(volumes, written, vol2, wr2, w, b)
    BY <2>2, <2>3, <2>4, <2>5 DEF Carried
  <2> QED
    BY <2>2, <2>6, <2>7 DEF CarriedAll
<1> HIDE DEF wr2
<1>13. Stored(vol2, c.pool, devices, disk, wr2)
  BY <1>2, <1>10, <1>12, StoredKept
<1>14. used_size' \in 0 .. SIZE_MODULUS - 1 /\ free_size' \in 0 .. SIZE_MODULUS - 1
  <2>1. used_size + n \in Int /\ free_size - n \in Int
    BY <1>3, PoolConstants DEF PoolSound
  <2> QED
    BY <1>5, <2>1, Modulo
<1>15. /\ PoolOK(pool', m) /\ Maps(volumes', pool', m) /\ Owned(volumes', pool', m)
       /\ Layout(pool', m, devices', device_count')
       /\ Stored(volumes', pool', devices', disk', written')
  BY <1>5, <1>7, <1>8, <1>9, <1>10, <1>11, <1>13 DEF Created
<1>16. pool_state' \in {"NONE", "OFFLINE", "ONLINE"} /\ Plain
  BY <1>9 DEF PoolSound
<1> QED
  BY <1>2, <1>14, <1>15, <1>16, Assemble

-----------------------------------------------------------------------------
(* A volume that keeps the extents it has.  Its map grows, by entries 0        *)
(* (volume_resize), or gets the free extent e at x (volume_write).             *)

Grows(p, q, m, map, map2, x, e) ==
    /\ map2 \in Seq(Nat) /\ Len(map) <= Len(map2) /\ Len(map2) <= MaxExtents
    /\ \A i \in 1 .. Len(map) : map[i] # 0 => map2[i] = map[i]
    /\ \A i \in 1 .. Len(map2) : \/ map2[i] = 0
                                 \/ i = x /\ map2[i] = e
                                 \/ i \in 1 .. Len(map) /\ map2[i] = map[i]
    /\ e # 0 => /\ e \in FreeSet(p, m) /\ q.extents[e].state = "ALLOCATED"
                /\ x \in 1 .. Len(map2) /\ map2[x] = e
    /\ \A j \in 0 .. m - 1 : e = 0 \/ j # e => q.extents[j] = p.extents[j]
    /\ q.next_extent > 0
Grown(vol, vol2, q, m, v, map2) ==
    /\ Maps(vol2, q, m) /\ Owned(vol2, q, m)
    /\ LiveIn(vol2) = LiveIn(vol) /\ Map(vol2, v) = map2
    /\ \A w \in LiveIn(vol) : w # v => vol2[w] = vol[w]

LEMMA GrowMaps ==
  ASSUME NEW m \in Nat, NEW p, NEW q, NEW vol, NEW vol2, NEW v \in LiveIn(vol),
         Maps(vol, p, m), Owned(vol, p, m), NEW map, map = Map(vol, v), NEW map2, NEW x, NEW e,
         Grows(p, q, m, map, map2, x, e),
         NEW rec \in VolumeRecord, rec.extent_map = map2, vol2 = With(vol, v, rec)
  PROVE  Grown(vol, vol2, q, m, v, map2)
<1>1. vol \in [Volume -> VolumeRecord \cup {Nil}] /\ rec # Nil /\ v \in Volume
  BY NoVolume DEF Maps, LiveIn
<1>2. /\ LiveIn(vol2) = LiveIn(vol) /\ vol2[v] = rec
      /\ \A w \in LiveIn(vol) : w # v => vol2[w] = vol[w]
      /\ vol2 \in [Volume -> VolumeRecord \cup {Nil}]
  BY <1>1 DEF LiveIn, With
<1>3. Map(vol2, v) = map2 /\ Places(vol2, v) = 1 .. Len(map2) /\ Places(vol, v) = 1 .. Len(map)
  BY <1>2 DEF Map, Places
<1>4. \A w \in LiveIn(vol) : w # v => Map(vol2, w) = Map(vol, w) /\ Places(vol2, w) = Places(vol, w)
  BY <1>2 DEF Map, Places
<1>5. Len(map) \in Nat /\ Len(map2) \in Nat /\ Len(map) <= Len(map2)
  BY RecordOf DEF Grows
\* Every entry is an old one, or 0, or the new one.
<1>6. \A w \in LiveIn(vol) : \A i \in Places(vol2, w) :
         Map(vol2, w)[i] # 0 => \/ i \in Places(vol, w) /\ Map(vol2, w)[i] = Map(vol, w)[i]
                                \/ w = v /\ i = x /\ Map(vol2, w)[i] = e
  <2> SUFFICES ASSUME NEW w \in LiveIn(vol), NEW i \in Places(vol2, w), Map(vol2, w)[i] # 0
               PROVE  \/ i \in Places(vol, w) /\ Map(vol2, w)[i] = Map(vol, w)[i]
                      \/ w = v /\ i = x /\ Map(vol2, w)[i] = e
    OBVIOUS
  <2>1. CASE w = v
    BY <2>1, <1>3 DEF Grows
  <2>2. CASE w # v
    BY <2>2, <1>4
  <2> QED
    BY <2>1, <2>2
<1>7. \A w \in LiveIn(vol) : \A i \in Places(vol, w) :
         Map(vol, w)[i] # 0 => i \in Places(vol2, w) /\ Map(vol2, w)[i] = Map(vol, w)[i]
  <2> SUFFICES ASSUME NEW w \in LiveIn(vol), NEW i \in Places(vol, w), Map(vol, w)[i] # 0
               PROVE  i \in Places(vol2, w) /\ Map(vol2, w)[i] = Map(vol, w)[i]
    OBVIOUS
  <2>1. CASE w = v
    <3>1. i \in 1 .. Len(map) /\ map[i] # 0
      BY <2>1, <1>3
    <3>2. i \in 1 .. Len(map2)
      BY <3>1, <1>5
    <3> QED
      BY <2>1, <3>1, <3>2, <1>3 DEF Grows
  <2>2. CASE w # v
    BY <2>2, <1>4
  <2> QED
    BY <2>1, <2>2
\* What was mapped before is in use, so it is not e.
<1>8. \A w \in LiveIn(vol) : \A i \in Places(vol, w) :
         Map(vol, w)[i] # 0 => Map(vol, w)[i] # e
  <2> SUFFICES ASSUME NEW w \in LiveIn(vol), NEW i \in Places(vol, w), Map(vol, w)[i] # 0,
                      Map(vol, w)[i] = e
               PROVE  FALSE
    OBVIOUS
  <2>1. p.extents[e].state = "ALLOCATED"
    BY DEF Maps, Exclusive
  <2> QED
    BY <2>1 DEF FreeSet, Grows
<1>9. ASSUME NEW w \in LiveIn(vol), NEW i \in Places(vol2, w)
      PROVE  Exclusive(vol2, q, m, w, i)
  <2> DEFINE f == Map(vol2, w)[i]
  <2> SUFFICES ASSUME f # 0
               PROVE  /\ f \in 0 .. m - 1 /\ q.extents[f].state = "ALLOCATED"
                      /\ \A u \in LiveIn(vol2) : \A j \in Places(vol2, u) :
                           Map(vol2, u)[j] = f => u = w /\ j = i
    BY DEF Exclusive
  <2>1. CASE i \in Places(vol, w) /\ f = Map(vol, w)[i]
    <3>1. Exclusive(vol, p, m, w, i)
      BY <2>1, <1>9 DEF Maps
    <3>2. /\ f \in 0 .. m - 1 /\ p.extents[f].state = "ALLOCATED"
          /\ \A u \in LiveIn(vol) : \A j \in Places(vol, u) : Map(vol, u)[j] = f => u = w /\ j = i
      BY <2>1, <3>1 DEF Exclusive
    <3>3. f # e
      BY <2>1, <1>8, <1>9
    <3> HIDE DEF f
    <3>4. q.extents[f] = p.extents[f]
      BY <3>2, <3>3 DEF Grows
    <3>5. \A u \in LiveIn(vol2) : \A j \in Places(vol2, u) : Map(vol2, u)[j] = f => u = w /\ j = i
      BY <1>2, <1>6, <3>2, <3>3
    <3> QED
      BY <3>2, <3>4, <3>5
  <2>2. CASE w = v /\ i = x /\ f = e
    <3>1. f \in 0 .. m - 1 /\ q.extents[f].state = "ALLOCATED"
      BY <2>2 DEF Grows, FreeSet
    <3> HIDE DEF f
    <3>2. \A u \in LiveIn(vol2) : \A j \in Places(vol2, u) : Map(vol2, u)[j] = f => u = w /\ j = i
      BY <1>2, <1>6, <1>8, <2>2
    <3> QED
      BY <3>1, <3>2
  <2> QED
    BY <2>1, <2>2, <1>6, <1>9
<1>10. Maps(vol2, q, m)
  <2>1. \A w \in LiveIn(vol2) : Len(Map(vol2, w)) <= MaxExtents
    BY <1>2, <1>3, <1>4 DEF Maps, Grows
  <2> QED
    BY <1>2, <1>9, <2>1 DEF Maps, Grows
<1>11. ASSUME NEW f \in 1 .. m - 1, q.extents[f].state = "ALLOCATED"
       PROVE  \E w \in LiveIn(vol2) : \E i \in Places(vol2, w) : Map(vol2, w)[i] = f
  <2>1. CASE f = e
    <3>1. e # 0
      BY <2>1
    <3> QED
      BY <2>1, <3>1, <1>2, <1>3 DEF Grows
  <2>2. CASE f # e
    <3>1. f \in 0 .. m - 1 /\ f # 0
      OBVIOUS
    <3>2. p.extents[f].state = "ALLOCATED"
      BY <3>1, <2>2, <1>11 DEF Grows
    <3>3. PICK w \in LiveIn(vol) : \E i \in Places(vol, w) : Map(vol, w)[i] = f
      BY <3>2 DEF Owned
    <3> QED
      BY <3>1, <3>3, <1>2, <1>7
  <2> QED
    BY <2>1, <2>2
<1> QED
  BY <1>2, <1>3, <1>10, <1>11 DEF Owned, Grown

-----------------------------------------------------------------------------
(* volume_resize *)

LEMMA SoundResize ==
  ASSUME PoolSound, NEW v \in Volume, NEW n \in 1 .. MaxExtents, volume_resize(v, n)
  PROVE  PoolSound'
<1> DEFINE m == Size
           map == Map(volumes, v)
           map2 == [i \in 1 .. n |-> IF i <= Len(map) THEN map[i] ELSE 0]
           rec == [volumes[v] EXCEPT !.extent_map = map2]
           vol2 == With(volumes, v, rec)
           wr2 == [written EXCEPT ![v] = [b \in DOMAIN Unwritten(n) |->
                                            IF b \in DOMAIN @ THEN @[b] ELSE Nil]]
<1>1. /\ v \in LiveIn(volumes) /\ n > Len(map)
      /\ volumes' = vol2 /\ written' = wr2
      /\ UNCHANGED <<pool_state, devices, device_count, pool, used_size, free_size, disk>>
  BY DEF volume_resize, Live, LiveIn, Map, With
<1>2. /\ m \in Nat /\ PoolOK(pool, m) /\ Maps(volumes, pool, m) /\ Owned(volumes, pool, m)
      /\ Layout(pool, m, devices, device_count) /\ Stored(volumes, pool, devices, disk, written)
  BY DEF PoolSound
<1>3. /\ volumes[v] \in VolumeRecord /\ map \in Seq(Nat) /\ Len(map) \in Nat
      /\ DOMAIN map = 1 .. Len(map)
  BY <1>1, <1>2, RecordOf DEF Places
<1>4. n \in Nat /\ n <= MaxExtents
  BY PoolConstants
<1>5. \A i \in 1 .. Len(map) : map[i] \in Nat
  BY <1>3
<1>6. map2 \in Seq(Nat) /\ Len(map2) = n
  BY <1>4, <1>5
<1> HIDE DEF m, map
<1>7. /\ \A i \in 1 .. Len(map) : map2[i] = map[i]
      /\ \A i \in 1 .. n : i \in 1 .. Len(map) \/ map2[i] = 0
  BY <1>1, <1>3, <1>4
<1> HIDE DEF map2
<1>8. rec \in VolumeRecord /\ rec.extent_map = map2
  BY <1>3, <1>6 DEF VolumeRecord
<1> HIDE DEF rec
<1>9. Grows(pool, pool, m, map, map2, 1, 0)
  <2>1. pool.next_extent > 0
    BY <1>1, <1>2 DEF Maps
  <2> QED
    BY <1>1, <1>3, <1>4, <1>6, <1>7, <2>1 DEF Grows
<1>10. Grown(volumes, vol2, pool, m, v, map2)
  <2>1. vol2 = With(volumes, v, rec) /\ map = Map(volumes, v)
    BY DEF map
  <2> HIDE DEF vol2
  <2> QED
    BY <1>1, <1>2, <1>8, <1>9, <2>1, GrowMaps
<1> HIDE DEF vol2
<1>11. Same(pool, pool, m)
  BY DEF Same, Alike
<1>12. CarriedAll(volumes, written, vol2, wr2)
  <2>1. written = [w \in Volume |-> written[w]] /\ \A w \in LiveIn(volumes) : DOMAIN written[w] = Blocks(volumes, w)
    BY <1>2 DEF Stored
  <2> DEFINE new == [b \in DOMAIN Unwritten(n) |->
                       IF b \in DOMAIN written[v] THEN written[v][b] ELSE Nil]
  <2>2. /\ wr2 = [w \in Volume |-> wr2[w]] /\ \A w \in Volume : w # v => wr2[w] = written[w]
        /\ wr2[v] = new
    BY <2>1
  <2>3. \A w \in LiveIn(volumes) : w # v => /\ w \in Volume /\ Map(vol2, w) = Map(volumes, w)
                                            /\ Blocks(vol2, w) = Blocks(volumes, w)
    BY <1>10 DEF Grown, Map, Blocks, LiveIn
  <2>4. LiveIn(vol2) = LiveIn(volumes) /\ Blocks(vol2, v) = 0 .. n * BLOCKS_PER_EXTENT - 1
    BY <1>6, <1>10 DEF Grown, Blocks
  <2>5. /\ DOMAIN new = Blocks(vol2, v) /\ DOMAIN written[v] = Blocks(volumes, v)
        /\ \A b \in Blocks(vol2, v) :
             new[b] = IF b \in Blocks(volumes, v) THEN written[v][b] ELSE Nil
    BY <1>1, <2>1, <2>4 DEF Unwritten
  <2> HIDE DEF wr2, new
  <2>6. \A w \in LiveIn(vol2) : DOMAIN wr2[w] = Blocks(vol2, w)
    BY <2>1, <2>2, <2>3, <2>4, <2>5
  <2>7. \A b \in Blocks(volumes, v) : Map(vol2, v)[ExtentIndex(b)] = Map(volumes, v)[ExtentIndex(b)]
    <3> SUFFICES ASSUME NEW b \in Blocks(volumes, v)
                 PROVE  Map(vol2, v)[ExtentIndex(b)] = Map(volumes, v)[ExtentIndex(b)]
      OBVIOUS
    <3>1. ExtentIndex(b) \in 1 .. Len(map)
      BY <1>1, <1>2, EntryOK DEF Places, map
    <3> QED
      BY <3>1, <1>7, <1>10 DEF Grown, map
  <2>8. \A w \in LiveIn(vol2) : \A b \in Blocks(vol2, w) : Carried(volumes, written, vol2, wr2, w, b)
    <3> SUFFICES ASSUME NEW w \in LiveIn(vol2), NEW b \in Blocks(vol2, w)
                 PROVE  Carried(volumes, written, vol2, wr2, w, b)
      OBVIOUS
    <3>1. CASE w # v
      BY <3>1, <2>2, <2>3, <2>4 DEF Carried
    <3>2. CASE w = v
      BY <3>2, <2>2, <2>4, <2>5, <2>7 DEF Carried
    <3> QED
      BY <3>1, <3>2
  <2> QED
    BY <2>2, <2>6, <2>8 DEF CarriedAll
<1> HIDE DEF wr2
<1>13. Stored(vol2, pool, devices, disk, wr2)
  BY <1>2, <1>11, <1>12, StoredKept
<1>14. /\ PoolOK(pool', m) /\ Maps(volumes', pool', m) /\ Owned(volumes', pool', m)
       /\ Layout(pool', m, devices', device_count')
       /\ Stored(volumes', pool', devices', disk', written')
  BY <1>1, <1>2, <1>10, <1>13 DEF Grown
<1>15. /\ pool_state' \in {"NONE", "OFFLINE", "ONLINE"} /\ Plain
       /\ used_size' \in 0 .. SIZE_MODULUS - 1 /\ free_size' \in 0 .. SIZE_MODULUS - 1
  BY <1>1 DEF PoolSound
<1> QED
  BY <1>2, <1>14, <1>15, Assemble

-----------------------------------------------------------------------------
(* pool_add_device *)

\* q is p with the extents of a device in slot n after the first m.
Extended(p, q, m, k, n) ==
    /\ q \in Pools(m + k)
    /\ \A i \in 0 .. m - 1 : q.extents[i] = p.extents[i]
    /\ \A i \in m .. (m + k) - 1 : /\ q.extents[i].state = "FREE" /\ q.extents[i].device_id = n
                                 /\ q.extents[i].device_offset = i - m
                                 /\ q.extents[i].replica_count = 0
    /\ q.free_extents = p.free_extents + k /\ q.next_extent = p.next_extent

LEMMA ExtendedOK ==
  ASSUME NEW m \in Nat, NEW k \in Nat, NEW p, NEW q, NEW n, PoolOK(p, m), Extended(p, q, m, k, n)
  PROVE  PoolOK(q, m + k)
<1> DEFINE F == FreeSet(p, m)
           N == m .. (m + k) - 1
<1>1. IsFiniteSet(F) /\ Cardinality(F) \in Nat /\ p \in Pools(m)
  BY TableSize DEF PoolOK
<1>2. IsFiniteSet(N) /\ Cardinality(N) = k
  <2>1. m \in Int /\ (m + k) - 1 \in Int /\ (IF m > (m + k) - 1 THEN 0 ELSE ((m + k) - 1) - m + 1) = k
    OBVIOUS
  <2> QED
    BY <2>1, FS_Interval
<1>3. 0 .. (m + k) - 1 = (0 .. m - 1) \cup N /\ F \cap N = {}
  BY DEF FreeSet
<1>4. FreeSet(q, m + k) = F \cup N
  BY <1>3 DEF FreeSet, Extended
<1> HIDE DEF F, N
<1>5. Cardinality(F \cup N) = Cardinality(F) + k
  <2>1. Cardinality(F \cap N) = 0
    BY <1>3, FS_EmptySet
  <2>2. Cardinality(F \cup N) = Cardinality(F) + Cardinality(N) - Cardinality(F \cap N)
    BY <1>1, <1>2, FS_Union
  <2> QED
    BY <1>1, <1>2, <2>1, <2>2
<1>6. q.free_extents = Cardinality(FreeSet(q, m + k))
  BY <1>4, <1>5 DEF F, PoolOK, Extended
<1>7. p.next_extent > 0 => 0 \in 0 .. m - 1
  BY <1>1 DEF Pools
<1> QED
  BY <1>3, <1>6, <1>7 DEF PoolOK, Extended, N

LEMMA ExtendedMaps ==
  ASSUME NEW m \in Nat, NEW k \in Nat, NEW p, NEW q, NEW n, NEW vol,
         Maps(vol, p, m), Owned(vol, p, m), Extended(p, q, m, k, n)
  PROVE  Maps(vol, q, m + k) /\ Owned(vol, q, m + k)
<1>1. \A i \in 0 .. m - 1 : i \in 0 .. (m + k) - 1 /\ q.extents[i] = p.extents[i]
  BY DEF Extended
<1>2. Maps(vol, q, m + k)
  <2>1. \A v \in LiveIn(vol) : \A i \in Places(vol, v) : Exclusive(vol, q, m + k, v, i)
    BY <1>1 DEF Maps, Exclusive
  <2> QED
    BY <2>1 DEF Maps, Extended
<1>3. ASSUME NEW e \in 1 .. (m + k) - 1, q.extents[e].state = "ALLOCATED"
      PROVE  \E v \in LiveIn(vol) : \E i \in Places(vol, v) : Map(vol, v)[i] = e
  <2>1. e \notin m .. (m + k) - 1
    BY <1>3 DEF Extended
  <2>2. e \in 1 .. m - 1 /\ e \in 0 .. m - 1
    BY <2>1
  <2> QED
    BY <1>1, <1>3, <2>2 DEF Owned
<1> QED
  BY <1>2, <1>3 DEF Owned

\* The table is replaced by tab, of k extents, b of them free.
Retable(p, tab, b) == [p EXCEPT !.extents = tab, !.free_extents = b]
Retabled(p, q, k, tab, b) ==
    /\ q \in Pools(k) /\ q.extents = tab /\ q.free_extents = b
    /\ q.next_extent = p.next_extent

LEMMA NewTable ==
  ASSUME NEW m \in Nat, NEW k \in Nat, NEW p \in Pools(m), NEW tab \in [0 .. k - 1 -> Extent],
         NEW b \in Nat, m <= k
  PROVE  Retabled(p, Retable(p, tab, b), k, tab, b)
<1> DEFINE c == p.next_extent
<1>1. c \in 0 .. k
  BY DEF Pools
<1> QED
  BY <1>1 DEF Pools, Retable, Retabled

Kept(p, q, m) == \A i \in 0 .. m - 1 : q.extents[i] = p.extents[i]
Placed(devs, n, d) == [devs EXCEPT ![n] = d]

\* Cells of the extents that were there before stay where they were.
LEMMA CellsStay ==
  ASSUME NEW m \in Nat, NEW p, NEW q, NEW devs, NEW devs2, NEW n, NEW d, NEW dk,
         Layout(p, m, devs, n), devs2 = Placed(devs, n, d), Kept(p, q, m),
         NEW e \in 0 .. m - 1, NEW b
  PROVE  Cell(q, devs2, dk, e, b) = Cell(p, devs, dk, e, b)
<1>1. p.extents[e].device_id \in 0 .. n - 1 /\ n \in Nat /\ devs \in [Slot -> Device \cup {Nil}]
  BY DEF Layout
<1>2. p.extents[e].device_id # n
  BY <1>1
<1>3. p.extents[e].device_id \in Slot
  BY <1>1, PoolConstants DEF Layout, Slot
<1> QED
  BY <1>1, <1>2, <1>3 DEF Cell, PhysOffset, Kept, Placed

LEMMA StoredStays ==
  ASSUME NEW vol, NEW p, NEW q, NEW m, NEW devs, NEW devs2, NEW dk, NEW wr, Maps(vol, p, m),
         Stored(vol, p, devs, dk, wr),
         \A e \in 0 .. m - 1 : \A b : Cell(q, devs2, dk, e, b) = Cell(p, devs, dk, e, b)
  PROVE  Stored(vol, q, devs2, dk, wr)
<1> SUFFICES ASSUME NEW v \in LiveIn(vol), NEW b \in Blocks(vol, v), wr[v][b] # Nil
             PROVE  /\ Map(vol, v)[ExtentIndex(b)] # 0
                    /\ Cell(q, devs2, dk, Map(vol, v)[ExtentIndex(b)], b) = wr[v][b]
  BY DEF Stored, Held
<1> DEFINE e == Map(vol, v)[ExtentIndex(b)]
<1>1. e # 0 /\ Cell(p, devs, dk, e, b) = wr[v][b]
  BY DEF Stored, Held
<1>2. e \in 0 .. m - 1
  BY <1>1, EntryOK
<1> HIDE DEF e
<1>3. Cell(q, devs2, dk, e, b) = Cell(p, devs, dk, e, b)
  BY <1>2
<1> QED
  BY <1>1, <1>3 DEF e

LEMMA LayoutStays ==
  ASSUME NEW m, NEW p, NEW devs, NEW n, NEW d \in Device, Layout(p, m, devs, n)
  PROVE  Layout(p, m, [devs EXCEPT ![n] = d], n)
<1>1. n \in Nat /\ \A s \in 0 .. n - 1 : s # n /\ s \in Slot
  BY PoolConstants DEF Layout, Slot
<1>2. \A s \in 0 .. n - 1 : [devs EXCEPT ![n] = d][s] = devs[s]
  BY <1>1 DEF Layout
<1>3. [devs EXCEPT ![n] = d] \in [Slot -> Device \cup {Nil}]
  BY DEF Layout
<1> QED
  BY <1>2, <1>3 DEF Layout

LEMMA LayoutExtended ==
  ASSUME NEW m \in Nat, NEW p, NEW q, NEW devs, NEW devs2, NEW n, NEW d \in Device,
         Layout(p, m, devs, n), n < POOL_MAX_DEVICES, \A s \in 0 .. n - 1 : devs[s] # d,
         devs2 = [devs EXCEPT ![n] = d], Extended(p, q, m, DeviceExtents[d], n)
  PROVE  Layout(q, m + DeviceExtents[d], devs2, n + 1)
<1> DEFINE k == DeviceExtents[d]
<1>0. k \in Nat
  BY PoolConstants
<1>1. n \in Nat /\ n \in Slot /\ n + 1 \in 0 .. POOL_MAX_DEVICES /\ devs \in [Slot -> Device \cup {Nil}]
  BY PoolConstants DEF Layout, Slot
<1>2. /\ devs2 \in [Slot -> Device \cup {Nil}] /\ devs2[n] = d
      /\ \A s \in 0 .. n - 1 : devs2[s] = devs[s] /\ devs2[s] # d /\ devs2[s] \in Device
  <2>1. \A s \in 0 .. n - 1 : s # n /\ s \in Slot
    BY <1>1, PoolConstants DEF Layout, Slot
  <2> QED
    BY <1>1, <2>1 DEF Layout
<1>3. \A s \in 0 .. (n + 1) - 1 : s \in 0 .. n - 1 \/ s = n
  BY <1>1
<1> HIDE DEF k
<1>4. \A i \in 0 .. (m + k) - 1 : i \in 0 .. m - 1 \/ i \in m .. (m + k) - 1
  BY <1>0
<1>5. \A i \in 0 .. m - 1 : /\ q.extents[i] = p.extents[i] /\ q.extents[i].device_id \in 0 .. n - 1
                            /\ q.extents[i].device_offset
                                 < DeviceExtents[devs2[q.extents[i].device_id]]
  BY <1>2 DEF Extended, Layout
<1>6. \A i \in m .. (m + k) - 1 : /\ q.extents[i].device_id = n /\ q.extents[i].device_offset = i - m
                                /\ q.extents[i].device_offset < k
  BY <1>0 DEF Extended, k
<1>7. \A i \in 0 .. (m + k) - 1 :
         /\ q.extents[i].device_id \in 0 .. (n + 1) - 1
         /\ q.extents[i].device_offset < DeviceExtents[devs2[q.extents[i].device_id]]
  <2> SUFFICES ASSUME NEW i \in 0 .. (m + k) - 1
               PROVE  /\ q.extents[i].device_id \in 0 .. (n + 1) - 1
                      /\ q.extents[i].device_offset < DeviceExtents[devs2[q.extents[i].device_id]]
    OBVIOUS
  <2>1. CASE i \in 0 .. m - 1
    BY <2>1, <1>1, <1>5
  <2>2. CASE i \in m .. (m + k) - 1
    <3>1. DeviceExtents[devs2[n]] = k
      BY <1>2 DEF k
    <3> QED
      BY <2>2, <3>1, <1>1, <1>6
  <2> QED
    BY <1>4, <2>1, <2>2
<1>8. ASSUME NEW i \in 0 .. (m + k) - 1, NEW j \in 0 .. (m + k) - 1,
             q.extents[i].device_id = q.extents[j].device_id,
             q.extents[i].device_offset = q.extents[j].device_offset
      PROVE  i = j
  <2>1. CASE i \in 0 .. m - 1 /\ j \in 0 .. m - 1
    BY <2>1, <1>5, <1>8 DEF Layout
  <2>2. CASE i \in m .. (m + k) - 1 /\ j \in m .. (m + k) - 1
    BY <2>2, <1>6, <1>8, <1>0
  <2>3. ~(i \in 0 .. m - 1 /\ j \in m .. (m + k) - 1) /\ ~(j \in 0 .. m - 1 /\ i \in m .. (m + k) - 1)
    BY <1>1, <1>5, <1>6, <1>8
  <2> QED
    BY <1>4, <2>1, <2>2, <2>3
<1>9. \A s, t \in 0 .. (n + 1) - 1 : devs2[s] = devs2[t] => s = t
  BY <1>2, <1>3 DEF Layout
<1>10. \A s \in 0 .. (n + 1) - 1 : devs2[s] \in Device
  BY <1>2, <1>3
<1>11. \A i, j \in 0 .. (m + k) - 1 :
          /\ q.extents[i].device_id = q.extents[j].device_id
          /\ q.extents[i].device_offset = q.extents[j].device_offset
          => i = j
  BY <1>8
<1>12. Layout(q, m + k, devs2, n + 1)
  BY <1>1, <1>2, <1>7, <1>9, <1>10, <1>11 DEF Layout
<1> QED
  BY <1>12 DEF k

LEMMA SoundAddDevice ==
  ASSUME PoolSound, NEW d \in Device, pool_add_device(d)
  PROVE  PoolSound'
<1> DEFINE m == Size
           k == DeviceExtents[d]
           n == device_count
           devs2 == [devices EXCEPT ![n] = d]
<1>1. /\ n < POOL_MAX_DEVICES /\ \A s \in 0 .. n - 1 : devices[s] # d
      /\ devices' = devs2 /\ UNCHANGED <<used_size, volumes, disk, written>>
  BY DEF pool_add_device
<1>2. /\ m \in Nat /\ PoolOK(pool, m) /\ Maps(volumes, pool, m) /\ Owned(volumes, pool, m)
      /\ Layout(pool, m, devices, n) /\ Stored(volumes, pool, devices, disk, written)
  BY DEF PoolSound
<1>3. k \in Nat /\ n \in Slot
  BY <1>1, <1>2, PoolConstants DEF Layout, Slot
<1>4. used_size' \in 0 .. SIZE_MODULUS - 1 /\ Plain
  BY <1>1 DEF PoolSound
<1>5. CASE UNCHANGED <<device_count, pool, free_size, pool_state>>
  <2>1. Layout(pool, m, devs2, n)
    BY <1>2, LayoutStays
  <2>2. Stored(volumes, pool, devs2, disk, written)
    <3>1. \A e \in 0 .. m - 1 : \A b : Cell(pool, devs2, disk, e, b) = Cell(pool, devices, disk, e, b)
      <4>1. devs2 = Placed(devices, n, d) /\ Kept(pool, pool, m)
        BY DEF Placed, Kept
      <4> HIDE DEF m, n, devs2
      <4> QED
        BY <1>2, <4>1, CellsStay
    <3> HIDE DEF devs2, m
    <3> QED
      BY <1>2, <3>1, StoredStays
  <2>3. /\ free_size' \in 0 .. SIZE_MODULUS - 1 /\ pool_state' \in {"NONE", "OFFLINE", "ONLINE"}
    BY <1>5 DEF PoolSound
  <2> QED
    BY <1>1, <1>2, <1>4, <1>5, <2>1, <2>2, <2>3, Assemble
<1>6. CASE pool_state' = "ONLINE" /\ device_count' = n + 1 /\ free_size' = Wrap(pool.free_extents + k)
           /\ pool' = [pool EXCEPT
                        !.extents = [i \in 0 .. (m + k) - 1 |->
                           IF i < m THEN @[i]
                           ELSE [state |-> "FREE", device_id |-> n, device_offset |-> i - m,
                                 replica_count |-> 0, replica_extents |-> [r \in 1..3 |-> 0]]],
                        !.free_extents = pool.free_extents + k]
  <2> DEFINE fresh(i) == [state |-> "FREE", device_id |-> n, device_offset |-> i - m,
                          replica_count |-> 0, replica_extents |-> [r \in 1..3 |-> 0]]
             tab == [i \in 0 .. (m + k) - 1 |-> IF i < m THEN pool.extents[i] ELSE fresh(i)]
  <2>1. pool' = [pool EXCEPT !.extents = tab, !.free_extents = pool.free_extents + k]
    BY <1>6
  <2>2. pool \in Pools(m) /\ pool.free_extents + k \in Nat
    BY <1>2, <1>3 DEF PoolOK, Pools
  <2> HIDE DEF m, k, n
  <2>3. \A i \in m .. (m + k) - 1 : i \in Nat /\ i - m \in Nat /\ i \in 0 .. (m + k) - 1 /\ ~(i < m)
    BY <1>2, <1>3
  <2>4. \A i \in 0 .. m - 1 : i < m /\ i \in 0 .. (m + k) - 1 /\ pool.extents[i] \in Extent
    BY <1>2, <1>3, <2>2 DEF Pools
  <2>5. \A i \in m .. (m + k) - 1 : fresh(i) \in Extent
    BY <1>3, <2>3 DEF Extent
  <2>6. \A i \in 0 .. (m + k) - 1 : i \in 0 .. m - 1 \/ i \in m .. (m + k) - 1
    BY <1>2, <1>3
  <2>7. /\ \A i \in 0 .. m - 1 : tab[i] = pool.extents[i]
        /\ \A i \in m .. (m + k) - 1 : tab[i] = fresh(i)
    BY <2>3, <2>4
  <2>8. tab \in [0 .. (m + k) - 1 -> Extent]
    <3>1. \A i \in 0 .. (m + k) - 1 : tab[i] \in Extent
      <4> HIDE DEF fresh, tab
      <4> QED
        BY <2>4, <2>5, <2>6, <2>7
    <3> QED
      BY <3>1
  <2>9. \A i \in m .. (m + k) - 1 : /\ tab[i].state = "FREE" /\ tab[i].device_id = n
                                  /\ tab[i].device_offset = i - m /\ tab[i].replica_count = 0
    <3>1. \A i : /\ fresh(i).state = "FREE" /\ fresh(i).device_id = n
                 /\ fresh(i).device_offset = i - m /\ fresh(i).replica_count = 0
      OBVIOUS
    <3> HIDE DEF tab, fresh
    <3> QED
      BY <2>7, <3>1
  <2> HIDE DEF tab, fresh
  <2>10. /\ pool' \in Pools(m + k) /\ pool'.extents = tab
         /\ pool'.free_extents = pool.free_extents + k /\ pool'.next_extent = pool.next_extent
    <3> DEFINE b == pool.free_extents + k
               m2 == m + k
    <3>1. pool.next_extent \in 0 .. m2 /\ b \in Nat
      BY <1>2, <1>3, <2>2 DEF Pools
    <3>2. tab \in [0 .. m2 - 1 -> Extent] /\ pool' = Retable(pool, tab, b)
      BY <2>1, <2>8 DEF Retable
    <3> HIDE DEF b, m2
    <3>3. /\ pool' \in Pools(m2) /\ pool'.extents = tab /\ pool'.free_extents = b
          /\ pool'.next_extent = pool.next_extent
      <4>1. m2 \in Nat /\ m <= m2
        BY <1>2, <1>3 DEF m2
      <4>2. Retabled(pool, Retable(pool, tab, b), m2, tab, b)
        BY <1>2, <2>2, <3>1, <3>2, <4>1, NewTable
      <4> QED
        BY <3>2, <4>2 DEF Retabled
    <3> QED
      BY <3>3 DEF b, m2
  <2>11. Extended(pool, pool', m, k, n)
    BY <2>7, <2>9, <2>10 DEF Extended
  <2>12. PoolOK(pool', m + k) /\ Maps(volumes, pool', m + k) /\ Owned(volumes, pool', m + k)
    BY <1>2, <1>3, <2>11, ExtendedOK, ExtendedMaps DEF n
  <2>13. Layout(pool', m + k, devs2, n + 1)
    <3>1. devs2 = [devices EXCEPT ![n] = d] /\ Extended(pool, pool', m, DeviceExtents[d], n)
          /\ n < POOL_MAX_DEVICES /\ \A s \in 0 .. n - 1 : devices[s] # d
      BY <2>11, <1>1 DEF k, n
    <3> HIDE DEF devs2
    <3> QED
      BY <1>2, <3>1, LayoutExtended DEF k, n
  <2>14. Stored(volumes, pool', devs2, disk, written)
    <3>1. \A i \in 0 .. m - 1 : pool'.extents[i] = pool.extents[i]
      BY <2>7, <2>10
    <3>2. \A e \in 0 .. m - 1 : \A b : Cell(pool', devs2, disk, e, b) = Cell(pool, devices, disk, e, b)
      <4>1. devs2 = Placed(devices, n, d) /\ Kept(pool, pool', m)
        BY <3>1 DEF Placed, Kept
      <4>2. Layout(pool, m, devices, n)
        BY <1>2 DEF n
      <4> HIDE DEF devs2
      <4> QED
        BY <1>2, <4>1, <4>2, CellsStay
    <3> HIDE DEF devs2
    <3> QED
      BY <1>2, <3>2, StoredStays
  <2>15. free_size' \in 0 .. SIZE_MODULUS - 1 /\ pool_state' \in {"NONE", "OFFLINE", "ONLINE"}
    <3>1. pool.free_extents + k \in Int
      BY <2>2
    <3> QED
      BY <1>6, <3>1, Modulo DEF k
  <2>16. m + k \in Nat /\ device_count' = n + 1
    BY <1>2, <1>3, <1>6 DEF n
  <2> HIDE DEF devs2
  <2> QED
    BY <1>1, <1>4, <2>12, <2>13, <2>14, <2>15, <2>16, Assemble
<1>7. \/ UNCHANGED <<device_count, pool, free_size, pool_state>>
      \/ pool_state' = "ONLINE" /\ device_count' = n + 1 /\ free_size' = Wrap(pool.free_extents + k)
           /\ pool' = [pool EXCEPT
                        !.extents = [i \in 0 .. (m + k) - 1 |->
                           IF i < m THEN @[i]
                           ELSE [state |-> "FREE", device_id |-> n, device_offset |-> i - m,
                                 replica_count |-> 0, replica_extents |-> [r \in 1..3 |-> 0]]],
                        !.free_extents = pool.free_extents + k]
  BY DEF pool_add_device, Size
<1> QED
  BY <1>5, <1>6, <1>7

-----------------------------------------------------------------------------
(* volume_write *)

\* The run of l blocks at offset o of an extent, and the blocks b in it.
InRun(o, l, b) == b % BLOCKS_PER_EXTENT \in o % BLOCKS_PER_EXTENT .. (o % BLOCKS_PER_EXTENT) + l - 1

\* An extent lies on its device.
LEMMA OnDevice ==
  ASSUME NEW m \in Nat, NEW p, p \in Pools(m), NEW devs, NEW n, Layout(p, m, devs, n),
         NEW e \in 0 .. m - 1, NEW o \in Nat, NEW l \in Nat,
         (o % BLOCKS_PER_EXTENT) + l <= BLOCKS_PER_EXTENT
  PROVE  /\ devs[p.extents[e].device_id] \in Device /\ PhysOffset(p, e, o) \in Nat
         /\ PhysOffset(p, e, o) + l <= DeviceBlocks(devs[p.extents[e].device_id])
<1> DEFINE B == BLOCKS_PER_EXTENT
           d == devs[p.extents[e].device_id]
           f == p.extents[e].device_offset
           g == DeviceExtents[d]
           y == o % B
<1>1. B \in Nat \ {0}
  BY PoolConstants
<1>2. d \in Device /\ f < g
  BY DEF Layout
<1>3. f \in Nat
  <2>1. p.extents[e] \in Extent
    BY DEF Pools
  <2> QED
    BY <2>1 DEF Extent
<1>4. g \in Nat
  BY <1>2, PoolConstants
<1>5. y \in 0 .. B - 1 /\ y + l <= B
  <2> HIDE DEF B
  <2>1. y \in 0 .. B - 1
    BY <1>1, Division
  <2> QED
    BY <2>1 DEF B
<1>6. PhysOffset(p, e, o) = f * B + y /\ DeviceBlocks(d) = g * B
  BY DEF PhysOffset, DeviceBlocks
<1> HIDE DEF B, d, f, g, y
<1>7. f * B + B <= g * B
  BY <1>1, <1>2, <1>3, <1>4, Product
<1>8. f * B \in Nat /\ g * B \in Nat
  BY <1>1, <1>3, <1>4
<1>9. f * B + y \in Nat /\ f * B + y + l <= g * B
  BY <1>1, <1>5, <1>7, <1>8
<1> QED
  BY <1>2, <1>6, <1>9 DEF d

LEMMA Shift ==
  ASSUME NEW z \in Nat, NEW s \in Nat, NEW l \in Nat
  PROVE  /\ \A t \in Nat : z + t \in z + s .. z + s + l - 1 <=> t \in s .. s + l - 1
         /\ \A j \in z + s .. z + s + l - 1, B \in Nat :
              s + l <= B => j - z \in 0 .. B - 1 /\ j = z + (j - z)
OBVIOUS

Put(p, devs, dk, e, o, l, data) ==
    block_write(dk, devs[p.extents[e].device_id], PhysOffset(p, e, o), l, data)

\* The write reaches the cells of its run and no other cell.
LEMMA CellWritten ==
  ASSUME NEW m \in Nat, NEW p, p \in Pools(m), NEW devs, NEW n, Layout(p, m, devs, n), NEW dk,
         dk = [d \in Device |-> dk[d]], \A d \in Device : DOMAIN dk[d] = 0 .. DeviceBlocks(d) - 1,
         NEW e \in 0 .. m - 1, NEW f \in 0 .. m - 1, NEW o \in Nat, NEW l \in Nat, NEW b \in Nat,
         (o % BLOCKS_PER_EXTENT) + l <= BLOCKS_PER_EXTENT, NEW data, NEW dk2,
         dk2 = Put(p, devs, dk, e, o, l, data)
  PROVE  Cell(p, devs, dk2, f, b)
           = IF f = e /\ InRun(o, l, b) THEN data ELSE Cell(p, devs, dk, f, b)
<1> DEFINE B == BLOCKS_PER_EXTENT
           d == devs[p.extents[e].device_id]
           c == devs[p.extents[f].device_id]
           x == p.extents[e].device_offset
           y == p.extents[f].device_offset
           i == PhysOffset(p, e, o)
           j == PhysOffset(p, f, b)
           s == o % B
           t == b % B
<1>1. B \in Nat \ {0}
  BY PoolConstants
<1>2. x \in Nat /\ y \in Nat
  <2>1. p.extents[e] \in Extent /\ p.extents[f] \in Extent
    BY DEF Pools
  <2> QED
    BY <2>1 DEF Extent
<1>3. s \in 0 .. B - 1 /\ t \in 0 .. B - 1
  <2> HIDE DEF B
  <2> QED
    BY <1>1, Division
<1>4. i = x * B + s /\ j = y * B + t
  BY DEF PhysOffset
<1>5. d \in Device /\ i \in Nat /\ i + l <= DeviceBlocks(d)
  BY OnDevice
<1>6. c \in Device /\ j \in 0 .. DeviceBlocks(c) - 1
  <2>1. t + 1 <= B
    BY <1>1, <1>3
  <2>2. c \in Device /\ j \in Nat /\ j + 1 <= DeviceBlocks(c)
    BY <2>1, OnDevice
  <2>3. DeviceBlocks(c) \in Nat
    <3>1. DeviceExtents[c] \in Nat
      BY <2>2, PoolConstants
    <3> HIDE DEF c, B
    <3>2. DeviceExtents[c] * B \in Nat
      BY <1>1, <3>1
    <3> QED
      BY <3>2 DEF DeviceBlocks, B
  <2> HIDE DEF c, j
  <2> QED
    BY <2>2, <2>3
<1>7. dk2 = [dk EXCEPT ![d] = [a \in DOMAIN @ |-> IF a \in i .. i + l - 1 THEN data ELSE @[a]]]
  BY <1>5 DEF Put, block_write, InBounds
<1>8. Cell(p, devs, dk2, f, b) = dk2[c][j] /\ Cell(p, devs, dk, f, b) = dk[c][j]
  BY DEF Cell
<1>9. (f = e /\ InRun(o, l, b)) <=> (f = e /\ t \in s .. s + l - 1)
  BY DEF InRun
<1>10. c = d => (f = e <=> x = y)
  BY <1>2 DEF Layout
<1>11. f = e => c = d
  OBVIOUS
<1>12. dk2[c][j] = IF c = d /\ j \in i .. i + l - 1 THEN data ELSE dk[c][j]
  <2> HIDE DEF d, c, i, j
  <2> DEFINE new == [a \in DOMAIN dk[d] |-> IF a \in i .. i + l - 1 THEN data ELSE dk[d][a]]
  <2>1. dk2 = [dk EXCEPT ![d] = new]
    BY <1>7
  <2>2. c = d => j \in DOMAIN dk[d]
    BY <1>6
  <2>3. c = d => new[j] = IF j \in i .. i + l - 1 THEN data ELSE dk[c][j]
    BY <2>2
  <2> HIDE DEF new
  <2>4. dk2[c] = IF c = d THEN new ELSE dk[c]
    BY <1>5, <1>6, <2>1
  <2> QED
    BY <2>3, <2>4
<1> HIDE DEF B, d, c, x, y, i, j, s, t
<1>13. x * B \in Nat /\ y * B \in Nat
  BY <1>1, <1>2
<1>14. s + l <= B
  BY DEF s, B
<1>15. x = y => (j \in i .. i + l - 1 <=> t \in s .. s + l - 1)
  <2> SUFFICES ASSUME x = y PROVE j \in i .. i + l - 1 <=> t \in s .. s + l - 1
    OBVIOUS
  <2> DEFINE z == x * B
  <2>1. i = z + s /\ j = z + t /\ z \in Nat
    BY <1>4, <1>13
  <2>2. s \in Nat /\ t \in Nat
    BY <1>1, <1>3
  <2> HIDE DEF z
  <2>3. z + t \in z + s .. z + s + l - 1 <=> t \in s .. s + l - 1
    BY <2>1, <2>2, Shift
  <2> QED
    BY <2>1, <2>3
<1>16. j \in i .. i + l - 1 => x = y
  <2> SUFFICES ASSUME j \in i .. i + l - 1 PROVE x = y
    OBVIOUS
  <2> DEFINE z == x * B
             h == j - z
  <2>1. z \in Nat /\ i = z + s /\ s \in Nat
    BY <1>1, <1>3, <1>4, <1>13
  <2> HIDE DEF z
  <2>2. h \in 0 .. B - 1 /\ j = z + h
    <3>1. j \in z + s .. z + s + l - 1 /\ B \in Nat
      BY <1>1, <2>1
    <3> QED
      BY <1>14, <2>1, <3>1, Shift
  <2> HIDE DEF h
  <2>3. y * B + t = x * B + h
    BY <1>4, <2>2 DEF z
  <2> QED
    BY <1>1, <1>2, <1>3, <2>2, <2>3, Digits
<1> QED
  BY <1>8, <1>9, <1>10, <1>11, <1>12, <1>15, <1>16

\* Blocks of one extent: those of the run are the ones that are written.
LEMMA RunBlocks ==
  ASSUME NEW o \in Nat, NEW b \in Nat, NEW l \in Nat \ {0},
         ExtentIndex(o) = ExtentIndex(o + l - 1)
  PROVE  /\ (o % BLOCKS_PER_EXTENT) + l <= BLOCKS_PER_EXTENT
         /\ b \in o .. o + l - 1 <=> ExtentIndex(b) = ExtentIndex(o) /\ InRun(o, l, b)
<1> DEFINE B == BLOCKS_PER_EXTENT
<1>1. B \in Nat \ {0}
  BY PoolConstants
<1>2. /\ ExtentIndex(o) = o \div B + 1 /\ ExtentIndex(b) = b \div B + 1
      /\ ExtentIndex(o + l - 1) = (o + l - 1) \div B + 1
      /\ InRun(o, l, b) <=> b % B \in o % B .. (o % B) + l - 1
  BY DEF ExtentIndex, InRun
<1>3. o + l - 1 \in Nat
  OBVIOUS
<1> HIDE DEF B
<1>4. /\ o \div B \in Nat /\ o % B \in 0 .. B - 1 /\ o = (o \div B) * B + (o % B)
      /\ b \div B \in Nat /\ b % B \in 0 .. B - 1 /\ b = (b \div B) * B + (b % B)
      /\ (o + l - 1) \div B \in Nat
  BY <1>1, <1>3, Division
<1>5. o \div B = (o + l - 1) \div B
  BY <1>2, <1>4
<1>6. (o % B) + l <= B
  <2>1. 0 \in 0 .. l - 1
    OBVIOUS
  <2> QED
    BY <1>1, <1>5, <2>1, OneExtent
<1>7. ASSUME b \in o .. o + l - 1
      PROVE  ExtentIndex(b) = ExtentIndex(o) /\ InRun(o, l, b)
  <2> DEFINE k == b - o
  <2>1. k \in 0 .. l - 1 /\ o + k = b
    BY <1>7
  <2> HIDE DEF k
  <2>2. (o + k) \div B = o \div B /\ (o + k) % B = (o % B) + k
    BY <1>1, <1>5, <2>1, OneExtent
  <2>3. b \div B = o \div B /\ b % B = (o % B) + k
    BY <2>1, <2>2
  <2>4. b % B \in o % B .. (o % B) + l - 1
    BY <1>4, <2>1, <2>3
  <2> QED
    BY <1>2, <2>3, <2>4
<1>8. ASSUME ExtentIndex(b) = ExtentIndex(o), InRun(o, l, b)
      PROVE  b \in o .. o + l - 1
  <2>1. b \div B = o \div B /\ b % B \in o % B .. (o % B) + l - 1
    BY <1>2, <1>4, <1>8
  <2> DEFINE z == (o \div B) * B
             s == o % B
             t == b % B
  <2>2. o = z + s /\ b = z + t /\ t \in s .. s + l - 1 /\ s \in Nat
    BY <1>1, <1>4, <2>1
  <2>3. z \in Nat
    BY <1>1, <1>4
  <2> HIDE DEF z, s, t
  <2> QED
    BY <2>2, <2>3
<1> QED
  BY <1>6, <1>7, <1>8 DEF B

\* After the write extent e of pool q is at place x of volume v, which may have
\* got it now; every other entry is as it was.
Keeps(vol, vol2) ==
    \A w \in LiveIn(vol) :
        /\ Len(Map(vol2, w)) = Len(Map(vol, w))
        /\ \A i \in Places(vol, w) : Map(vol, w)[i] # 0 => Map(vol2, w)[i] = Map(vol, w)[i]
Took(vol, vol2, p, q, m, v, x, e) ==
    /\ PoolOK(q, m) /\ Same(p, q, m) /\ e \in 1 .. m - 1
    /\ Maps(vol2, q, m) /\ Owned(vol2, q, m) /\ LiveIn(vol2) = LiveIn(vol)
    /\ Map(vol2, v)[x] = e /\ Keeps(vol, vol2)
    /\ \A w \in LiveIn(vol) : w # v => vol2[w] = vol[w]

LEMMA TookOld ==
  ASSUME NEW m \in Nat, NEW p, NEW vol, PoolOK(p, m), Maps(vol, p, m), Owned(vol, p, m),
         NEW v \in LiveIn(vol), NEW x \in Places(vol, v), NEW e, e = Map(vol, v)[x], e # 0
  PROVE  Took(vol, vol, p, p, m, v, x, e)
<1>1. Exclusive(vol, p, m, v, x)
  BY DEF Maps
<1>2. e \in 0 .. m - 1
  BY <1>1 DEF Exclusive
<1>3. e \in 1 .. m - 1
  BY <1>2
<1> QED
  BY <1>3 DEF Took, Same, Alike, Keeps

LEMMA TookNew ==
  ASSUME NEW m \in Nat, NEW p, NEW vol, PoolOK(p, m), Maps(vol, p, m), Owned(vol, p, m),
         NEW v \in LiveIn(vol), NEW x \in Places(vol, v), Map(vol, v)[x] = 0,
         NEW g, Got(p, g, m), NEW rec \in VolumeRecord, NEW vol2, vol2 = With(vol, v, rec),
         NEW map2, map2 = [Map(vol, v) EXCEPT ![x] = g.id], rec.extent_map = map2
  PROVE  Took(vol, vol2, p, g.pool, m, v, x, g.id)
<1> DEFINE map == Map(vol, v)
           e == g.id
           q == g.pool
<1>1. map \in Seq(Nat) /\ Len(map) \in Nat /\ Len(map) <= MaxExtents /\ Places(vol, v) = 1 .. Len(map)
  BY RecordOf DEF Places, Maps
<1>2. p.next_extent > 0
  BY DEF Maps
<1>3. /\ e \in FreeSet(p, m) /\ e # 0 /\ PoolOK(q, m) /\ q.next_extent = e + 1
      /\ ChangedTo(q.extents, p.extents, m, e, "ALLOCATED")
  <2>1. p.next_extent \in Nat
    BY DEF PoolOK, Pools
  <2> QED
    BY <1>2, <2>1 DEF Got
<1>4. e \in 1 .. m - 1 /\ e \in Nat
  BY <1>3 DEF FreeSet
<1> HIDE DEF map, e, q
<1>5. map2 \in Seq(Nat) /\ Len(map2) = Len(map) /\ map2[x] = e /\ x \in 1 .. Len(map)
      /\ \A i \in 1 .. Len(map) : i # x => map2[i] = map[i]
  <2>1. map2 = [map EXCEPT ![x] = e] /\ x \in 1 .. Len(map)
    BY <1>1 DEF map, e
  <2> DEFINE k == Len(map)
  <2>2. map \in [1 .. k -> Nat] /\ k \in Nat
    BY <1>1
  <2> HIDE DEF k
  <2>3. map2 \in [1 .. k -> Nat] /\ (x \in 1 .. k => map2[x] = e)
        /\ \A i \in 1 .. k : i # x => map2[i] = map[i]
    BY <1>4, <2>1, <2>2
  <2>4. map2 \in Seq(Nat) /\ Len(map2) = k
    BY <2>2, <2>3
  <2> QED
    BY <2>1, <2>3, <2>4 DEF k
<1>6. /\ \A j \in 0 .. m - 1 : j # e => q.extents[j] = p.extents[j]
      /\ q.extents[e].state = "ALLOCATED" /\ Same(p, q, m)
  BY <1>3 DEF ChangedTo, Same
<1>7. q.next_extent > 0
  BY <1>3, <1>4
<1>8. map[x] = 0
  BY DEF map
<1>9. Grows(p, q, m, map, map2, x, e)
  BY <1>1, <1>3, <1>5, <1>6, <1>7, <1>8 DEF Grows
<1>10. Grown(vol, vol2, q, m, v, map2)
  <2>1. map = Map(vol, v)
    BY DEF map
  <2> QED
    BY <1>9, <2>1, GrowMaps
<1>11. Keeps(vol, vol2)
  <2> SUFFICES ASSUME NEW w \in LiveIn(vol)
               PROVE  /\ Len(Map(vol2, w)) = Len(Map(vol, w))
                      /\ \A i \in Places(vol, w) :
                           Map(vol, w)[i] # 0 => Map(vol2, w)[i] = Map(vol, w)[i]
    BY DEF Keeps
  <2>1. CASE w # v
    BY <2>1, <1>10 DEF Grown, Map
  <2>2. CASE w = v
    <3>1. Map(vol2, w) = map2 /\ Map(vol, w) = map /\ Places(vol, w) = 1 .. Len(map)
      BY <2>2, <1>1, <1>10 DEF Grown, map
    <3> QED
      BY <3>1, <1>5, <1>8
  <2> QED
    BY <2>1, <2>2
<1>12. Took(vol, vol2, p, q, m, v, x, e)
  BY <1>3, <1>4, <1>5, <1>6, <1>10, <1>11 DEF Took, Grown
<1> QED
  BY <1>12 DEF e, q

Note(wr, v, o, l, data) ==
    [wr EXCEPT ![v] = [b \in DOMAIN @ |-> IF b \in o .. o + l - 1 THEN data ELSE @[b]]]

LEMMA StoredWritten ==
  ASSUME NEW m \in Nat, NEW p, NEW q, NEW vol, NEW vol2, NEW devs, NEW n, NEW dk, NEW wr, NEW data,
         NEW v \in LiveIn(vol), NEW o \in Blocks(vol, v), NEW l \in Nat \ {0}, NEW e,
         ExtentIndex(o) = ExtentIndex(o + l - 1),
         Maps(vol, p, m), Stored(vol, p, devs, dk, wr), Layout(q, m, devs, n),
         Took(vol, vol2, p, q, m, v, ExtentIndex(o), e),
         NEW dk2, dk2 = Put(q, devs, dk, e, o, l, data), NEW wr2, wr2 = Note(wr, v, o, l, data)
  PROVE  Stored(vol2, q, devs, dk2, wr2)
<1> DEFINE x == ExtentIndex(o)
<1>1. /\ PoolOK(q, m) /\ q \in Pools(m) /\ Same(p, q, m) /\ e \in 0 .. m - 1 /\ e # 0
      /\ Maps(vol2, q, m) /\ LiveIn(vol2) = LiveIn(vol) /\ Map(vol2, v)[x] = e /\ Keeps(vol, vol2)
  BY DEF Took, PoolOK
<1>2. \A w \in LiveIn(vol) : Blocks(vol2, w) = Blocks(vol, w) /\ Places(vol2, w) = Places(vol, w)
  BY <1>1 DEF Keeps, Blocks, Places
<1>3. /\ dk = [d \in Device |-> dk[d]] /\ \A d \in Device : DOMAIN dk[d] = 0 .. DeviceBlocks(d) - 1
      /\ wr = [w \in Volume |-> wr[w]] /\ \A w \in LiveIn(vol) : DOMAIN wr[w] = Blocks(vol, w)
      /\ \A w \in LiveIn(vol) : \A b \in Blocks(vol, w) : Held(vol, p, devs, dk, wr, w, b)
  BY DEF Stored
<1>4. \A w \in LiveIn(vol) : w \in Volume
  BY DEF LiveIn
<1>5. \A w \in LiveIn(vol) : \A b \in Blocks(vol, w) : b \in Nat
  BY RecordOf, PoolConstants DEF Blocks
<1>6. o \in Nat
  BY <1>5
<1>7. dk2 = [d \in Device |-> dk2[d]] /\ \A d \in Device : DOMAIN dk2[d] = DOMAIN dk[d]
  BY <1>3 DEF Put, block_write
<1>8. /\ wr2 = [w \in Volume |-> wr2[w]] /\ \A w \in LiveIn(vol) : DOMAIN wr2[w] = DOMAIN wr[w]
      /\ \A w \in LiveIn(vol) : \A b \in DOMAIN wr[w] :
            wr2[w][b] = IF w = v /\ b \in o .. o + l - 1 THEN data ELSE wr[w][b]
  BY <1>3, <1>4 DEF Note
<1>9. (o % BLOCKS_PER_EXTENT) + l <= BLOCKS_PER_EXTENT
  BY <1>6, RunBlocks
<1>10. ASSUME NEW w \in LiveIn(vol), NEW b \in Blocks(vol, w), wr2[w][b] # Nil
       PROVE  /\ Map(vol2, w)[ExtentIndex(b)] # 0
              /\ Cell(q, devs, dk2, Map(vol2, w)[ExtentIndex(b)], b) = wr2[w][b]
  <2> DEFINE f == Map(vol2, w)[ExtentIndex(b)]
  <2>0. b \in Nat /\ b \in DOMAIN wr[w] /\ b \in Blocks(vol2, w) /\ w \in LiveIn(vol2)
    BY <1>1, <1>2, <1>3, <1>5, <1>10
  <2>1. f # 0 => f \in 0 .. m - 1
    BY <1>1, <2>0, EntryOK
  <2>2. f \in 0 .. m - 1 => Cell(q, devs, dk2, f, b)
                              = IF f = e /\ InRun(o, l, b) THEN data ELSE Cell(q, devs, dk, f, b)
    <3> HIDE DEF f
    <3> QED
      BY <1>1, <1>3, <1>6, <1>9, <2>0, CellWritten
  <2>3. b \in o .. o + l - 1 <=> ExtentIndex(b) = x /\ InRun(o, l, b)
    BY <1>6, <2>0, RunBlocks
  <2>4. CASE w = v /\ b \in o .. o + l - 1
    <3>1. f = e /\ InRun(o, l, b)
      BY <2>3, <2>4, <1>1
    <3>2. wr2[w][b] = data
      BY <2>0, <2>4, <1>8, <1>10
    <3> HIDE DEF f
    <3>3. f # 0 /\ Cell(q, devs, dk2, f, b) = wr2[w][b]
      BY <1>1, <2>2, <3>1, <3>2
    <3> QED
      BY <3>3 DEF f
  <2>5. CASE ~(w = v /\ b \in o .. o + l - 1)
    <3>1. wr2[w][b] = wr[w][b]
      BY <2>0, <2>5, <1>8, <1>10
    <3>2. /\ Map(vol, w)[ExtentIndex(b)] # 0
          /\ Cell(p, devs, dk, Map(vol, w)[ExtentIndex(b)], b) = wr[w][b]
      BY <3>1, <1>3, <1>10 DEF Held
    <3>3. ExtentIndex(b) \in Places(vol, w)
      BY <1>10, EntryOK
    <3>4. f = Map(vol, w)[ExtentIndex(b)]
      BY <1>1, <1>10, <3>2, <3>3 DEF Keeps
    <3>5. f \in 0 .. m - 1 /\ f # 0 /\ Cell(p, devs, dk, f, b) = wr[w][b]
      BY <2>1, <3>2, <3>4
    <3>6. ~(f = e /\ InRun(o, l, b))
      <4> SUFFICES ASSUME f = e, InRun(o, l, b) PROVE FALSE
        OBVIOUS
      <4>1. x \in Places(vol2, v) /\ ExtentIndex(b) \in Places(vol2, w)
        BY <1>2, <1>10, <3>3, EntryOK
      <4>2. Exclusive(vol2, q, m, v, x)
        BY <4>1, <1>1 DEF Maps
      <4>3. w = v /\ ExtentIndex(b) = x
        BY <4>1, <4>2, <1>1, <1>10 DEF Exclusive
      <4> QED
        BY <4>3, <2>3, <2>5
    <3> HIDE DEF f
    <3>7. Cell(q, devs, dk, f, b) = Cell(p, devs, dk, f, b)
      BY <1>1, <3>5, CellKept
    <3>8. f # 0 /\ Cell(q, devs, dk2, f, b) = wr2[w][b]
      BY <2>2, <3>1, <3>5, <3>6, <3>7
    <3> QED
      BY <3>8 DEF f
  <2> QED
    BY <2>4, <2>5
<1>11. \A w \in LiveIn(vol2) : \A b \in Blocks(vol2, w) : Held(vol2, q, devs, dk2, wr2, w, b)
  BY <1>1, <1>2, <1>10 DEF Held
<1> QED
  BY <1>1, <1>2, <1>3, <1>7, <1>8, <1>11 DEF Stored

\* volume_submit writes to an extent and to its replicas; that is one copy, as
\* there are none.
Copies(q, e) == <<e>> \o [k \in 1..q.extents[e].replica_count |-> q.extents[e].replica_extents[k]]
AllCopies(q, e, dk, o, l, data) ==
    FoldLeft(LAMBDA c, x : block_write(c, PhysDevice(q, x), PhysOffset(q, x, o), l, data),
             dk, Copies(q, e))

LEMMA OneCopy ==
  ASSUME NEW q, NEW e, NEW dk, NEW o, NEW l, NEW data, q.extents[e].replica_count = 0
  PROVE  AllCopies(q, e, dk, o, l, data) = Put(q, devices, dk, e, o, l, data)
<1> DEFINE copies == Copies(q, e)
           w == [pool |-> q, copies |-> copies, offset |-> o, length |-> l, data |-> data]
<1>1. copies = <<e>>
  <2>1. [k \in 1..q.extents[e].replica_count |-> q.extents[e].replica_extents[k]] = << >>
    OBVIOUS
  <2>2. <<e>> \o << >> = <<e>>
    OBVIOUS
  <2> QED
    BY <2>1, <2>2 DEF Copies
<1>2. AllCopies(q, e, dk, o, l, data) = Write!Fold(w, dk, DOMAIN copies)
  <2> HIDE DEF copies
  <2>1. FoldLeft(LAMBDA c, x : block_write(c, PhysDevice(q, x), PhysOffset(q, x, o), l, data),
                 dk, copies) = Write!Fold(w, dk, DOMAIN copies)
    BY DEF FoldLeft, MapThenFoldSet, Write!Fold, WriteStep
  <2> QED
    BY <2>1 DEF AllCopies, copies, FoldLeft, MapThenFoldSet
<1> HIDE DEF copies
<1>3. w.pool = q /\ w.copies = copies /\ w.offset = o /\ w.length = l /\ w.data = data
  OBVIOUS
<1> HIDE DEF w
<1>4. DOMAIN copies = 1 .. 1 /\ copies[1] = e
  BY <1>1
<1>5. Write!Fold(w, dk, 1 .. 1) = WriteStep(w, 1, dk)
  <2>1. Write!PicksLast(1)
    BY Write!GreatestMember DEF Write!PicksLast, Max
  <2> QED
    BY <2>1, Write!FoldOne
<1>6. WriteStep(w, 1, dk) = Put(q, devices, dk, e, o, l, data)
  BY <1>3, <1>4 DEF WriteStep, Put, PhysDevice
<1> QED
  BY <1>2, <1>4, <1>5, <1>6

\* What the write does, by the extent it writes to.
LEMMA WriteTakes ==
  ASSUME PoolSound, NEW v \in LiveIn(volumes), NEW r, NEW data, NEW x, x = ExtentIndex(r.offset),
         x \in Places(volumes, v), volume_write(v, r, data)
  PROVE  \E e : /\ Took(volumes, volumes', pool, pool', Size, v, x, e)
                /\ disk' = AllCopies(pool', e, disk, r.offset, r.length, data)
                /\ written' = IF ~InBounds(PhysDevice(pool', e), PhysOffset(pool', e, r.offset), r.length)
                                THEN written ELSE Note(written, v, r.offset, r.length, data)
<1> DEFINE m == Size
           map == Map(volumes, v)
           old == map[x]
<1>1. /\ m \in Nat /\ PoolOK(pool, m) /\ Maps(volumes, pool, m) /\ Owned(volumes, pool, m)
  BY DEF PoolSound
<1> DEFINE G == IF volumes[v].extent_map[ExtentIndex(r.offset)] = 0 THEN pool_alloc_extent(pool)
                ELSE [ok |-> TRUE, pool |-> pool, id |-> volumes[v].extent_map[ExtentIndex(r.offset)]]
<1>2. disk' = AllCopies(G.pool, G.id, disk, r.offset, r.length, data)
  BY DEF volume_write, AllCopies, Copies, FoldLeft, MapThenFoldSet
<1>3. CASE old # 0
  <2>1. pool' = pool /\ volumes' = volumes
    BY <1>3 DEF volume_write, Map
  <2>2. Took(volumes, volumes, pool, pool, m, v, x, old)
    <3> HIDE DEF m, old
    <3> QED
      BY <1>1, <1>3, TookOld DEF old
  <2>3. disk' = AllCopies(pool, old, disk, r.offset, r.length, data)
    <3>1. G.pool = pool /\ G.id = old
      BY <1>3 DEF Map
    <3> HIDE DEF G, old
    <3> QED
      BY <1>2, <3>1
  <2>4. written' = IF ~InBounds(PhysDevice(pool, old), PhysOffset(pool, old, r.offset), r.length)
                     THEN written ELSE Note(written, v, r.offset, r.length, data)
    BY <1>3 DEF volume_write, Map, Note
  <2> HIDE DEF old, m
  <2> QED
    BY <2>1, <2>2, <2>3, <2>4 DEF m
<1>4. CASE old = 0
  <2> DEFINE g == pool_alloc_extent(pool)
             e == g.id
             map2 == [map EXCEPT ![x] = e]
             rec == [volumes[v] EXCEPT !.extent_map[x] = e, !.allocated = @ + 1]
             vol2 == With(volumes, v, rec)
  <2>1. g.ok /\ pool' = g.pool
    BY <1>4 DEF volume_write, Map
  <2>2. pool.free_extents # 0
    BY <2>1 DEF pool_alloc_extent
  <2>3. Got(pool, g, m)
    <3>1. pool.free_extents > 0
      BY <1>1, <2>2 DEF PoolOK, Pools
    <3> HIDE DEF m
    <3> QED
      BY <1>1, <3>1, AllocSucceeds
  <2>4. volumes' = vol2
    BY <1>4 DEF volume_write, Map, With
  <2>5. rec \in VolumeRecord /\ rec.extent_map = map2
    <3>1. volumes[v] \in VolumeRecord /\ map \in Seq(Nat) /\ Places(volumes, v) = 1 .. Len(map)
      BY <1>1, RecordOf DEF Places
    <3>2. e \in Nat
      BY <2>3 DEF Got, FreeSet
    <3>3. map2 \in Seq(Nat)
      <4> DEFINE k == Len(map)
      <4>1. map \in [1 .. k -> Nat] /\ k \in Nat
        BY <3>1
      <4> HIDE DEF k, e
      <4>2. map2 \in [1 .. k -> Nat]
        BY <3>2, <4>1
      <4> QED
        BY <4>1, <4>2
    <3>4. rec = [volumes[v] EXCEPT !.extent_map = map2, !.allocated = volumes[v].allocated + 1]
      BY DEF Map
    <3>5. volumes[v].allocated + 1 \in Nat
      BY <3>1 DEF VolumeRecord
    <3> HIDE DEF rec, map2
    <3> QED
      BY <3>1, <3>3, <3>4, <3>5 DEF VolumeRecord
  <2>6. Took(volumes, vol2, pool, g.pool, m, v, x, g.id)
    <3>1. map2 = [Map(volumes, v) EXCEPT ![x] = g.id] /\ Map(volumes, v)[x] = 0 /\ vol2 = With(volumes, v, rec)
      BY <1>4
    <3> HIDE DEF m, g, map2, rec, vol2, e
    <3> QED
      BY <1>1, <2>3, <2>5, <3>1, TookNew
  <2>7. Took(volumes, volumes', pool, pool', m, v, x, e)
    BY <2>1, <2>4, <2>6
  <2>8. disk' = AllCopies(g.pool, e, disk, r.offset, r.length, data)
    <3>1. G = g
      BY <1>4 DEF Map
    <3> HIDE DEF G, g
    <3> QED
      BY <1>2, <3>1
  <2>9. written' = IF ~InBounds(PhysDevice(g.pool, e), PhysOffset(g.pool, e, r.offset), r.length)
                     THEN written ELSE Note(written, v, r.offset, r.length, data)
    BY <1>4 DEF volume_write, Map, Note
  <2> HIDE DEF e, m, g
  <2> QED
    BY <2>1, <2>7, <2>8, <2>9 DEF m
<1> QED
  BY <1>3, <1>4

LEMMA RequestOK ==
  ASSUME PoolSound, NEW v \in Live, NEW r \in Request(v)
  PROVE  /\ v \in LiveIn(volumes) /\ r.offset \in Blocks(volumes, v) /\ r.offset \in Nat
         /\ r.length \in Nat \ {0} /\ ExtentIndex(r.offset) = ExtentIndex(r.offset + r.length - 1)
         /\ ExtentIndex(r.offset) \in Places(volumes, v)
<1>1. v \in LiveIn(volumes)
  BY DEF Live, LiveIn
<1>2. r.offset \in 0 .. VolumeBlocks(v) - 1 /\ r.length \in 1 .. MaxLength
  BY DEF Request
<1>3. Blocks(volumes, v) = 0 .. VolumeBlocks(v) - 1
  BY DEF Blocks, VolumeBlocks, Map
<1>4. Maps(volumes, pool, Size) /\ Straddle = FALSE
  BY DEF PoolSound, Plain
<1>5. ExtentIndex(r.offset) = ExtentIndex(r.offset + r.length - 1)
  BY <1>4 DEF Request
<1>6. Len(Map(volumes, v)) \in Nat
  BY <1>1, <1>4, RecordOf
<1>7. VolumeBlocks(v) \in Int
  BY <1>6, PoolConstants DEF VolumeBlocks, Map
<1>8. ExtentIndex(r.offset) \in Places(volumes, v)
  BY <1>1, <1>2, <1>3, <1>4, EntryOK
<1> QED
  BY <1>1, <1>2, <1>3, <1>5, <1>7, <1>8, PoolConstants

\* The write always succeeds: the run is on the device.
LEMMA WriteDoes ==
  ASSUME PoolSound, NEW v \in Live, NEW r \in Request(v), NEW data, volume_write(v, r, data)
  PROVE  \E e : /\ Took(volumes, volumes', pool, pool', Size, v, ExtentIndex(r.offset), e)
                /\ Layout(pool', Size, devices, device_count)
                /\ disk' = Put(pool', devices, disk, e, r.offset, r.length, data)
                /\ written' = Note(written, v, r.offset, r.length, data)
<1> DEFINE m == Size
           o == r.offset
           l == r.length
           x == ExtentIndex(o)
<1>1. /\ v \in LiveIn(volumes) /\ o \in Nat /\ l \in Nat \ {0}
      /\ ExtentIndex(o) = ExtentIndex(o + l - 1) /\ x \in Places(volumes, v)
  BY RequestOK
<1>2. m \in Nat /\ Layout(pool, m, devices, device_count)
  BY DEF PoolSound
<1>3. PICK e : /\ Took(volumes, volumes', pool, pool', m, v, x, e)
               /\ disk' = AllCopies(pool', e, disk, o, l, data)
               /\ written' = IF ~InBounds(PhysDevice(pool', e), PhysOffset(pool', e, o), l)
                               THEN written ELSE Note(written, v, o, l, data)
  BY <1>1, WriteTakes
<1>4. PoolOK(pool', m) /\ pool' \in Pools(m) /\ Same(pool, pool', m) /\ e \in 0 .. m - 1
  BY <1>3 DEF Took, PoolOK
<1> HIDE DEF m, o, l, x
<1>5. Layout(pool', m, devices, device_count)
  BY <1>2, <1>4, LayoutKept
<1>6. pool'.extents[e].replica_count = 0
  BY <1>4 DEF PoolOK
<1>7. disk' = Put(pool', devices, disk, e, o, l, data)
  BY <1>3, <1>6, OneCopy
<1>8. (o % BLOCKS_PER_EXTENT) + l <= BLOCKS_PER_EXTENT
  BY <1>1, RunBlocks
<1>9. PhysOffset(pool', e, o) + l <= DeviceBlocks(devices[pool'.extents[e].device_id])
  BY <1>1, <1>2, <1>4, <1>5, <1>8, OnDevice
<1>10. written' = Note(written, v, o, l, data)
  BY <1>3, <1>9 DEF InBounds, PhysDevice
<1> QED
  BY <1>3, <1>5, <1>7, <1>10 DEF m, o, l, x

LEMMA SoundWrite ==
  ASSUME PoolSound, NEW v \in Live, NEW r \in Request(v), NEW data \in Data,
         volume_write(v, r, data)
  PROVE  PoolSound'
<1> DEFINE m == Size
           o == r.offset
           l == r.length
<1>1. /\ v \in LiveIn(volumes) /\ o \in Blocks(volumes, v) /\ l \in Nat \ {0}
      /\ ExtentIndex(o) = ExtentIndex(o + l - 1)
  BY RequestOK
<1>2. /\ m \in Nat /\ Maps(volumes, pool, m) /\ Stored(volumes, pool, devices, disk, written)
  BY DEF PoolSound
<1>3. PICK e : /\ Took(volumes, volumes', pool, pool', m, v, ExtentIndex(o), e)
               /\ Layout(pool', m, devices, device_count)
               /\ disk' = Put(pool', devices, disk, e, o, l, data)
               /\ written' = Note(written, v, o, l, data)
  BY WriteDoes
<1>4. UNCHANGED <<pool_state, devices, device_count, used_size, free_size>>
  BY DEF volume_write
<1> HIDE DEF m, o, l
<1>5. Stored(volumes', pool', devices, disk', written')
  BY <1>1, <1>2, <1>3, StoredWritten
<1>6. PoolOK(pool', m) /\ Maps(volumes', pool', m) /\ Owned(volumes', pool', m)
  BY <1>3 DEF Took
<1>7. /\ pool_state' \in {"NONE", "OFFLINE", "ONLINE"} /\ Plain
      /\ used_size' \in 0 .. SIZE_MODULUS - 1 /\ free_size' \in 0 .. SIZE_MODULUS - 1
  BY <1>4 DEF PoolSound
<1>8. Layout(pool', m, devices', device_count') /\ Stored(volumes', pool', devices', disk', written')
  BY <1>3, <1>4, <1>5
<1> QED
  BY <1>2, <1>6, <1>7, <1>8, Assemble

-----------------------------------------------------------------------------
(* The theorems. *)

LEMMA PoolStep == PoolSound /\ [Next]_vars => PoolSound'
<1> SUFFICES ASSUME PoolSound, [Next]_vars PROVE PoolSound'
  OBVIOUS
<1>1. CASE pool_create
  BY <1>1, SoundCreatePool
<1>2. CASE pool_destroy
  BY <1>2, SoundDestroyPool
<1>3. CASE \E d \in Device : pool_add_device(d)
  BY <1>3, SoundAddDevice
<1>4. CASE \E v \in Volume, n \in 1..MaxExtents, r \in Replications, thin \in ThinModes :
             volume_create(v, n, r, thin)
  BY <1>4, SoundCreate
<1>5. CASE \E v \in Volume : volume_destroy(v)
  BY <1>5, SoundDestroy
<1>6. CASE \E v \in Volume, n \in 1..MaxExtents : volume_resize(v, n)
  BY <1>6, SoundResize
<1>7. CASE \E v \in Live, data \in Data : \E r \in Request(v) : volume_write(v, r, data)
  BY <1>7, SoundWrite
<1>8. CASE UNCHANGED vars
  <2>1. PoolSound /\ Size \in Nat
    BY DEF PoolSound
  <2>2. /\ pool' = pool /\ volumes' = volumes /\ devices' = devices /\ disk' = disk
        /\ written' = written /\ device_count' = device_count /\ pool_state' = pool_state
        /\ used_size' = used_size /\ free_size' = free_size
    BY <1>8 DEF vars
  <2> QED
    BY <2>1, <2>2, Assemble DEF PoolSound
<1> QED
  BY <1>1, <1>2, <1>3, <1>4, <1>5, <1>6, <1>7, <1>8 DEF Next

LEMMA PoolTyped == PoolSound => TypeOK
<1> SUFFICES ASSUME PoolSound PROVE TypeOK
  OBVIOUS
<1> DEFINE m == Size
<1>1. /\ m \in Nat /\ PoolOK(pool, m) /\ pool \in Pools(m) /\ Maps(volumes, pool, m)
      /\ Layout(pool, m, devices, device_count) /\ Stored(volumes, pool, devices, disk, written)
  BY DEF PoolSound, PoolOK
<1>2. total_extents(pool) = m
  BY DEF Size
<1>3. DOMAIN pool.extents = 0 .. m - 1
  BY <1>1, TableSize
<1> HIDE DEF m
<1>4. pool.next_extent \in 0 .. m /\ \A i \in 0 .. m - 1 : pool.extents[i] \in Extent
  BY <1>1 DEF Pools
<1>5. pool.free_extents \in 0 .. m
  <2>1. FreeSet(pool, m) \subseteq 0 .. m - 1
    BY DEF FreeSet
  <2>2. IsFiniteSet(0 .. m - 1) /\ Cardinality(0 .. m - 1) = m
    BY <1>1, FS_Interval
  <2>3. Cardinality(FreeSet(pool, m)) \in Nat /\ Cardinality(FreeSet(pool, m)) <= m
    BY <1>1, <2>1, <2>2, FS_Subset, TableSize
  <2> QED
    BY <1>1, <2>3 DEF PoolOK
<1>6. ASSUME NEW v \in Live
      PROVE  /\ volumes[v] \in VolumeRecord
             /\ \A i \in DOMAIN volumes[v].extent_map :
                  volumes[v].extent_map[i] \in DOMAIN pool.extents \cup {0}
             /\ DOMAIN written[v] = 0 .. VolumeBlocks(v) - 1
  <2>1. v \in LiveIn(volumes)
    BY <1>6 DEF Live, LiveIn
  <2>2. volumes[v] \in VolumeRecord /\ DOMAIN Map(volumes, v) = Places(volumes, v)
    BY <1>1, <2>1, RecordOf
  <2>3. \A i \in Places(volumes, v) : Map(volumes, v)[i] \in DOMAIN pool.extents \cup {0}
    BY <1>1, <1>3, <2>1 DEF Maps, Exclusive
  <2>4. DOMAIN written[v] = Blocks(volumes, v)
    BY <1>1, <2>1 DEF Stored
  <2> QED
    BY <2>2, <2>3, <2>4 DEF Map, Blocks, VolumeBlocks
<1> QED
  BY <1>1, <1>2, <1>3, <1>4, <1>5, <1>6 DEF TypeOK, PoolSound, Layout

LEMMA PoolAccounted == PoolSound => FreeCountExact /\ ExtentsExclusive /\ NothingLeaked
<1> SUFFICES ASSUME PoolSound PROVE FreeCountExact /\ ExtentsExclusive /\ NothingLeaked
  OBVIOUS
<1> DEFINE m == Size
<1>1. /\ m \in Nat /\ PoolOK(pool, m) /\ Maps(volumes, pool, m) /\ Owned(volumes, pool, m)
  BY DEF PoolSound
<1> HIDE DEF m
<1>2. DOMAIN pool.extents = 0 .. m - 1
  BY <1>1, TableSize DEF PoolOK
<1>3. FreeCountExact
  BY <1>1, <1>2 DEF FreeCountExact, PoolOK, FreeSet
<1>4. Live = LiveIn(volumes)
  BY DEF Live, LiveIn
<1>5. \A v \in Live : \A i \in Places(volumes, v) : <<v, i>> \in MapEntries
  <2> SUFFICES ASSUME NEW v \in Live, NEW i \in Places(volumes, v) PROVE <<v, i>> \in MapEntries
    OBVIOUS
  <2>1. /\ Len(Map(volumes, v)) \in Nat /\ DOMAIN Map(volumes, v) = Places(volumes, v)
    BY <1>1, <1>4, RecordOf
  <2>2. Len(Map(volumes, v)) <= MaxExtents
    BY <1>1, <1>4 DEF Maps
  <2>3. i \in 1 .. MaxExtents
    BY <2>1, <2>2, PoolConstants DEF Places
  <2> QED
    BY <2>1, <2>3 DEF MapEntries, Map
<1>6. \A e \in MapEntries : /\ e[1] \in LiveIn(volumes) /\ e[2] \in Places(volumes, e[1])
                            /\ e = <<e[1], e[2]>> /\ Mapped(e) = Map(volumes, e[1])[e[2]]
  <2> SUFFICES ASSUME NEW e \in MapEntries
               PROVE  /\ e[1] \in LiveIn(volumes) /\ e[2] \in Places(volumes, e[1])
                      /\ e = <<e[1], e[2]>> /\ Mapped(e) = Map(volumes, e[1])[e[2]]
    OBVIOUS
  <2>1. /\ e \in Live \X (1..MaxExtents) /\ e[2] \in DOMAIN volumes[e[1]].extent_map
    BY DEF MapEntries
  <2>2. e[1] \in LiveIn(volumes) /\ e = <<e[1], e[2]>>
    BY <2>1, <1>4
  <2>3. DOMAIN Map(volumes, e[1]) = Places(volumes, e[1])
    BY <2>2, <1>1, RecordOf
  <2> QED
    BY <2>1, <2>2, <2>3 DEF Map, Mapped
<1>7. ExtentsExclusive
  <2> SUFFICES ASSUME NEW x \in MapEntries, NEW y \in MapEntries, Mapped(x) # 0
               PROVE  /\ pool.extents[Mapped(x)].state = "ALLOCATED"
                      /\ Mapped(x) = Mapped(y) => x = y
    BY DEF ExtentsExclusive
  <2>1. Exclusive(volumes, pool, m, x[1], x[2])
    BY <1>1, <1>6 DEF Maps
  <2>2. /\ pool.extents[Mapped(x)].state = "ALLOCATED"
        /\ Mapped(x) = Mapped(y) => x[1] = y[1] /\ x[2] = y[2]
    BY <2>1, <1>6 DEF Exclusive
  <2> QED
    BY <2>2, <1>6
<1>8. NothingLeaked
  <2> SUFFICES ASSUME NEW e \in DOMAIN pool.extents \ {0}, pool.extents[e].state = "ALLOCATED"
               PROVE  \E x \in MapEntries : Mapped(x) = e
    BY DEF NothingLeaked
  <2>1. e \in 1 .. m - 1
    BY <1>1, <1>2
  <2>2. PICK v \in LiveIn(volumes) : \E i \in Places(volumes, v) : Map(volumes, v)[i] = e
    BY <2>1, <1>1 DEF Owned
  <2>3. PICK i \in Places(volumes, v) : Map(volumes, v)[i] = e
    BY <2>2
  <2>4. <<v, i>> \in MapEntries /\ Mapped(<<v, i>>) = e
    BY <1>4, <1>5, <2>3 DEF Mapped, Map
  <2> QED
    BY <2>4
<1> QED
  BY <1>3, <1>7, <1>8

\* volume_submit for a read finds the cell of each block of the run.
LEMMA PoolReads == PoolSound => ReadYourWrites
<1> SUFFICES ASSUME PoolSound, NEW v \in Live, NEW r \in Request(v), NEW k \in 1 .. r.length,
                    written[v][r.offset + k - 1] # Nil
             PROVE  volume_read(v, r)[k] = written[v][r.offset + k - 1]
  BY DEF ReadYourWrites
<1> DEFINE m == Size
           B == BLOCKS_PER_EXTENT
           o == r.offset
           l == r.length
           b == o + k - 1
           x == ExtentIndex(o)
           e == Map(volumes, v)[x]
           at == PhysOffset(pool, e, o)
           d == devices[pool.extents[e].device_id]
<1>1. /\ m \in Nat /\ pool \in Pools(m) /\ Maps(volumes, pool, m)
      /\ Layout(pool, m, devices, device_count) /\ Stored(volumes, pool, devices, disk, written)
  BY DEF PoolSound, PoolOK
<1>2. /\ v \in LiveIn(volumes) /\ o \in Nat /\ l \in Nat \ {0} /\ B \in Nat \ {0}
      /\ ExtentIndex(o) = ExtentIndex(o + l - 1) /\ x \in Places(volumes, v) /\ o \in Blocks(volumes, v)
  BY RequestOK, PoolConstants
<1>3. b \in Nat /\ b \in o .. o + l - 1 /\ k - 1 \in 0 .. l - 1
  BY <1>2
<1>4. (o % B) + l <= B /\ ExtentIndex(b) = x
  <2> HIDE DEF b, l, o
  <2> QED
    BY <1>2, <1>3, RunBlocks
<1>5. b \in Blocks(volumes, v)
  <2>1. o + l <= VolumeBlocks(v)
    BY DEF Request
  <2>2. Blocks(volumes, v) = 0 .. VolumeBlocks(v) - 1
    BY DEF Blocks, VolumeBlocks, Map
  <2>3. VolumeBlocks(v) \in Int
    BY <1>1, <1>2, RecordOf DEF VolumeBlocks, Map
  <2> HIDE DEF b
  <2> QED
    BY <1>2, <1>3, <2>1, <2>2, <2>3
<1>6. e # 0 /\ Cell(pool, devices, disk, e, b) = written[v][b]
  <2>1. Held(volumes, pool, devices, disk, written, v, b)
    BY <1>1, <1>2, <1>5 DEF Stored
  <2> QED
    BY <2>1, <1>4 DEF Held
<1>7. e \in 0 .. m - 1
  BY <1>1, <1>2, <1>6, EntryOK
<1>8. at \in Nat /\ at + l <= DeviceBlocks(d)
  <2> HIDE DEF e, o, l, m
  <2> QED
    BY <1>1, <1>2, <1>4, <1>7, OnDevice
<1>9. PhysOffset(pool, e, b) = at + k - 1
  <2> DEFINE j == k - 1
  <2>1. o \div B = (o + l - 1) \div B
    <3> DEFINE y == o \div B
               z == (o + l - 1) \div B
    <3>1. y \in Nat /\ z \in Nat
      <4>1. o + l - 1 \in Nat
        BY <1>2
      <4> HIDE DEF o, l, B
      <4> QED
        BY <1>2, <4>1, Division
    <3>2. y + 1 = z + 1
      BY <1>2 DEF ExtentIndex
    <3> HIDE DEF y, z
    <3>3. y = z
      BY <3>1, <3>2
    <3> QED
      BY <3>3 DEF y, z
  <2>2. b = o + j /\ j \in 0 .. l - 1
    BY <1>3
  <2> HIDE DEF B, b, o, l, j
  <2>3. b % B = (o % B) + j
    BY <1>2, <2>1, <2>2, OneExtent
  <2> DEFINE z == pool.extents[e].device_offset * B
             s == o % B
  <2>4. PhysOffset(pool, e, b) = z + (s + j) /\ at = z + s
    BY <2>3 DEF PhysOffset, B
  <2>5. z \in Nat /\ s \in Nat /\ j \in Int
    <3>1. pool.extents[e].device_offset \in Nat
      BY <1>1, <1>7 DEF Pools, Extent
    <3>2. s \in Nat
      BY <1>2, Division
    <3> QED
      BY <1>2, <2>2, <3>1, <3>2
  <2> HIDE DEF z, s
  <2>6. z + (s + j) = (z + s) + j
    BY <2>5
  <2> QED
    BY <2>4, <2>6 DEF j
<1>10. volume_read(v, r) = [i \in 1 .. l |-> disk[d][at + i - 1]]
  BY <1>6, <1>8 DEF volume_read, InBounds, PhysDevice, Map
<1>11. Cell(pool, devices, disk, e, b) = disk[d][at + k - 1]
  BY <1>9 DEF Cell
<1> HIDE DEF e, at, d, b
<1>12. volume_read(v, r)[k] = written[v][b]
  BY <1>6, <1>10, <1>11
<1> QED
  BY <1>12 DEF b

\* What volume_submit reads from block b of a volume, its extent being e, and
\* what there is to find.
ReadOf(p, devs, dk, e, b) ==
    IF e = 0 THEN [k \in 1..1 |-> Zero]
    ELSE IF InBounds(devs[p.extents[e].device_id], PhysOffset(p, e, b), 1)
      THEN [k \in 1..1 |-> dk[devs[p.extents[e].device_id]][PhysOffset(p, e, b) + k - 1]]
      ELSE [k \in 1..1 |-> Nil]
Found(p, devs, dk, e, b) == [k \in 1..1 |-> IF e = 0 THEN Zero ELSE Cell(p, devs, dk, e, b)]

LEMMA ReadCell ==
  ASSUME NEW m \in Nat, NEW p, p \in Pools(m), NEW devs, NEW n, Layout(p, m, devs, n), NEW dk,
         NEW b \in Nat, NEW e, e # 0 => e \in 0 .. m - 1
  PROVE  ReadOf(p, devs, dk, e, b) = Found(p, devs, dk, e, b)
<1> DEFINE d == devs[p.extents[e].device_id]
           at == PhysOffset(p, e, b)
<1>1. CASE e = 0
  BY <1>1 DEF ReadOf, Found
<1>2. CASE e # 0
  <2>1. (b % BLOCKS_PER_EXTENT) + 1 <= BLOCKS_PER_EXTENT
    <3>1. b % BLOCKS_PER_EXTENT \in 0 .. BLOCKS_PER_EXTENT - 1
      BY PoolConstants, Division
    <3> QED
      BY <3>1, PoolConstants
  <2>2. at \in Nat /\ at + 1 <= DeviceBlocks(d)
    BY <1>2, <2>1, OnDevice
  <2>3. InBounds(d, at, 1)
    BY <2>2 DEF InBounds
  <2>4. Cell(p, devs, dk, e, b) = dk[d][at]
    BY DEF Cell
  <2> HIDE DEF d, at
  <2>5. \A k \in 1..1 : at + k - 1 = at
    BY <2>2
  <2>6. [k \in 1..1 |-> dk[d][at + k - 1]] = [k \in 1..1 |-> Cell(p, devs, dk, e, b)]
    BY <2>4, <2>5
  <2> QED
    BY <1>2, <2>3, <2>6 DEF d, at, ReadOf, Found
<1> QED
  BY <1>1, <1>2

\* A volume whose extents a step leaves alone.
Alone(w) ==
    \A b \in Blocks(volumes, w) :
        /\ b \in Blocks(volumes', w)
        /\ Map(volumes', w)[ExtentIndex(b)] = Map(volumes, w)[ExtentIndex(b)]
        /\ Map(volumes, w)[ExtentIndex(b)] # 0 =>
             Cell(pool', devices', disk', Map(volumes, w)[ExtentIndex(b)], b)
               = Cell(pool, devices, disk, Map(volumes, w)[ExtentIndex(b)], b)
Undisturbed(w) == \A b \in DOMAIN Contents(w) : Contents(w)'[b] = Contents(w)[b]

LEMMA AloneIsUndisturbed ==
  ASSUME PoolSound, PoolSound', NEW w \in LiveIn(volumes), w \in LiveIn(volumes'), Alone(w)
  PROVE  Undisturbed(w)
<1>1. DOMAIN Contents(w) = Blocks(volumes, w)
  BY DEF Contents, Blocks, VolumeBlocks, Map
<1> SUFFICES ASSUME NEW b \in Blocks(volumes, w) PROVE Contents(w)'[b] = Contents(w)[b]
  BY <1>1 DEF Undisturbed
<1> DEFINE m == Size
           n == Size'
           e == Map(volumes, w)[ExtentIndex(b)]
           f == Map(volumes', w)[ExtentIndex(b)]
<1>2. /\ m \in Nat /\ pool \in Pools(m) /\ Maps(volumes, pool, m)
      /\ Layout(pool, m, devices, device_count)
  BY DEF PoolSound, PoolOK
<1>3. /\ n \in Nat /\ pool' \in Pools(n) /\ Maps(volumes', pool', n)
      /\ Layout(pool', n, devices', device_count')
  BY DEF PoolSound, PoolOK
<1>4. /\ b \in Blocks(volumes', w) /\ f = e
      /\ e # 0 => Cell(pool', devices', disk', e, b) = Cell(pool, devices, disk, e, b)
  BY DEF Alone
<1>5. b \in Nat
  <2>1. Len(Map(volumes, w)) \in Nat
    BY <1>2, RecordOf
  <2> QED
    BY <2>1, PoolConstants DEF Blocks
<1>6. (e # 0 => e \in 0 .. m - 1) /\ (f # 0 => f \in 0 .. n - 1)
  <2>1. e # 0 => e \in 0 .. m - 1
    BY <1>2, EntryOK
  <2>2. f # 0 => f \in 0 .. n - 1
    BY <1>3, <1>4, EntryOK
  <2> QED
    BY <2>1, <2>2
<1>7. Contents(w)[b] = Found(pool, devices, disk, e, b)
  <2>1. Contents(w)[b] = ReadOf(pool, devices, disk, e, b)
    BY DEF Contents, volume_read, PhysDevice, Map, Blocks, VolumeBlocks, ReadOf
  <2> HIDE DEF e, m
  <2> QED
    BY <1>2, <1>5, <1>6, <2>1, ReadCell
<1>8. Contents(w)'[b] = Found(pool', devices', disk', f, b)
  <2>1. Contents(w)'[b] = ReadOf(pool', devices', disk', f, b)
    BY <1>4 DEF Contents, volume_read, PhysDevice, Map, Blocks, VolumeBlocks, ReadOf
  <2> HIDE DEF f, n
  <2> QED
    BY <1>3, <1>5, <1>6, <2>1, ReadCell
<1> HIDE DEF e, f
<1> QED
  BY <1>4, <1>7, <1>8 DEF Found

\* The table changes, the devices do not.
LEMMA AloneBySame ==
  ASSUME PoolSound, NEW w \in LiveIn(volumes), volumes'[w] = volumes[w],
         Same(pool, pool', Size), devices' = devices, disk' = disk
  PROVE  Alone(w)
<1> DEFINE m == Size
<1>1. Maps(volumes, pool, m) /\ Map(volumes', w) = Map(volumes, w)
  BY DEF PoolSound, Map
<1>2. Blocks(volumes', w) = Blocks(volumes, w)
  BY <1>1 DEF Blocks
<1> HIDE DEF m
<1>3. ASSUME NEW b \in Blocks(volumes, w), Map(volumes, w)[ExtentIndex(b)] # 0
      PROVE  Cell(pool', devices', disk', Map(volumes, w)[ExtentIndex(b)], b)
               = Cell(pool, devices, disk, Map(volumes, w)[ExtentIndex(b)], b)
  <2> DEFINE e == Map(volumes, w)[ExtentIndex(b)]
  <2>1. e \in 0 .. m - 1
    BY <1>1, <1>3, EntryOK
  <2> HIDE DEF e
  <2>2. Cell(pool', devices, disk, e, b) = Cell(pool, devices, disk, e, b)
    BY <2>1, CellKept DEF m
  <2> QED
    BY <2>2 DEF e
<1> QED
  BY <1>1, <1>2, <1>3 DEF Alone

\* No volume but v is disturbed.
Isolated(v) ==
    \A w \in Volume \ {v} : volumes[w] # Nil /\ volumes'[w] # Nil => Undisturbed(w)

LEMMA IsolatedByAlone ==
  ASSUME PoolSound, PoolSound', NEW v,
         \A w \in LiveIn(volumes) : w # v /\ volumes'[w] # Nil => Alone(w)
  PROVE  Isolated(v)
  BY AloneIsUndisturbed DEF Isolated, LiveIn

LEMMA AddKeeps ==
  ASSUME PoolSound, NEW d \in Device, pool_add_device(d)
  PROVE  Kept(pool, pool', Size)
<1> DEFINE m == Size
           k == DeviceExtents[d]
<1>1. m \in Nat /\ k \in Nat /\ pool \in Pools(m)
  BY PoolConstants DEF PoolSound, PoolOK
<1> SUFFICES ASSUME NEW i \in 0 .. m - 1 PROVE pool'.extents[i] = pool.extents[i]
  BY DEF Kept
<1>2. CASE UNCHANGED pool
  BY <1>2
<1>3. CASE ~UNCHANGED pool
  <2> DEFINE fresh(j) == [state |-> "FREE", device_id |-> device_count, device_offset |-> j - m,
                          replica_count |-> 0, replica_extents |-> [r \in 1..3 |-> 0]]
             tab == [j \in 0 .. (m + k) - 1 |-> IF j < m THEN pool.extents[j] ELSE fresh(j)]
             b == pool.free_extents + k
  <2>1. pool' = Retable(pool, tab, b)
    BY <1>3 DEF pool_add_device, Retable, Size
  <2> HIDE DEF m, k, fresh
  <2>2. i < m /\ i \in 0 .. (m + k) - 1
    BY <1>1
  <2>3. tab[i] = pool.extents[i]
    BY <2>2
  <2> HIDE DEF tab, b
  <2>4. pool'.extents = tab
    BY <1>1, <2>1 DEF Retable, Pools
  <2> QED
    BY <2>3, <2>4
<1> QED
  BY <1>2, <1>3

LEMMA AddIsolated ==
  ASSUME PoolSound, PoolSound', NEW d \in Device, pool_add_device(d), NEW v
  PROVE  Isolated(v)
<1> DEFINE m == Size
<1>1. m \in Nat /\ Maps(volumes, pool, m) /\ Layout(pool, m, devices, device_count)
  BY DEF PoolSound
<1>2. /\ volumes' = volumes /\ disk' = disk /\ devices' = Placed(devices, device_count, d)
      /\ Kept(pool, pool', m)
  BY AddKeeps DEF pool_add_device, Placed
<1> HIDE DEF m
<1>3. ASSUME NEW w \in LiveIn(volumes), NEW b \in Blocks(volumes, w), NEW e,
             e = Map(volumes, w)[ExtentIndex(b)], e # 0
      PROVE  Cell(pool', devices', disk', e, b) = Cell(pool, devices, disk, e, b)
  <2>1. e \in 0 .. m - 1
    BY <1>1, <1>3, EntryOK
  <2> QED
    BY <1>1, <1>2, <2>1, CellsStay
<1>4. \A w \in LiveIn(volumes) : Alone(w)
  BY <1>2, <1>3 DEF Alone
<1> QED
  BY <1>4, IsolatedByAlone

LEMMA WriteIsolated ==
  ASSUME PoolSound, PoolSound', NEW v \in Live, NEW r \in Request(v), NEW data \in Data,
         volume_write(v, r, data)
  PROVE  Isolated(v)
<1> DEFINE m == Size
           o == r.offset
           l == r.length
           x == ExtentIndex(o)
<1>1. /\ v \in LiveIn(volumes) /\ o \in Nat /\ l \in Nat \ {0}
      /\ ExtentIndex(o) = ExtentIndex(o + l - 1) /\ x \in Places(volumes, v)
  BY RequestOK
<1>2. /\ m \in Nat /\ Maps(volumes, pool, m) /\ Stored(volumes, pool, devices, disk, written)
  BY DEF PoolSound
<1>3. PICK e : /\ Took(volumes, volumes', pool, pool', m, v, x, e)
               /\ Layout(pool', m, devices, device_count)
               /\ disk' = Put(pool', devices, disk, e, o, l, data)
  BY WriteDoes
<1>4. devices' = devices
  BY DEF volume_write
<1> HIDE DEF m, o, l, x
<1>5. (o % BLOCKS_PER_EXTENT) + l <= BLOCKS_PER_EXTENT
  BY <1>1, RunBlocks
<1>6. /\ pool' \in Pools(m) /\ Same(pool, pool', m) /\ e \in 0 .. m - 1 /\ e # 0
      /\ Maps(volumes', pool', m) /\ LiveIn(volumes') = LiveIn(volumes)
      /\ Map(volumes', v)[x] = e /\ Places(volumes', v) = Places(volumes, v)
      /\ \A w \in LiveIn(volumes) : w # v => volumes'[w] = volumes[w]
  BY <1>1, <1>3 DEF Took, PoolOK, Keeps, Places
<1>7. /\ disk = [d \in Device |-> disk[d]]
      /\ \A d \in Device : DOMAIN disk[d] = 0 .. DeviceBlocks(d) - 1
  BY <1>2 DEF Stored
<1>8. ASSUME NEW w \in LiveIn(volumes), w # v, NEW b \in Blocks(volumes, w), NEW f,
             f = Map(volumes, w)[ExtentIndex(b)], f # 0
      PROVE  Cell(pool', devices', disk', f, b) = Cell(pool, devices, disk, f, b)
  <2>1. f \in 0 .. m - 1 /\ ExtentIndex(b) \in Places(volumes, w)
    BY <1>2, <1>8, EntryOK
  <2>2. Map(volumes', w)[ExtentIndex(b)] = f /\ Places(volumes', w) = Places(volumes, w)
    BY <1>6, <1>8 DEF Map, Places
  <2>3. f # e
    <3>1. Exclusive(volumes', pool', m, v, x)
      BY <1>1, <1>6 DEF Maps
    <3> QED
      BY <1>6, <1>8, <2>1, <2>2, <3>1 DEF Exclusive
  <2>4. b \in Nat
    <3>1. Len(Map(volumes, w)) \in Nat
      BY <1>2, <1>8, RecordOf
    <3> QED
      BY <3>1, PoolConstants DEF Blocks
  <2>5. Cell(pool', devices, disk', f, b)
          = IF f = e /\ InRun(o, l, b) THEN data ELSE Cell(pool', devices, disk, f, b)
    BY <1>1, <1>2, <1>3, <1>5, <1>6, <1>7, <2>1, <2>4, CellWritten
  <2>6. Cell(pool', devices, disk, f, b) = Cell(pool, devices, disk, f, b)
    BY <1>6, <2>1, CellKept
  <2> QED
    BY <1>4, <2>3, <2>5, <2>6
<1>9. \A w \in LiveIn(volumes) : w # v => Alone(w)
  <2> SUFFICES ASSUME NEW w \in LiveIn(volumes), w # v PROVE Alone(w)
    OBVIOUS
  <2>1. Map(volumes', w) = Map(volumes, w) /\ Blocks(volumes', w) = Blocks(volumes, w)
    BY <1>6 DEF Map, Blocks
  <2> QED
    BY <1>8, <2>1 DEF Alone
<1> QED
  BY <1>9, IsolatedByAlone

\* A step on volume v that leaves the devices and the places of extents alone.
LEMMA SameIsolated ==
  ASSUME PoolSound, PoolSound', NEW v, Same(pool, pool', Size), devices' = devices, disk' = disk,
         \A w \in LiveIn(volumes) : w # v => volumes'[w] = volumes[w]
  PROVE  Isolated(v)
<1>1. \A w \in LiveIn(volumes) : w # v => Alone(w)
  BY AloneBySame
<1> QED
  BY <1>1, IsolatedByAlone

LEMMA IsolationStep == PoolSound /\ PoolSound' /\ [Next]_vars => \E v \in Volume : Isolated(v)
<1> SUFFICES ASSUME PoolSound, PoolSound', [Next]_vars PROVE \E v \in Volume : Isolated(v)
  OBVIOUS
<1>1. PICK u \in Volume : TRUE
  BY PoolConstants
<1>2. Same(pool, pool, Size) /\ volumes \in [Volume -> VolumeRecord \cup {Nil}]
  BY DEF Same, Alike, PoolSound, Maps
<1>3. CASE pool_create \/ UNCHANGED vars
  <2>1. Isolated(u)
    BY <1>2, <1>3, SameIsolated DEF pool_create, vars
  <2> QED
    BY <2>1
<1>4. CASE pool_destroy
  <2>1. Isolated(u)
    BY <1>4 DEF pool_destroy, Isolated
  <2> QED
    BY <2>1
<1>5. CASE \E d \in Device : pool_add_device(d)
  <2>1. Isolated(u)
    BY <1>5, AddIsolated
  <2> QED
    BY <2>1
<1>6. ASSUME NEW v \in Volume, NEW n \in 1..MaxExtents, NEW r \in Replications,
             NEW thin \in ThinModes, volume_create(v, n, r, thin)
      PROVE  Isolated(v)
  <2>1. Same(pool, Preallocate(pool, n, 0).pool, Size)
    BY <1>6, CreateAllots DEF Allots, Same
  <2>2. r = 0 /\ thin = FALSE
    BY DEF PoolSound, Plain
  <2>3. pool' = Preallocate(pool, n, 0).pool /\ devices' = devices /\ disk' = disk
    BY <1>6, <2>2 DEF volume_create, volume_create_thick
  <2>4. \A w \in LiveIn(volumes) : w # v => volumes'[w] = volumes[w]
    BY <1>2, <1>6, <2>2 DEF volume_create, volume_create_thick, LiveIn
  <2> QED
    BY <2>1, <2>3, <2>4, SameIsolated
<1>7. ASSUME NEW v \in Volume, volume_destroy(v)
      PROVE  Isolated(v)
  <2>1. v \in LiveIn(volumes)
    BY <1>7 DEF volume_destroy, Live, LiveIn
  <2>2. Same(pool, FoldLeft(Release, pool, Map(volumes, v)), Size)
    BY <2>1, DestroyReleases DEF Releases, Same
  <2>3. pool' = FoldLeft(Release, pool, Map(volumes, v)) /\ devices' = devices /\ disk' = disk
    BY <1>7 DEF volume_destroy, Map
  <2>4. \A w \in LiveIn(volumes) : w # v => volumes'[w] = volumes[w]
    BY <1>2, <1>7 DEF volume_destroy, LiveIn
  <2> QED
    BY <2>2, <2>3, <2>4, SameIsolated
<1>8. ASSUME NEW v \in Volume, NEW n \in 1..MaxExtents, volume_resize(v, n)
      PROVE  Isolated(v)
  <2>1. pool' = pool /\ devices' = devices /\ disk' = disk
    BY <1>8 DEF volume_resize
  <2>2. \A w \in LiveIn(volumes) : w # v => volumes'[w] = volumes[w]
    BY <1>2, <1>8 DEF volume_resize, LiveIn
  <2> QED
    BY <1>2, <2>1, <2>2, SameIsolated
<1>9. ASSUME NEW v \in Live, NEW data \in Data, NEW r \in Request(v), volume_write(v, r, data)
      PROVE  v \in Volume /\ Isolated(v)
  BY <1>9, WriteIsolated DEF Live
<1> QED
  BY <1>3, <1>4, <1>5, <1>6, <1>7, <1>8, <1>9 DEF Next

\* The inductive invariant of the pool: the allocator is exact, every map entry
\* has an extent of its own, every extent in use has an entry, extents do not
\* overlap on the devices, and what was written is where the map says.
THEOREM PoolInvariant == Plain /\ Spec => []PoolSound
<1>1. Plain /\ Init => PoolSound
  BY PoolStart
<1>2. PoolSound /\ [Next]_vars => PoolSound'
  BY PoolStep
<1> QED
  BY <1>1, <1>2, PTL DEF Spec

\* pool_alloc_extent and pool_free_extent account for every extent: in every
\* reachable state free_extents counts the free ones, no two map entries share
\* an extent, and none is lost, whatever volumes are created, written, resized
\* and destroyed.
THEOREM ExtentsAreAccounted == Plain /\ Spec => []PoolInv
<1>1. PoolSound => PoolInv
  BY PoolTyped, PoolAccounted DEF PoolInv
<1> QED
  BY <1>1, PoolInvariant, PTL

\* volume_submit reads what was last written to the block, through every
\* sequence of operations on this volume, on others and on the devices.
THEOREM WritesAreRead == Plain /\ Spec => []ReadYourWrites
<1>1. PoolSound => ReadYourWrites
  BY PoolReads
<1> QED
  BY <1>1, PoolInvariant, PTL

\* No step changes what is read from a volume other than the one it is about.
THEOREM VolumesAreIsolated == Plain /\ Spec => VolumeIsolation
<1>1. PoolSound /\ PoolSound' /\ [Next]_vars =>
        [\E v \in Volume : \A w \in Volume \ {v} :
           /\ volumes[w] # Nil
           /\ volumes'[w] # Nil
           => \A b \in DOMAIN Contents(w) : Contents(w)'[b] = Contents(w)[b]]_vars
  BY IsolationStep DEF Isolated, Undisturbed
<1> QED
  BY <1>1, PoolInvariant, PTL DEF Spec, VolumeIsolation
=============================================================================
