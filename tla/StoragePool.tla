----------------------------- MODULE StoragePool -----------------------------
(***************************************************************************)
(* The storage pool (src/storage/pool.c): devices cut into extents, the    *)
(* extent allocator, volumes with an extent map, and the data path from a  *)
(* volume block to the blocks of the devices (src/storage/block.c and the  *)
(* memory-backed device of src/storage/memblk.c).                          *)
(*                                                                         *)
(* One pool is modelled.  Offsets and lengths count blocks; an extent has  *)
(* BLOCKS_PER_EXTENT of them.  Calls are atomic: pool.c takes no lock and  *)
(* is called from one CPU.                                                 *)
(*                                                                         *)
(* An entry 0 of an extent map means "not allocated", yet 0 is also the    *)
(* number of the first extent of the pool; the model keeps both meanings.  *)
(***************************************************************************)
EXTENDS Integers, SequencesExt

CONSTANTS
    Volume,             \* volumes that may exist
    Device,             \* block devices
    Nil,                \* no volume, no device, nothing written yet
    Data,               \* what a block may be written with
    Zero,               \* content of a zeroed block
    DeviceExtents,      \* size of each device, in extents
    BLOCKS_PER_EXTENT,  \* POOL_EXTENT_SIZE
    POOL_MAX_DEVICES,
    Replications,       \* replication modes volumes are created with
    ThinModes,          \* provisioning modes volumes are created with
    Straddle,           \* whether requests may cross an extent boundary
    SIZE_MODULUS,       \* wrap-around of the byte counters, in extents
    MaxExtents,         \* bound: extents of a volume
    MaxLength,          \* bound: blocks of a request
    MaxSnapshots,       \* bound: snapshots of volumes that exist at a time
    MaxRemovals         \* bound: devices removed from the pool

ASSUME PoolConstants ==
    /\ Volume # {}
    /\ Nil \notin Device \cup Data \cup {Zero} /\ Zero \notin Data
    /\ DeviceExtents \in [Device -> Nat \ {0}]
    /\ BLOCKS_PER_EXTENT \in Nat \ {0} /\ POOL_MAX_DEVICES \in Nat \ {0}
    /\ Replications \subseteq 0..3 /\ ThinModes \subseteq BOOLEAN
    /\ Straddle \in BOOLEAN /\ SIZE_MODULUS \in Nat \ {0}
    /\ MaxExtents \in Nat /\ MaxLength \in Nat
    /\ MaxSnapshots \in Nat /\ MaxRemovals \in Nat

VARIABLES
    pool_state,     \* NONE before pool_create, then OFFLINE or ONLINE
    devices,        \* the device array, slots beyond device_count included
    device_count,
    pool,           \* the allocator: extents, free_extents, next_extent
    used_size, free_size,
    volumes,        \* the volumes of the pool, by name
    disk,           \* content of the blocks of every device
    removals,       \* how many devices have been removed
    written         \* history: the last data a volume block was written with

vars == <<pool_state, devices, device_count, pool, used_size, free_size,
          volumes, disk, removals, written>>

Slot == 0 .. POOL_MAX_DEVICES - 1
DeviceBlocks(d) == DeviceExtents[d] * BLOCKS_PER_EXTENT

Extent ==
    [state: {"FREE", "ALLOCATED"}, device_id: Slot, device_offset: Nat,
     replica_count: 0..3, replica_extents: [1..3 -> Nat]]
VolumeRecord ==
    [extent_map: Seq(Nat), replication: 0..3, thin: BOOLEAN,
     allocated: Nat, snapshot: BOOLEAN]
ASSUME NoVolume == Nil \notin VolumeRecord

total_extents(p) == Cardinality(DOMAIN p.extents)
Live == {v \in Volume : volumes[v] # Nil}
Wrap(n) == n % SIZE_MODULUS

-----------------------------------------------------------------------------
(* Extent management: operators from one allocator state to the next.      *)

\* First fit from next_extent on; the second loop wraps around, to extent 1.
pool_alloc_extent_uncounted(p) ==
    LET found == {i \in DOMAIN p.extents : i > 0 /\ p.extents[i].state = "FREE"}
    IN  IF p.free_extents = 0 \/ found = {}
          THEN [ok |-> FALSE, pool |-> p, id |-> 0]
          ELSE [ok |-> TRUE, id |-> Min(found),
                pool |-> [p EXCEPT !.extents[Min(found)].state = "ALLOCATED"]]
pool_alloc_extent(p) ==
    LET free(S) == {i \in S : p.extents[i].state = "FREE"}
        ahead == free(p.next_extent .. total_extents(p) - 1)
        found == IF ahead # {} THEN ahead ELSE free(1 .. p.next_extent - 1)
    IN  IF p.free_extents = 0 \/ found = {}
          THEN [ok |-> FALSE, pool |-> p, id |-> 0]
          ELSE LET i == Min(found)
               IN  [ok |-> TRUE, id |-> i,
                    pool |-> [p EXCEPT !.extents[i].state = "ALLOCATED",
                                       !.free_extents = @ - 1,
                                       !.next_extent = i + 1]]

\* Extent 0 is never freed, and replica_count stays as it was.
pool_free_extent(p, e) ==
    IF e > 0 /\ e \in DOMAIN p.extents
      THEN [p EXCEPT !.extents[e].state = "FREE", !.free_extents = @ + 1]
      ELSE p

\* The primary, then `replication' replicas linked to it one by one; when one
\* of them cannot be had, all that was allocated is freed again.
pool_alloc_replicated_extent(p, replication) ==
    LET primary == pool_alloc_extent(p)
        first == primary.id
        after[k \in 0..replication] ==
            IF k = 0 THEN [ok |-> primary.ok, pool |-> primary.pool, ids |-> <<first>>]
            ELSE LET prev == after[k - 1]
                     next == pool_alloc_extent(prev.pool)
                 IN  IF ~prev.ok THEN prev
                     ELSE IF next.ok
                       THEN [ok |-> TRUE, ids |-> Append(prev.ids, next.id),
                             pool |-> [next.pool EXCEPT
                                        !.extents[first].replica_extents[k] = next.id]]
                       ELSE [ok |-> FALSE, ids |-> prev.ids,
                             pool |-> FoldLeft(pool_free_extent, prev.pool, prev.ids)]
        last == after[replication]
    IN  IF p.free_extents < replication + 1 THEN [ok |-> FALSE, pool |-> p, id |-> 0]
        ELSE [ok |-> last.ok, id |-> first,
              pool |-> IF last.ok
                         THEN [last.pool EXCEPT
                                !.extents[first].replica_count = replication]
                         ELSE last.pool]

\* The pre-allocation loop of volume_create.  Its rollback frees the primary
\* extents only.
Preallocate(p, n, replication) ==
    LET step[i \in 0..n] ==
          IF i = 0 THEN [ok |-> TRUE, pool |-> p, map |-> << >>]
          ELSE LET prev == step[i - 1]
                   next == pool_alloc_replicated_extent(prev.pool, replication)
               IN  IF ~prev.ok THEN prev
                   ELSE IF next.ok
                     THEN [ok |-> TRUE, pool |-> next.pool,
                           map |-> Append(prev.map, next.id)]
                     ELSE [ok |-> FALSE, map |-> << >>,
                           pool |-> FoldLeft(pool_free_extent, next.pool, prev.map)]
    IN  step[n]

\* The loop of volume_destroy over the extent map.
Release(p, e) ==
    IF e = 0 THEN p
    ELSE LET ext == p.extents[e]
             replicas == [r \in 1..ext.replica_count |-> ext.replica_extents[r]]
         IN  FoldLeft(pool_free_extent, p, Append(replicas, e))

-----------------------------------------------------------------------------
(* Block I/O on the devices. *)

\* block_read and block_write on device d: refused beyond its end.
InBounds(d, offset, length) == offset + length <= DeviceBlocks(d)

block_write(content, d, offset, length, data) ==
    IF InBounds(d, offset, length)
      THEN [content EXCEPT ![d] =
              [b \in DOMAIN @ |-> IF b \in offset .. offset + length - 1
                                    THEN data ELSE @[b]]]
      ELSE content

\* Where a volume offset lands when its extent is pool extent e.
PhysDevice(p, e) == devices[p.extents[e].device_id]
PhysOffset_without_base(p, e, offset) == offset % BLOCKS_PER_EXTENT
PhysOffset(p, e, offset) ==
    p.extents[e].device_offset * BLOCKS_PER_EXTENT + (offset % BLOCKS_PER_EXTENT)

ExtentIndex(offset) == offset \div BLOCKS_PER_EXTENT + 1
VolumeBlocks(v) == Len(volumes[v].extent_map) * BLOCKS_PER_EXTENT

\* The requests callers make of volume v.
Request(v) ==
    {r \in [offset: 0 .. VolumeBlocks(v) - 1, length: 1..MaxLength] :
        /\ r.offset + r.length <= VolumeBlocks(v)
        /\ Straddle \/ ExtentIndex(r.offset) = ExtentIndex(r.offset + r.length - 1)}

\* volume_submit for a read, as the sequence of blocks returned; an error
\* leaves the buffer alone.
volume_read(v, r) ==
    LET e == volumes[v].extent_map[ExtentIndex(r.offset)]
        at == PhysOffset(pool, e, r.offset)
    IN  IF e = 0 THEN [k \in 1..r.length |-> Zero]
        ELSE IF InBounds(PhysDevice(pool, e), at, r.length)
          THEN [k \in 1..r.length |-> disk[PhysDevice(pool, e)][at + k - 1]]
          ELSE [k \in 1..r.length |-> Nil]

\* volume_submit for a write.  An unallocated extent is allocated first, in
\* thin and thick volumes alike; the status is that of the primary copy.
volume_write_unmapped(v, r, data) ==
    LET x == ExtentIndex(r.offset)
        old == volumes[v].extent_map[x]
        got == IF old = 0 THEN pool_alloc_extent(pool)
                          ELSE [ok |-> TRUE, pool |-> pool, id |-> old]
        e == got.id
    IN  /\ got.ok
        /\ disk' = block_write(disk, PhysDevice(got.pool, e),
                               PhysOffset(got.pool, e, r.offset), r.length, data)
        /\ pool' = got.pool
        /\ written' = [written EXCEPT ![v] =
             [b \in DOMAIN @ |-> IF b \in r.offset .. r.offset + r.length - 1
                                   THEN data ELSE @[b]]]
        /\ UNCHANGED <<pool_state, devices, device_count, used_size, free_size,
                       volumes, removals>>
volume_write(v, r, data) ==
    LET x == ExtentIndex(r.offset)
        old == volumes[v].extent_map[x]
        got == IF old = 0 THEN pool_alloc_extent(pool)
                          ELSE [ok |-> TRUE, pool |-> pool, id |-> old]
        e == got.id
        ext == got.pool.extents[e]
        copies == <<e>> \o [k \in 1..ext.replica_count |-> ext.replica_extents[k]]
        put(content, c) == block_write(content, PhysDevice(got.pool, c),
                                       PhysOffset(got.pool, c, r.offset),
                                       r.length, data)
        done == InBounds(PhysDevice(got.pool, e), PhysOffset(got.pool, e, r.offset),
                         r.length)
    IN  /\ got.ok
        /\ disk' = FoldLeft(put, disk, copies)
        /\ pool' = got.pool
        /\ volumes' = IF old # 0 THEN volumes
                      ELSE [volumes EXCEPT ![v].extent_map[x] = e,
                                           ![v].allocated = @ + 1]
        /\ written' = IF ~done THEN written
                      ELSE [written EXCEPT ![v] =
                             [b \in DOMAIN @ |->
                                IF b \in r.offset .. r.offset + r.length - 1
                                  THEN data ELSE @[b]]]
        /\ UNCHANGED <<pool_state, devices, device_count, used_size, free_size,
                       removals>>

-----------------------------------------------------------------------------
(* Pool management. *)

EmptyPool == [extents |-> << >>, free_extents |-> 0, next_extent |-> 0]

Init ==
    /\ pool_state = "NONE"
    /\ devices = [s \in Slot |-> Nil]
    /\ device_count = 0
    /\ pool = EmptyPool
    /\ used_size = 0 /\ free_size = 0
    /\ volumes = [v \in Volume |-> Nil]
    /\ disk = [d \in Device |-> [b \in 0 .. DeviceBlocks(d) - 1 |-> Zero]]
    /\ removals = 0
    /\ written = [v \in Volume |-> << >>]

pool_create ==
    /\ pool_state = "NONE"
    /\ pool_state' = "OFFLINE"
    /\ UNCHANGED <<devices, device_count, pool, used_size, free_size, volumes,
                   disk, removals, written>>

\* Every volume is destroyed and the pool structure freed; the content of the
\* devices stays.
pool_destroy ==
    /\ pool_state # "NONE"
    /\ pool_state' = "NONE"
    /\ devices' = [s \in Slot |-> Nil]
    /\ device_count' = 0
    /\ pool' = EmptyPool
    /\ used_size' = 0 /\ free_size' = 0
    /\ volumes' = [v \in Volume |-> Nil]
    /\ written' = [v \in Volume |-> << >>]
    /\ UNCHANGED <<disk, removals>>

\* Callers add a device that is not in use by the pool.  When the extent array
\* cannot be reallocated the count is taken back.
pool_add_device(d) ==
    /\ pool_state # "NONE"
    /\ device_count < POOL_MAX_DEVICES
    /\ \A s \in 0 .. device_count - 1 : devices[s] # d
    /\ devices' = [devices EXCEPT ![device_count] = d]
    /\ \/ LET old == total_extents(pool)
              new == old + DeviceExtents[d]
              fresh(i) == [state |-> "FREE", device_id |-> device_count,
                           device_offset |-> i - old, replica_count |-> 0,
                           replica_extents |-> [r \in 1..3 |-> 0]]
              free == pool.free_extents + DeviceExtents[d]
          IN  /\ device_count' = device_count + 1
              /\ pool' = [pool EXCEPT
                            !.extents = [i \in 0 .. new - 1 |->
                                           IF i < old THEN @[i] ELSE fresh(i)],
                            !.free_extents = free]
              /\ free_size' = Wrap(free)
              /\ pool_state' = "ONLINE"
       \/ UNCHANGED <<device_count, pool, free_size, pool_state>>
    /\ UNCHANGED <<used_size, volumes, disk, removals, written>>

\* The later devices move down one slot; the extents keep their device_id,
\* and the extents of the removed device stay in the table.
pool_remove_device(d) ==
    /\ removals < MaxRemovals
    /\ \E s \in 0 .. device_count - 1 :
         /\ devices[s] = d
         /\ \A i \in DOMAIN pool.extents :
              ~(pool.extents[i].device_id = s /\ pool.extents[i].state = "ALLOCATED")
         /\ devices' = [k \in Slot |-> IF k \in s .. device_count - 2
                                         THEN devices[k + 1] ELSE devices[k]]
    /\ device_count' = device_count - 1
    /\ removals' = removals + 1
    /\ UNCHANGED <<pool_state, pool, used_size, free_size, volumes, disk, written>>

-----------------------------------------------------------------------------
(* Volume management. *)

NewVolume(map, replication, thin, snapshot) ==
    [extent_map |-> map, replication |-> replication, thin |-> thin,
     allocated |-> IF thin THEN 0 ELSE Len(map), snapshot |-> snapshot]
Unwritten(n) == [b \in 0 .. n * BLOCKS_PER_EXTENT - 1 |-> Nil]

volume_create_thin(v, n, replication) ==
    /\ volumes' = [volumes EXCEPT ![v] =
                     NewVolume([i \in 1..n |-> 0], replication, TRUE, FALSE)]
    /\ UNCHANGED <<pool, used_size, free_size>>

\* A pre-allocation that fails half-way leaves the allocator as its rollback
\* left it, and no volume.
volume_create_thick(v, n, replication) ==
    LET got == Preallocate(pool, n, replication)
    IN  /\ pool.free_extents >= n * (replication + 1)
        /\ pool' = got.pool
        /\ IF got.ok
             THEN /\ volumes' = [volumes EXCEPT ![v] =
                                   NewVolume(got.map, replication, FALSE, FALSE)]
                  /\ used_size' = Wrap(used_size + n)
                  /\ free_size' = Wrap(free_size - n)
             ELSE UNCHANGED <<volumes, used_size, free_size>>

volume_create(v, n, replication, thin) ==
    /\ pool_state = "ONLINE"
    /\ v \notin Live
    /\ IF thin THEN volume_create_thin(v, n, replication)
               ELSE volume_create_thick(v, n, replication)
    /\ written' = [written EXCEPT ![v] =
                     IF volumes'[v] = Nil THEN << >> ELSE Unwritten(n)]
    /\ UNCHANGED <<pool_state, devices, device_count, disk, removals>>

volume_destroy(v) ==
    /\ v \in Live
    /\ pool' = FoldLeft(Release, pool, volumes[v].extent_map)
    /\ used_size' = Wrap(used_size - volumes[v].allocated)
    /\ free_size' = Wrap(free_size + volumes[v].allocated)
    /\ volumes' = [volumes EXCEPT ![v] = Nil]
    /\ written' = [written EXCEPT ![v] = << >>]
    /\ UNCHANGED <<pool_state, devices, device_count, disk, removals>>

\* Growth only: the new part of the map is unallocated.
volume_resize(v, n) ==
    /\ v \in Live
    /\ n > Len(volumes[v].extent_map)
    /\ volumes' = [volumes EXCEPT ![v].extent_map =
                     [i \in 1..n |-> IF i <= Len(@) THEN @[i] ELSE 0]]
    /\ written' = [written EXCEPT ![v] =
                     [b \in DOMAIN Unwritten(n) |->
                        IF b \in DOMAIN @ THEN @[b] ELSE Nil]]
    /\ UNCHANGED <<pool_state, devices, device_count, pool, used_size, free_size,
                   disk, removals>>

\* A thin volume that is given the extent map of the original.
volume_snapshot(v, s) ==
    /\ v \in Live
    /\ s \notin Live
    /\ pool_state = "ONLINE"
    /\ Cardinality({w \in Live : volumes[w].snapshot}) < MaxSnapshots
    /\ volumes' = [volumes EXCEPT ![s] =
                     NewVolume(volumes[v].extent_map, volumes[v].replication,
                               TRUE, TRUE)]
    /\ written' = [written EXCEPT ![s] = written[v]]
    /\ UNCHANGED <<pool_state, devices, device_count, pool, used_size, free_size,
                   disk, removals>>

-----------------------------------------------------------------------------
Next ==
    \/ pool_create
    \/ pool_destroy
    \/ \E d \in Device : pool_add_device(d)
    \/ \E v \in Volume, n \in 1..MaxExtents, r \in Replications, thin \in ThinModes :
         volume_create(v, n, r, thin)
    \/ \E v \in Volume : volume_destroy(v)
    \/ \E v \in Volume, n \in 1..MaxExtents : volume_resize(v, n)
    \/ \E v \in Live, data \in Data : \E r \in Request(v) : volume_write(v, r, data)

Spec == Init /\ [][Next]_vars

\* All operations.  A snapshot shares extents with its original, and the
\* extents of a removed device stay in the table, so what is said of exclusive
\* extents and of reads is said of Spec.
FullNext ==
    \/ Next
    \/ \E d \in Device : pool_remove_device(d)
    \/ \E v, s \in Volume : volume_snapshot(v, s)
FullSpec == Init /\ [][FullNext]_vars

-----------------------------------------------------------------------------
(* Properties. *)

\* Every structure keeps its type: map entries and replica links name extents
\* of the table, and free_extents never exceeds it.
TypeOK ==
    /\ pool_state \in {"NONE", "OFFLINE", "ONLINE"}
    /\ devices \in [Slot -> Device \cup {Nil}]
    /\ device_count \in 0..POOL_MAX_DEVICES
    /\ DOMAIN pool.extents = 0 .. total_extents(pool) - 1
    /\ \A i \in DOMAIN pool.extents : pool.extents[i] \in Extent
    /\ pool.next_extent \in 0..total_extents(pool)
    /\ pool.free_extents \in 0..total_extents(pool)
    /\ used_size \in 0 .. SIZE_MODULUS - 1 /\ free_size \in 0 .. SIZE_MODULUS - 1
    /\ \A v \in Live :
         /\ volumes[v] \in VolumeRecord
         /\ \A i \in DOMAIN volumes[v].extent_map :
              volumes[v].extent_map[i] \in DOMAIN pool.extents \cup {0}
         /\ DOMAIN written[v] = 0 .. VolumeBlocks(v) - 1

\* free_extents, the guard of every allocation, counts exactly the extents
\* that are FREE in the table, through allocation, wrap-around, rollback,
\* volume_destroy and pool_add_device.
FreeCountExact ==
    pool.free_extents =
        Cardinality({i \in DOMAIN pool.extents : pool.extents[i].state = "FREE"})

\* No extent is handed out twice: every mapped extent is ALLOCATED, and two
\* map entries, of one volume or of two, never name the same extent.
MapEntries == {m \in Live \X (1..MaxExtents) : m[2] \in DOMAIN volumes[m[1]].extent_map}
Mapped(m) == volumes[m[1]].extent_map[m[2]]
ExtentsExclusive ==
    \A m, n \in MapEntries :
        Mapped(m) # 0 =>
            /\ pool.extents[Mapped(m)].state = "ALLOCATED"
            /\ Mapped(m) = Mapped(n) => m = n

\* Destroying volumes gives everything back: an ALLOCATED extent, other than
\* extent 0, which pool_free_extent refuses, belongs to a volume.
NothingLeaked ==
    \A e \in DOMAIN pool.extents \ {0} :
        pool.extents[e].state = "ALLOCATED" => \E m \in MapEntries : Mapped(m) = e

\* What makes the extent allocator right, taken together: the free count is
\* exact, no extent is mapped twice and none is lost (pool_alloc_extent,
\* pool_free_extent, volume_create, volume_destroy, volume_resize).
PoolInv == TypeOK /\ FreeCountExact /\ ExtentsExclusive /\ NothingLeaked

\* A read returns the data last written successfully to each block, whatever
\* other volumes were created, written, resized or destroyed in between.
ReadYourWrites ==
    \A v \in Live : \A r \in Request(v) : \A k \in 1..r.length :
        written[v][r.offset + k - 1] # Nil =>
            volume_read(v, r)[k] = written[v][r.offset + k - 1]

\* A step changes what is read from at most one of the volumes that outlive it.
Contents(v) == [b \in 0 .. VolumeBlocks(v) - 1 |->
                  volume_read(v, [offset |-> b, length |-> 1])]
VolumeIsolation ==
    [][\E v \in Volume : \A w \in Volume \ {v} :
         /\ volumes[w] # Nil
         /\ volumes'[w] # Nil
         => \A b \in DOMAIN Contents(w) : Contents(w)'[b] = Contents(w)[b]]_vars
=============================================================================
