------------------------------ MODULE VirtioBlk ------------------------------
(***************************************************************************)
(* The virtio block device (src/virtio/virtio_blk.c) on its legacy PCI     *)
(* registers and its virtqueue (src/virtio/virtio.c), with the RAM disk    *)
(* behind it.                                                              *)
(*                                                                         *)
(* The guest driver is not part of the repository.  It is modelled from    *)
(* what the device expects of it: a legacy driver that publishes chains in *)
(* the available ring, kicks, polls the ISR register and collects used     *)
(* chains, with interrupts suppressed while it collects.  It declines the  *)
(* EVENT_IDX feature, for which the device never writes avail_event.       *)
(*                                                                         *)
(* The device handles one register access at a time; guest memory may      *)
(* change between two iterations of its loop.  Memory is sequentially      *)
(* consistent.                                                             *)
(***************************************************************************)
EXTENDS Virtqueue

CONSTANTS
    Sectors,        \* capacity of the disk, in sectors
    SECTOR_WRAP,    \* sectors whose byte offsets 64 bits tell apart: 2^64 / 512
    Zero,           \* content of a zeroed sector
    Id,             \* the disk id
    Requests        \* requests the driver makes: [type, sector, data]

\* A read gives the device buffers that hold nothing.  A sector may have any
\* number, also one far behind the end of the disk whose offset wraps around;
\* only the last sector before the wrap is never asked for (its offset passes
\* the check although it lies outside the disk, in memory that is not
\* modelled).
ASSUME BlkConstants ==
    /\ Sectors \in Nat \ {0}
    /\ SECTOR_WRAP \in Nat /\ SECTOR_WRAP > Sectors
    /\ \A r \in Requests : /\ r.sector \in Nat
                           /\ r.data \in Seq(Range(r.data))
                           /\ Len(r.data) <= SECTOR_WRAP
                           /\ \A k \in DOMAIN r.data :
                                (r.sector + k - 1) % SECTOR_WRAP # SECTOR_WRAP - 1
                           /\ r.type = "IN" => \A k \in DOMAIN r.data : r.data[k] = Nil

VARIABLES
    vq,             \* enabled, last_avail_idx, last_used_idx
    isr_status,     \* bit 0
    phase,          \* idle, or where blk_queue_notify stands: loop, signal
    disk,
    mem,            \* guest memory: chains, by their heads, and the two rings
    drv,            \* the driver: last_used, pending, kick, mode
    shadow          \* the disk as the requests made so far should leave it

vars == <<vq, isr_status, phase, disk, mem, drv, shadow>>

Sector == 0 .. Sectors - 1
ResetQueue == [enabled |-> FALSE, last_avail_idx |-> 0, last_used_idx |-> 0]
NoEntry == [id |-> 0, len |-> 0]
BlankMemory ==
    [chain |-> [d \in DescIndex |-> << >>],
     avail_idx |-> 0, avail_ring |-> [s \in DescIndex |-> 0], no_interrupt |-> FALSE,
     used_idx |-> 0, used_ring |-> [s \in DescIndex |-> NoEntry]]
IdleDriver == [last_used |-> 0, pending |-> << >>, kick |-> FALSE, mode |-> "waiting"]

Init ==
    /\ vq = ResetQueue
    /\ isr_status = FALSE
    /\ phase = "idle"
    /\ disk = [s \in Sector |-> Zero]
    /\ mem = BlankMemory
    /\ drv = IdleDriver
    /\ shadow = [s \in Sector |-> Zero]

-----------------------------------------------------------------------------
(* Request processing: the descriptors behind the header are walked in     *)
(* order.  A descriptor is [len, write, buf]; a data buffer holds one      *)
(* sector, the header [type, sector].                                      *)

SECTOR_SIZE == 512
IsStatus(d) == d.write /\ d.len = 1

\* The positions of a chain at which data is moved.
Segments(chain) ==
    LET type == chain[1].buf.type
    IN  {k \in 2..Len(chain) :
            \/ type \in {"IN", "GET_ID"} /\ chain[k].write /\ ~IsStatus(chain[k])
            \/ type = "OUT" /\ ~chain[k].write /\ chain[k].len > 1}

\* The sector in turn at position k: one further for each segment before it.
\* Its byte offset, and the end of the access, are computed in 64 bits (both
\* are counted in sectors here); the backend refuses an end beyond its size.
sector_at_start(chain, k) == chain[1].buf.sector
sector_at(chain, k) ==
    chain[1].buf.sector + Cardinality({j \in Segments(chain) : j < k})
offset(s) == s % SECTOR_WRAP
InRange(s) == (offset(s) + 1) % SECTOR_WRAP <= Sectors

\* The status as it stands at position k.
status_ok(chain, k) == "OK"
status_at(chain, k) ==
    CASE chain[1].buf.type \in {"IN", "OUT"} ->
           IF \A j \in Segments(chain) : j < k => InRange(sector_at(chain, j))
             THEN "OK" ELSE "IOERR"
      [] chain[1].buf.type \in {"FLUSH", "GET_ID"} -> "OK"
      [] OTHER -> "UNSUPP"

\* What the buffer at position k holds after the walk, and sector s.
BufferAfter(chain, k) ==
    CASE IsStatus(chain[k]) -> status_at(chain, k)
      [] k \in Segments(chain) /\ chain[1].buf.type = "GET_ID" -> Id
      [] /\ k \in Segments(chain) /\ chain[1].buf.type = "IN"
         /\ InRange(sector_at(chain, k)) -> disk[offset(sector_at(chain, k))]
      [] OTHER -> chain[k].buf
SectorAfter(chain, s) ==
    LET hit == {k \in Segments(chain) : offset(sector_at(chain, k)) = s}
    IN  IF chain[1].buf.type = "OUT" /\ hit # {} THEN chain[Min(hit)].buf ELSE disk[s]

\* Every chain of the driver ends in a status byte, and storing it sets the
\* count of bytes written to 1, whatever was counted before.
process_request(chain) ==
    [chain |-> [k \in DOMAIN chain |-> [chain[k] EXCEPT !.buf = BufferAfter(chain, k)]],
     disk |-> [s \in Sector |-> SectorAfter(chain, s)],
     written |-> 1]

\* One iteration of the loop of blk_queue_notify.
NotifyLoop ==
    /\ phase = "loop"
    /\ virtq_has_work(vq, mem)
    /\ LET head == virtq_pop_head(vq, mem)
           end == process_request(mem.chain[head])
       IN  /\ vq' = [virtq_pop(vq) EXCEPT !.last_used_idx = next_idx(@)]
           /\ mem' = virtq_push([mem EXCEPT !.chain[head] = end.chain], head, end.written)
           /\ disk' = end.disk
    /\ UNCHANGED <<isr_status, phase, drv, shadow>>

NotifyDone ==
    /\ phase = "loop"
    /\ ~virtq_has_work(vq, mem)
    /\ phase' = "signal"
    /\ UNCHANGED <<vq, isr_status, disk, mem, drv, shadow>>

NotifySignal ==
    /\ phase = "signal"
    /\ phase' = "idle"
    /\ isr_status' = (isr_status \/ virtq_should_notify(vq, mem))
    /\ UNCHANGED <<vq, disk, mem, drv, shadow>>

blk_queue_notify == NotifyLoop \/ NotifyDone \/ NotifySignal

-----------------------------------------------------------------------------
(* Register accesses of the guest. *)

\* The driver writes 0 to the status register and forgets what was pending.
Reset ==
    /\ phase = "idle"
    /\ vq.enabled
    /\ vq' = ResetQueue
    /\ isr_status' = FALSE
    /\ drv' = IdleDriver
    /\ mem' = BlankMemory
    /\ shadow' = disk
    /\ UNCHANGED <<phase, disk>>

\* It gives the page of a zeroed queue to QUEUE_PFN.
virtq_set_addr ==
    /\ phase = "idle"
    /\ ~vq.enabled
    /\ vq' = [vq EXCEPT !.enabled = TRUE]
    /\ UNCHANGED <<isr_status, phase, disk, mem, drv, shadow>>

\* QUEUE_NOTIFY.
Kick ==
    /\ phase = "idle"
    /\ drv.kick
    /\ drv' = [drv EXCEPT !.kick = FALSE]
    /\ phase' = "loop"
    /\ UNCHANGED <<vq, isr_status, disk, mem, shadow>>

\* A read of the ISR register clears it.
ReadISR ==
    /\ phase = "idle"
    /\ drv.mode = "waiting"
    /\ isr_status
    /\ isr_status' = FALSE
    /\ drv' = [drv EXCEPT !.mode = "reaping"]
    /\ mem' = [mem EXCEPT !.no_interrupt = TRUE]
    /\ UNCHANGED <<vq, phase, disk, shadow>>

-----------------------------------------------------------------------------
(* The driver in guest memory. *)

InUse == FoldFunction(LAMBDA c, n : Len(c) + n, 0, mem.chain)
FreeHead == Min({d \in DescIndex : mem.chain[d] = << >>})

\* Header, one descriptor per sector or none, status.
Build(r) ==
    <<[len |-> 16, write |-> FALSE, buf |-> [type |-> r.type, sector |-> r.sector]]>>
    \o [k \in DOMAIN r.data |-> [len |-> SECTOR_SIZE, write |-> r.type # "OUT",
                                 buf |-> r.data[k]]]
    \o <<[len |-> 1, write |-> TRUE, buf |-> Nil]>>

\* What the driver may expect, written without a walk over segments: its k-th
\* buffer belongs to the sector with that number, modulo SECTOR_WRAP.
Place(r, k) == (r.sector + k - 1) % SECTOR_WRAP
Buffers(r) == 1 .. Len(r.data)
ExpectedStatus(r) ==
    IF r.type \notin {"IN", "OUT", "FLUSH", "GET_ID"} THEN "UNSUPP"
    ELSE IF r.type \in {"IN", "OUT"} /\ \E k \in Buffers(r) : Place(r, k) \notin Sector
      THEN "IOERR"
    ELSE "OK"
ExpectedDisk(r) ==
    [s \in Sector |-> IF r.type = "OUT" /\ \E k \in Buffers(r) : Place(r, k) = s
                        THEN r.data[CHOOSE k \in Buffers(r) : Place(r, k) = s]
                        ELSE shadow[s]]
ExpectedData(r) ==
    CASE r.type = "IN" -> [k \in Buffers(r) |->
            IF Place(r, k) \in Sector THEN shadow[Place(r, k)] ELSE Nil]
      [] r.type = "GET_ID" -> [k \in Buffers(r) |-> Id]
      [] OTHER -> r.data

Submit(r) ==
    /\ vq.enabled
    /\ InUse + Len(Build(r)) <= Num
    /\ mem' = Published(mem, FreeHead, Build(r))
    /\ drv' = [drv EXCEPT
                !.pending = Append(@, [head |-> FreeHead, status |-> ExpectedStatus(r),
                                       data |-> ExpectedData(r)]),
                !.kick = TRUE]
    /\ shadow' = ExpectedDisk(r)
    /\ UNCHANGED <<vq, isr_status, phase, disk>>

\* The chain the used ring names is taken back; the driver clears the ring
\* slots it has done with.
Reap ==
    /\ drv.mode = "reaping"
    /\ mem.used_idx # drv.last_used
    /\ LET slot == ring_slot(drv.last_used)
       IN  mem' = [mem EXCEPT !.chain[mem.used_ring[slot].id] = << >>,
                              !.used_ring[slot] = NoEntry,
                              !.avail_ring[slot] = 0]
    /\ drv' = [drv EXCEPT !.last_used = next_idx(@), !.pending = Tail(@)]
    /\ UNCHANGED <<vq, isr_status, phase, disk, shadow>>

\* Nothing left: interrupts are allowed again, and the ring is looked at once
\* more.
EnableInterrupts ==
    /\ drv.mode = "reaping"
    /\ mem.used_idx = drv.last_used
    /\ mem' = [mem EXCEPT !.no_interrupt = FALSE]
    /\ drv' = [drv EXCEPT !.mode = "recheck"]
    /\ UNCHANGED <<vq, isr_status, phase, disk, shadow>>
Recheck ==
    /\ drv.mode = "recheck"
    /\ LET more == mem.used_idx # drv.last_used
       IN  /\ drv' = [drv EXCEPT !.mode = IF more THEN "reaping" ELSE "waiting"]
           /\ mem' = [mem EXCEPT !.no_interrupt = more]
    /\ UNCHANGED <<vq, isr_status, phase, disk, shadow>>

Collect == ReadISR \/ Reap \/ EnableInterrupts \/ Recheck

-----------------------------------------------------------------------------
Next ==
    \/ blk_queue_notify
    \/ Reset
    \/ virtq_set_addr
    \/ Kick
    \/ Collect
    \/ \E r \in Requests : Submit(r)

\* The device finishes the register access it is handling, and the guest's
\* CPU goes on running its driver: a kick it owes and the collection of used
\* chains are carried out.
Fairness == WF_vars(blk_queue_notify) /\ WF_vars(Kick) /\ WF_vars(Collect)

Spec == Init /\ [][Next]_vars /\ Fairness

-----------------------------------------------------------------------------
(* Properties. *)

\* Every index stays within its width and every structure keeps its type.
TypeOK ==
    /\ vq \in [enabled: BOOLEAN, last_avail_idx: Index, last_used_idx: Index]
    /\ isr_status \in BOOLEAN
    /\ phase \in {"idle", "loop", "signal"}
    /\ DOMAIN disk = Sector /\ DOMAIN shadow = Sector
    /\ mem.avail_idx \in Index /\ mem.used_idx \in Index
    /\ mem.avail_ring \in [DescIndex -> DescIndex]
    /\ mem.used_ring \in [DescIndex -> [id: DescIndex, len: Nat]]
    /\ InUse <= Num
    /\ drv.last_used \in Index
    /\ drv.mode \in {"waiting", "reaping", "recheck"}

\* Queue and rings keep their types; each published chain is completed at most
\* once and in the order in which it
\* was published, through wrap-arounds of the indexes, requests that arrive
\* while the loop runs, and resets in between (virtq_pop, virtq_push and the
\* reset of virtio_pci_write).
Completed == Distance(mem.used_idx, drv.last_used)
CompletesInOrder ==
    /\ TypeOK
    /\ Completed <= Len(drv.pending)
    /\ \A k \in 1..Completed :
         mem.used_ring[ring_slot(drv.last_used + k - 1)].id = drv.pending[k].head
    /\ vq.enabled => Distance(vq.last_avail_idx, drv.last_used) = Completed

\* A completed request carries the status and, if it reads, the data that all
\* the requests published before it call for, whatever arrived since
\* (process_request: sectors beyond the end, sector numbers whose offset wraps
\* around and which name the sector they wrap to, several segments, the order
\* of data and status).
CompletionCorrect ==
    \A k \in 1..Completed :
        LET p == drv.pending[k]
            chain == mem.chain[p.head]
        IN  /\ Last(chain).buf = p.status
            /\ [i \in 1 .. Len(chain) - 2 |-> chain[i + 1].buf] = p.data

\* A published request is collected by the driver sooner or later, unless the
\* device is reset: either nothing is pending again and again, or chains go on
\* being collected, oldest first.  No kick and no interrupt is lost between the
\* end of the loop, the test of the interrupt flag and the clearing read of
\* the ISR (blk_queue_notify, virtq_should_notify, virtio_pci_read).
EveryRequestCompletes ==
    []<>(drv.pending = << >>) \/ []<><<Reap \/ Reset>>_vars
=============================================================================
