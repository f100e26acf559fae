# TLA+ verification of PureVisor

This directory holds TLA+ modules that model the stateful parts of PureVisor,
the TLC configurations that check them on small instances, and TLAPS proofs of
the most important results for every instance. Paths such as `distributed.c:226`
are relative to the repository; modules and runs are listed in `PROJECT.json`,
with the source lines that each definition stands for.

    tlc -workers 2 -config MCRaftLog.cfg MCRaft     # one run
    tlapm RaftProofs.tla                            # the proofs of one module

## 1. Inventory

PureVisor is a type-1 hypervisor kernel in C with its own memory management,
virtual devices, a cluster layer and a storage layer. Nothing is written to
permanent storage and almost nothing takes a lock. The hard behaviours lie in
message order (RAFT), in long sequences of calls over shared tables
(allocators, page tables, pool, VM manager), in the exchange with a guest that
runs meanwhile (virtio, PCI, VM exits), and in processors that start late or are
interrupted inside a lock (SMP).

| component | state | operations | interacts with | what is hard |
|---|---|---|---|---|
| RAFT (`storage/distributed.c`) | `raft_context_t`: role, term, vote, log, commit and match indexes | `raft_tick`, four message handlers, `raft_submit`, `raft_add_node`, `raft_remove_node` | peers through `send_message`; volumes through `apply_storage_entry` | any order of messages, loss, repetition, reboot |
| Distributed storage front end | the volume and its RAFT context | `dist_storage_write`, `dist_storage_read`, `dist_storage_join` | RAFT, pool | an accepted write must be applied |
| Pool and volumes (`storage/pool.c`) | extent table, free count, next extent, devices, volumes and their extent maps | create, destroy, add/remove device, volume create, destroy, resize, snapshot, read and write | block layer | reuse of extents, thin allocation on write, shared extents, removal of devices |
| Block layer, RAM disk (`storage/block.c`, `memblk.c`) | device list, contents | read, write, flush, register | pool | bounds |
| Cluster membership (`cluster/node.c`) | list of nodes, their states, counters, leader, quorum | create, add, remove, elect, tick | VM scheduler, API | several failures in one tick, leader departure |
| VM manager (`cluster/vm.c`) | list of VMs, states, hosts, counters | create, start, pause, resume, stop, restart, migrate, destroy | scheduler, node counters | counters charged to different nodes |
| VM scheduler (`cluster/scheduler.c`) | none of its own | schedule, rebalance, evacuate | VM manager, nodes | unsigned arithmetic, oscillation |
| Physical memory (`mm/pmm.c`) | page array with flags and orders, free lists per zone and order, counters | init, alloc, free | every allocation of the kernel | splits and merges with stale flags |
| Kernel heap and slab (`mm/heap.c`) | block list, slab caches | kmalloc, kfree, krealloc | pmm | split, merge, expansion |
| Virtqueue and PCI transport (`virtio/virtio.c`) | `virtqueue_t`, status, ISR, features | register reads and writes, pop, push, notify | guest memory, devices | guest runs concurrently, index wrap-around |
| Virtio block (`virtio_blk.c`) | backend | request processing | virtqueue | segments that fail, lost notifications |
| Virtio net, console (`virtio_net.c`, `virtio_console.c`) | backlog of frames, ring buffer of input, receive and transmit queues | transmit, receive, input, reset | virtqueue | data and buffers that wait for each other, one ISR bit for two queues |
| EPT (`vmm/ept.c`) | a guest's page tables | create, destroy, map, unmap, range, permissions | pmm, VM exits | mixed page sizes, tables that run out half-way |
| Kernel paging (`mm/paging.c`, `boot/boot.S`) | contexts, page tables, CR3 | create, destroy, switch, map, unmap | pmm, the TLB | tables shared by contexts, stale translations |
| SMP (`kernel/smp.c`, `smp.h`) | per-CPU state, counters, locks | start of application processors, spin lock, interrupt-safe lock | APIC, handlers | time-out against a late start, handlers that take a lock |
| VMX and vCPUs (`vmm/vmx.c`, `vcpu.c`) | feature control, capabilities, VMX operation, vCPU pages, VMCS | init, enable, disable, create, destroy, set-up, run | pmm, the processor | creation that fails half-way, processors that differ |
| VM exits (`vmm/vmexit.c`) | guest registers, VMCS fields | one handler per reason | guest | shadows of control registers, RIP |
| VM entry and exit code (`vmm/vmx_asm.S`) | registers in `vcpu_t` | launch, resume, exit | `vcpu_run`, exit handlers | order of the steps, layout of `vcpu_t` |
| PCI bus (`pci/pci.c`) | list of devices, configuration space, BARs | register, set up BAR, configuration writes | guest, virtio | sizing and placing BARs |
| Management API (`mgmt/api.c`) | request and response | parse, route, handlers | cluster, VM manager | leftovers of earlier requests |
| APIC, IDT, console, string library, tests | hardware registers, text | | | not state machines of the program's own |

What makes each part correct:

* RAFT: one leader per term; terms never go back and entries are never dropped or
  rewritten; a stale leader is deposed; a submitted entry reaches other nodes
  (it does not, run `raft_replicate`).
* Pool: a read returns the last write; volumes do not see each other; extents
  have one owner, none is lost, and the free count is exact.
* Cluster: the online count is exact; a leader among the members is alive.
* VM manager and scheduler: counters are exact in total; rebalancing does not
  oscillate.
* Physical memory: free and held blocks partition memory, aligned and counted;
  what is released is merged.
* Virtio block: every request completes once, in order, with the right status
  and data, and the driver learns of it.
* Virtio net and console: what the host sends arrives, in order and complete;
  nothing waits that could be delivered; no interrupt is lost.
* EPT: the tables are a map from guest pages to frames, and a tree that nobody
  else uses. Kernel paging: every table has one owner, and the TLB holds nothing
  that is gone.
* SMP: no more CPUs are counted as online than are; one CPU in a lock, none waits
  for itself, and each gets its interrupt flag back.
* VMX: every page has one owner or is known to be lost; the processor accepts what
  it is given. VM exits: the guest finds what it last wrote, unless a handler
  dropped the write.
* PCI: a BAR left to the bus is where it was last placed. API: a request does what
  its path says, and a list shows the list it was asked for.

`PROJECT.json` lists under `hazards` where each of these could go wrong.

## 2. Modules

| module | models | composed with |
|---|---|---|
| `Raft` | all `raft_context`s of a cluster, the transport, the distributed write | |
| `StoragePool` | one pool, its devices, its volumes, their contents | |
| `Cluster` | one node's view of the cluster | |
| `VmScheduler` | the VM manager and the scheduler that moves its VMs | |
| `Pmm` | the buddy allocator | |
| `Heap` | the kernel heap over memory from the PMM | |
| `Virtqueue` | operators on one split virtqueue in guest memory | used by `VirtioBlk`, `VirtioStream` |
| `VirtioBlk` | block device, its registers and queue, and the guest driver | extends `Virtqueue` |
| `VirtioStream` | network and console device, and the guest driver | extends `Virtqueue` |
| `PageTables` | operators on four-level tables: walk, store, translate | used by `Ept`, `Paging` |
| `GuestMap` | abstract: what each call of `ept.h` promises, with its arguments and its answer | implemented by `Ept` |
| `Ept` | one EPT context and the pages its tables come from | extends `PageTables`, instantiates `GuestMap` |
| `Paging` | kernel contexts, their tables, CR3 and the TLB | extends `PageTables` |
| `Smp` | start of the processors, the interrupt-safe lock | |
| `Vmx` | VT-x on the boot CPU, pages and controls of vCPUs | |
| `VmExit` | the exit handlers and a guest | |
| `VmEntry` | `vcpu_run`, the assembly and the dispatch of exits | |
| `Pci` | the bus, configuration space and BARs | |
| `Api` | the API | extends `VmScheduler`, whose actions its requests take |
| `RaftProofs`, `PoolProofs` | theorems about `Raft` and about `StoragePool` | extend it and `TLAPS` |
| `HostProofs` | theorems about `Vmx`, `Ept`, `Pci`, `VmExit`, `Smp`, `VmScheduler`, `Api` and `Cluster` | extends them |
| `MemoryProofs` | theorems about `Pmm` and `Heap` | extends the two |
| `BlkProofs`, `StreamProofs` | theorems about `VirtioBlk` and about `VirtioStream` | extend it and `RingLemmas` |
| `ListLemmas` | what folds over lists and sets compute | instantiated once for each loop |
| `RingLemmas` | what the operations on a virtqueue preserve | extends `Virtqueue` |
| `MCRaft`, `MCStoragePool`, `MCVirtioBlk` | instances for TLC | |
| `MCManagement`, `MCMemory`, `MCMachine` | instances of several modules for one run | |

The last three put parts of the system side by side. A variable `part`, chosen in
the initial state, says which of them runs; the others stand still. A behaviour of
the sum is thus a behaviour of one part, and the invariants of the other parts hold
of their initial states. The parts share no state in the model, so nothing is lost
by not interleaving them; the one exception is `MCManagement`, where the API acts on
the variables of the VM manager and is itself the part that interleaves them. The
definitions that the proofs and properties use are those of the parts themselves,
taken by `EXTENDS` or `INSTANCE`.

### Raft

Each field of `raft_context_t` is a function from nodes. `raft_tick` splits into
`HeartbeatTick` (a leader's interval has elapsed), `ElectionTick` (the time-out
of another node has elapsed) and `IdleTick`. The interval and the time-out may
be found elapsed on any tick: handlers set `last_heartbeat` from `rdtsc()` while
`raft_tick` compares milliseconds, so no relation with time is left. Every
message handler is one action that receives one message and sends its reply.
Slot 0 of the log array, a zeroed sentinel, is left out of the sequence, and the
tests of the code on it are kept by index. `elections`, `grants` and `counted`
are history variables, read by properties and proofs only.

The transport is external: a set of messages in flight, delivered in any order
or lost. Vote messages are delivered at most once and append messages any number
of times. A transport that repeated vote responses would break election safety,
since `votes_received` counts responses rather than voters
(`distributed.c:181`); that is an assumption here, not a result.

`Next` has no reboot. `CrashSpec` adds `raft_init`, by which a node loses its
whole context. `FairSpec` is for liveness: that a stale leader steps down, and
that a submitted entry is replicated (`SubmittedIsReplicated`, what the header says
of `raft_submit`), which the code does not do.

### StoragePool

`pool` holds the extent table, `free_extents` and `next_extent`; `volumes` the
extent maps; `disk` what the devices hold, block by block. An extent map entry
of 0 means "not allocated", as in the code, and extent 0 exists too. A freed
extent keeps its replica links. `written` is a history variable: what was last
written to each block. `used_size` and `free_size` wrap at `SIZE_MODULUS`.
`Next` leaves out `pool_remove_device` and `volume_snapshot`; `FullNext` has
them. They break several of the properties, see section 6.

### Cluster

The list of nodes with the newest first, their states, and the counters. Which
nodes a tick finds silent is an input: nothing in the repository refreshes
`last_heartbeat` of a remote node. `cluster_tick` walks the list and fails,
counts, checks quorum and elects for each silent node in turn, as one action
because the cluster structure has a single caller.

### VmScheduler

States and hosts of VMs, `running_count` and the nodes' `vm_count`, both
unsigned and wrapping at `U32`; `available_vcpus` and the scores wrap at `U64`.
`node_set_state` stands for the cluster layer. Affinity rules and tags are not
modelled. `MaxDrift` bounds how far the local counter may be driven below zero.

### Pmm

Flags and order of every page, the lists of each zone and order, and the
counters. Flags and orders of pages inside a block stay as they were, as in the
code. `held` is the set of blocks that callers hold; callers give back only
those, with the order they asked for.

### Heap

Headers by address, the doubly linked free list, and what callers hold. Addresses and
sizes count units of 16 bytes, to which `kmalloc` rounds; the alignment itself is left
out. Link updates are modelled pointer by pointer; the loop that looks for a place in
the list is the first position at which its condition fails. Headers inside memory
that is handed out are erased, since the caller may overwrite them. The PMM is an
input: an expansion gets one of the addresses in `Expansions`, and when there is none
`kmalloc` fails and nothing changes. Requests may have any size. An expansion is four
pages all the same (`heap.c:213`), so a larger request is given a block that reaches
beyond the memory the heap owns; the history variable `overrun` records that, the
model stops there, and the properties speak of the heap until then (section 6).
`HeapInit` is the state that a successful `heap_init` leaves. `heap_list_add`,
`heap_list_remove` and `heap_split_block` stand for `free_list_add`,
`free_list_remove` and `split_block` of `heap.c`; `pmm.c` has functions of the same
names. `krealloc` has two steps, because it gives up the lock between its allocation
and its release.

### Virtqueue and VirtioBlk

The rings and descriptor chains lie in `mem`, which both sides change. The device
takes one step per chain (`NotifyLoop`), one at the end of the loop (`NotifyDone`) and
one for the interrupt (`NotifySignal`), because the guest may run on another CPU in
between. A chain linked by `F_NEXT` is a sequence of descriptors; `process_request`
gives, for each position, what the walk of the code leaves in the buffer. Indexes wrap
at `IDX_MODULUS`. The byte offset of a sector wraps at `SECTOR_WRAP` sectors (2^55 in
the code, where `sector * 512` and `offset + len` have 64 bits), so that the range
check and the place on the disk are those of the wrapped offset. Only the last sector
before the wrap is left out of the requests: it passes the check and lies outside the
disk, in memory the model does not have. The guest driver is external: a legacy driver
that publishes chains, kicks, reads the ISR, collects with interrupts off, switches
them on and looks once more. It is the usual one, and the liveness result depends on
it. Memory is sequentially consistent.

### VirtioStream

One module for both devices because they share everything but the place where data
waits: `packets`, the backlog of the network backend, or `input`, the console's
ring buffer. A step of the device fills or drains one chain (`RxLoop`, `TxLoop`);
between steps the guest's other CPU posts buffers or sends. The register accesses
are the legacy ones of `virtio.c`. `owed` is a history variable: what the guest
has still to collect. The driver is external: it posts writable buffers with room
for the header, kicks what it added to, and collects from both queues on an
interrupt. The console's output goes to a handler that keeps nothing.

### PageTables, Ept, GuestMap

An address is a page number, and its index at a level one digit to the base `ENTRIES`.
A walk is a record of where it stands and of the memory as it has left it: a walk that
creates tables and then finds no page keeps those it has built, as in the code. An
entry is present when its read bit is set, which is what `ept_walk` and
`ept_get_host_phys` test. Callers do what the tables can express: they map no page
inside a larger one that is mapped and change permissions of mapped pages only. What
the code does otherwise is in section 6.

`GuestMap` states what the header promises of each call: mapping maps the page around
the address given, of the size given, to the frame given, or fails and changes
nothing; mapping a range maps that run to those frames or, when memory runs out, a
beginning of it; unmapping and protecting change the one page, of whatever size, that
the address lies in; asking returns the frame, or 0 when the page cannot be read.
`ept_call` is a history variable: the operation just made, its arguments and what it
returned. `Ept!view` is what a walk finds for each page; the two are the refinement
mapping, and `ImplementsGuestMap` is `GuestMap`'s specification under it. `EptPages`
are the pages that are left for tables when the first context is made; which of them
an allocation gets is not said. `ept_map_range` is a fold over its large pages and
then one over its small pages, each turn of which (`range_2m`, `range_4k`) does
nothing after a failure.

### Paging

Contexts are top tables. The boot code leaves one whose two halves share their
lower tables; the model uses that context through the kernel's half only, which is
how the kernel uses it. `tlb` holds a few translations that the processor may have
loaded at any time. A large page may be laid over whatever is mapped; the code flushes
nothing there (`paging.c:213-259`), and the field `laid` of a translation records that
it may be stale for this reason. `orphans` is a history variable: tables the code
loses, those a large page was laid over and those a destroyed context alone had in
the kernel's half, which `paging_destroy_context` does not visit (`paging.c:164`).
Callers align large pages, map no small page inside a large one, and do not destroy
the loaded context.

### Smp

`smp_start_aps` and `ap_entry` run step by step on different CPUs; a CPU may come
up at any time after its STARTUP IPI or never. `irqlock_acquire` and
`irqlock_release` run step by step, in ordinary code and in a handler (`level`).
`lock.flags` is the field in the lock, `flags` the local variables. `wanted` is a
history variable: the interrupt flag as ordinary code last set it.

### Vmx, VmExit, VmEntry

`Vmx` has the life of vCPUs up to the first entry: no code writes the host's RIP
and RSP into a VMCS, so an entry that succeeds does not come back. A control word
is the set of its bits. The processor's capabilities are an input, from processors
without secondary controls to ones with unrestricted guests. Others take and
return pages between calls and, on other CPUs, between the allocations of one call:
any of the five may be refused while later ones succeed. `leaked` is a history
variable: the second I/O bitmap of creations that got no first one
(`vcpu.c:78-82`, 105).

`VmExit` takes the exits as the handlers expect them. A register has two halves of
`HALF` values; the low half of CR0 and CR4 stands for the bits owned by the host.
A MOV that changes no such bit does not exit, so that registers and shadows change
at different times. `written` is a history variable: the last write to each register
that the handlers carry out. `lost` is another: the registers with a later write that
they drop, as they do with LMSW, CLTS and MSRs other than EFER, FS_BASE and GS_BASE
(`vmexit.c:289-291`, 331-365).

`VmEntry` assumes what a comment of `setup_host_state` asks for (`vcpu.c:189`, host
RIP and RSP set by the caller) and shows what the entry code does then.

### Pci and Api

`Pci` has devices left to the bus (`config_write_default`) and virtio devices, whose
callback is a plain copy (`virtio.c:161-168`); a guest writes whole registers through
the two ports. A register has 32 bits and `bars[].base` 64, so that registering cuts
the base, and the upper half of a 64-bit BAR is a register of its own whose writes the
bus ignores. `placed` is a history variable: where the device put a BAR, and what the
guest has since written to its two halves. `Api` parses a path given as its segments
and routes it. The segment of an id is a sequence of characters, of which the number
is made as the two handlers do it: in 32 bits, up to the first character that is no
digit for VMs, from every character for nodes. A list ends early when the body has no
more than 256 bytes left (`api.c:314`, 369); `ListRoom` is the number of entries that
fit however long they are. Every call gets a cleared request, as in `main.c:582`; the
mutant of its property reuses one. Between requests other callers create, destroy and
migrate VMs.

## 3. Runs

Each passing run also has mutants: plausible slips in one definition, one for
each property, under which TLC finds that property violated.

| run | instance | shows |
|---|---|---|
| `raft_log` | 3 nodes, 3 terms, 1 payload, log of 3 slots, 2 messages in flight, 1 removal of a peer | `TypeOK`, `ElectionSafety`, `NoRollback`, with logs that differ and logs that are full |
| `raft_live` | 3 nodes, 2 terms | `ElectionInv`, the inductive invariant of the proof; `SecondVoteIsHarmless`: a candidate that steps down in its own term forgets its vote and may vote again, and the second vote never elects; `StaleLeaderStepsDown` under `FairSpec` |
| `raft_restart` | 3 nodes, 1 term | finding: a reboot forgets the vote, two leaders in a term |
| `raft_replicate` | 3 nodes, 1 term, 1 payload, under `FairSpec` | finding: a submitted entry reaches no other node although the leader ticks for ever and all its messages arrive |
| `pool_data` | 2 thick volumes, 2 devices with 1 and 2 extents of 2 blocks, 2 values | `PoolInv` (types, exact free count, extents with one owner, nothing leaked), `ReadYourWrites`, `VolumeIsolation` |
| `pool_thin` | the same pool with thin volumes and all operations | finding: data written to extent 0 is read back as zeros |
| `management` | 3 VMs on 3 nodes; the API over the same VMs on 2 of the nodes, with ids that are empty, no number, cut by a letter or beyond 32 bits, and bodies with room for one entry at least; 5 cluster nodes for 4 places | `TypeOK`, `CountsBalance` and `RebalanceSettles` of the VM manager and scheduler, `AnsweredAsAsked` of the API, `OnlineCountExact` and `LeaderAlive` of the cluster |
| `pmm_boot` | the same pages | finding: after `pmm_init` no allocation above order 0 can succeed |
| `virtio_blk` | 2 sectors, offsets that wrap at 8, 6 descriptors, indexes modulo 6, 6 kinds of request | `CompletesInOrder` (with the types), `CompletionCorrect`, `EveryRequestCompletes` |
| `memory` | 17 pages in three zones, orders 0..3, the first seven reserved; a heap of 8 units with expansions of 6 above and below, requests of 1, 2 and 6 units; kernel tables of four entries, 7 pages for tables, 3 page sizes, one TLB entry | `BuddyInv` (partition, alignment, heads, counters), `NoFreeBuddies`, `HeapInv` (tiling, links, usage), `RoomAsAsked`, `NoFreeNeighbours`, `TablesAccounted`, `TlbCoherent` |
| `machine` | queues of 2 descriptors with indexes modulo 4, an input buffer of 2; a PCI device left to the bus and a virtio device; 3 CPUs; 10 pages for 2 vCPUs on 3 kinds of processor; registers of 16 values; extended page tables of two entries, 4 guest pages, 5 pages for tables, runs of 2 and 3 pages | `FramesInOrder`, `InputInOrder`, `HostDataDoesNotWait`, `InterruptNotLost`, `BarFollowsGuest`, `OnlineIsBacked`, `LockSafe`, `InterruptsRestored`, `ControlsAccepted`, `VcpuPagesAccounted`, `GuestSeesItsProgram`, `TablesSound`, `ImplementsGuestMap` (refinement) |
| `vm_entry` | 2 exit reasons | finding: the exit handler runs before the exit reason is read, and `vcpu_run` returns -1 |

Why these bounds are enough for the interesting cases:

* RAFT: three nodes is the least number with a majority that is not everyone; three
  terms let two leaders write different entries and a third term judge them. A log
  of three slots fills up. `MaxInFlight` bounds the messages in flight once a tick has
  sent its own. In `raft_log` a removed peer leaves room beside the messages
  of one tick, so that a late message of an old term meets a new one. In `raft_live`
  (two terms, no removals) a tick sends only into an empty network; messages of two
  terms are there together only when a message is answered with a newer term, which
  is the case its liveness property is about.
* Pool: volumes of up to two extents on devices of one and two make allocation
  wrap around, fail, and cross devices; two blocks to an extent separate offset
  from extent number. Requests have one block: a longer one is copied block by
  block from the same extent. The first device has one extent, so extent 0 is in
  use by a thick volume in most states.
* Cluster: the local node has neither the lowest nor the highest id, and one
  node more than fits is turned away.
* VMs: three VMs on three nodes are enough to be unbalanced by two.
* Pmm: the zones meet inside the range in which blocks merge, and reserved
  pages end in the middle of a block.
* Heap: the sizes leave remainders of every kind (none, too small for a block,
  exactly a block, more), and memory that touches on both sides lets blocks merge
  across regions. The largest request takes all of the first region and does not fit in
  an expansion, so that it ends the model in an overrun when no free block can serve it.
* Page tables: with two entries to a table every index, level and page size occurs
  within 16 addresses; a run of three pages mixes sizes; five pages for tables are
  fewer than a full tree needs, so that walks fail at every level. The kernel's tables
  have four entries, so that its half of a top table has a slot that boot fills and one
  that it does not, where a context builds tables of its own. Guest pages are mapped
  readable and made unreadable afterwards.
* SMP: with three CPUs one can be late while another is started, and two contend
  for the lock while a handler of either wants it. The lock is used once every
  processor was tried; the two share nothing but which CPUs run, and the theorems are
  without this bound.
* VMX: ten pages are exactly two vCPUs, and each allocation may be refused. Others take
  two pages at a time (`MaxTaken`) and one page may leak (`MaxLeaked`); a second would
  leak in the same way.
* PCI: the 64-bit BAR is placed above what a register holds, and all ones and another
  value are written to both of its halves.
* API: of the ids, one is a prefix of another that a letter cuts short, and one wraps
  around to the id of a VM.
* Streams: a queue of two descriptors wraps at once; a frame of two symbols is cut
  by the smaller buffer and not by the larger; an input buffer of two is full after
  one write and read one symbol at a time.
* Virtio block: a queue of six descriptors holds up to three requests and wraps within
  a few; one request has a sector whose offset wraps around to the first sector.

Views and symmetry: nodes of `Raft` and volumes are interchangeable and the
properties do not distinguish them. The views leave out of the fingerprint what no
guard reads: `NoHistory` the histories of votes, `NoSizes` the two sizes of the pool
(but for their types), `MCMemory!Live`, `MCMachine!Running` and `MCManagement!Distinct`
the parts that stand still. Where a part of the state is written by a step and read by
no later one (the API's last request and response, the guest's general registers), the
view keeps in its place whether the property about it holds, so that no violation is
passed over. In part "vms" of `MCManagement` a VM is known by its place in the list. In
part "streams" of `MCMachine` the selected queue counts while a queue is not set up.

## 4. Fairness

* `Raft!FairSpec`: weak fairness of delivery for each channel, and strong
  fairness of a leader's heartbeat tick. `raft_tick` is made to be called
  periodically, and a heartbeat is due after each interval; strong fairness is
  needed because the room in the model's network comes and goes. Vote messages
  may be lost, append messages are not: the heartbeats have to bring the news.
  No fairness is assumed of elections.
* `VirtioBlk!Spec`: weak fairness of the device's loop, which runs to its end in
  one VM exit, of a kick the driver owes, and of the driver's collection of used
  chains. Neither submission nor reset is fair.

All other runs check safety only.

## 5. Proofs

What TLC shows for the instances above, these theorems show for every value of
the constants that satisfies the named assumptions.

| module | theorem | states |
|---|---|---|
| `RaftProofs` | `TypeCorrect` | `TypeOK` |
| | `ElectionInvariant`, `ElectionSafe` | `ElectionInv`, `ElectionSafety` |
| | `VoteOnceBeforeLeader` | `SecondVoteIsHarmless` |
| | `NeverBack` | `NoRollback` |
| | `ReplicationInvariant` | the invariant `NothingReplicated` |
| `PoolProofs` | `PoolInvariant` | the invariant `PoolSound` |
| | `ExtentsAreAccounted` | `PoolInv` |
| | `WritesAreRead`, `VolumesAreIsolated` | `ReadYourWrites`, `VolumeIsolation` |
| `HostProofs` | `ClusterInvariant` | the invariant `ClusterInv` |
| | `CountIsExact`, `LeaderIsAlive` | `OnlineCountExact`, `LeaderAlive` |
| | `SchedulerInvariant`, `TypeCorrect` | the invariant `SchedulerInv`, and `TypeOK` |
| | `CountsAreBalanced` | `CountsBalance` |
| | `RebalanceIsSettled` | `RebalanceSettles` |
| | `RequestsAreAnswered` | `AnsweredAsAsked` |
| | `EptInvariant` | the invariant `EptIInv` |
| | `TablesAreSound` | `TablesSound` |
| | `GuestMapIsImplemented` | `ImplementsGuestMap` |
| | `VmxInvariant` | the invariant `VmxInv` |
| | `ProcessorAccepts`, `PagesAreAccounted` | `ControlsAccepted`, `VcpuPagesAccounted` |
| | `BarsFollow` | `BarFollowsGuest` |
| | `GuestIsUndisturbed` | `GuestSeesItsProgram` |
| | `SmpInvariant` | the invariants `LockInv` and `BootInv` |
| | `LockIsSafe`, `InterruptsAreRestored` | `LockSafe`, `InterruptsRestored` |
| | `CountIsBacked` | `OnlineIsBacked` |
| `MemoryProofs` | `PmmInvariant` | the invariant `PmmInv` |
| | `MemoryIsPartitioned`, `BuddiesAreMerged` | `BuddyInv`, `NoFreeBuddies` |
| | `HeapInvariant` | the invariant `HeapIInv` |
| | `HeapIsTiled`, `RoomIsAsAsked` | `HeapInv`, `RoomAsAsked` |
| | `FreeBlocksAreMerged` | `NoFreeNeighbours` |
| `BlkProofs` | `BlkInvariant` | the invariant `BlkInv` |
| | `ChainsCompleteInOrder` | `CompletesInOrder` |
| | `CompletionsAreCorrect` | `CompletionCorrect` |
| `StreamProofs` | `StreamInvariant` | the invariant `StreamInv` |
| | `FramesKeepTheirOrder`, `InputKeepsItsOrder` | `FramesInOrder`, `InputInOrder` |
| | `HostDataIsServed`, `InterruptsReachTheDriver` | `HostDataDoesNotWait`, `InterruptNotLost` |

Every proof has the same frame: the initial states satisfy the inductive
invariant, each action (a step of its own) keeps it, and it implies the property.
Most properties are not inductive; what they need in addition is the content of
the invariants.

### Elections

`ElectionSafety` is not inductive, and the usual argument (a node has one vote
per term) does not hold here: `become_follower` clears `voted_for`, and a
candidate calls it in its own term when a leader's append request arrives
(`distributed.c:214-216`). The node may then vote again in a term in which it
has voted for itself. `ElectionInv` says why this is harmless:

* `VotesRecorded`: votes that are counted, or given, are in the history, and
  `votes_received` is the number of voters counted;
* `VotesInFlight`: a granting response in flight belongs to a recorded vote that
  has not been counted yet (this needs "at most once");
* `OpenTermsLocked`: as long as a term has no leader, whoever voted in it
  remembers for whom, so nobody has voted for two;
* `LeadersBacked`: each leader of a term is backed by a majority whose votes in
  that term were locked when it was elected. A second vote in the term can only
  be cast afterwards, and too few nodes are left to elect anyone else;
* `LeadersElected`: who has the LEADER role, or has sent an append request, was
  elected in that term.

The counting step, that two majorities of one finite set meet, uses
`FiniteSetTheorems`. `VoteOnceBeforeLeader` follows from `ElectionInv` before and
after the step (`OpenTermsLocked`: a vote in a term without a leader cannot be
lost), and `NeverBack` from `TypeOK` and the fact that a log is only ever appended
to.

Assumptions: `NodeAssumption` (finitely many nodes, at least one),
`NilAssumption`, `BoundAssumption`; and what the specification itself assumes: vote
messages arrive at most once, no node reboots, every context knows the same
nodes.

### Logs

`NothingReplicated` says why the run `raft_replicate` finds what it finds, for clusters
of every size and every order of messages: an entry in a log was written there by its
own node in a term it was elected in, requests carry no entries, and every match
and commit index is 0. The step that needs `ElectionSafe` is `handle_append_request`: a
follower answers with an index above 0 when it has the entry that the request quotes.
It would have written that entry as the leader of the entry's term, and so would the
sender, and a term has one leader.

### Storage pool

The theorems have a hypothesis, `Plain`: volumes are thick and have no replicas,
and a request stays inside one extent. These are the constants of the run
`pool_data`. For other pools the program does not keep the promises: a thin volume
may be given extent 0, which its map takes for "not allocated" (run `pool_thin`), and
a freed extent keeps its replica links. Within `Plain`, devices, volumes, extents,
blocks and requests are of any number and size. Like the runs, the theorems speak
of `Spec`, without snapshots and without the removal of devices.

`ReadYourWrites` needs all of `PoolSound`:

* `Stored`: what was written is in the cell that the volume's map leads to. A write
  keeps it only if no other block leads to the cell it changes;
* `Layout`: extents have different places, on different devices. It is kept by
  `pool_add_device`, which appends extents of one device that was not there;
* `Maps`: an entry other than 0 names an extent in use that no other entry names. An
  allocation keeps it only if it hands out a free extent;
* `PoolOK`: `free_extents` counts the free extents, and extent 0 is the first that
  is taken and is not given back. The first volume takes it, so a write to an
  entry 0 (of that volume, or of one that has grown) gets an extent with another
  number, and the entry is not 0 afterwards;
* `Owned`: an extent in use, other than 0, is in a map.

A consequence on the way: a pre-allocation that `volume_create` has admitted does not
fail half-way, since the count is exact and a free extent is found wherever the
search begins. Assumptions: `PoolConstants`, `NoVolume`.

### The lock and the start of the processors

`LockInv`: the lock word tells whether some CPU, at some level, is inside, and
there is at most one (`OneHolder`); a handler interrupts nothing beyond the saving
of the flags, since interrupts are off from there on (`LevelsNest`); and the
interrupt flag that the caller had is, at each step, in one known place
(`FlagsKept`): the register, the local variable, or the field of the lock, which
only the holder reads or writes. The last two prove each other: a handler
cannot run inside the lock because the flag is off, and the flag is what it was
because no handler that returned has changed it.

`BootInv` counts: `online_cpus` is at most the number of processors, below the one
being started, that are online. The boot CPU counts a processor only after
reading its state. Assumption: `SmpConstants` (there is a CPU).

### Physical memory

`PmmInv` is `Sound` of the memory map, together with `NoFreeBuddies` and the count of
free memory. `Sound(m, H, X)` speaks of a map m, the blocks H that callers hold and
the blocks X that an operation has in its hands half-way, and says that the three
kinds tile the available memory with aligned blocks, that the first page of a free
or held block tells its kind and order, that lists hold pages of their own zone once
each, and that `free_pages` is the number of pages that the free blocks of a zone
cover. With X the loops can be cut into steps that each keep `Sound`: a block is
taken off its list (`TakeSound`), split in the hand (`SplitSound`), merged in the
hand (`MergeSound`), put back (`PutSound`) or marked as held (`HoldSound`).
`split_block` and `coalesce_buddies` are then inductions over their turns.

The step a reviewer would doubt is `CanMerge`, which trusts the flag and the order of
a page that may lie inside another block, where both are stale. `FoundBuddy` shows
that the test is exact: by `BuddyHeads` the page where the buddy would start never
lies inside a larger block (that block would contain the block in hand too), so it is
the first page of some block, and there flag and order are true; a reserved page is
not marked free. The test for a second release in `pmm_free_pages` never fires for
a block that is held (`FreeKeeps`). That the halves of an aligned block are buddies, that
blocks overlap only when nested, and that a block does not cross a zone boundary is
arithmetic of multiples (`HalfBlocks`, `Nested`, `OneZone`); powers of two come in through
`BlockSizes`, which gets them from the number of subsets of a set. Assumption:
`PmmConstants` (page 0 is reserved, as `pmm_init` leaves it, and zones begin at
multiples of the largest block, as 16 MB and 4 GB do).

### Kernel heap

`HeapIInv` is `HeapState` of the heap, its free blocks L, the blocks u that callers
hold and the regions R it got from the PMM, and says that `krealloc` between its two
steps holds both its blocks. `HeapState` has five parts:

* `HeapSound(h, L, U)`: the list is the `Chain` of L in order of addresses, every `prev`
  and `next` naming the neighbour in that order; blocks of L and U are `Laid` out
  without overlap, none smaller than `MIN_BLOCK_SIZE`, and the flags are right;
* `Fills`: the blocks own the units of the regions and no others;
* `Parted`: two free blocks touch only where a region begins;
* `Roomy`: a caller has the room it asked for;
* `current_usage` is the number of units that callers hold (`UsageIs` says that it is the
  sum of their blocks' sizes, which `HeapInv` asks for).

The first is about L as a set, while the code walks a list. `FreeListIs` connects the
two: a walk meets the blocks of L in order, each of them once, and the model's
bound on the walk (`MaxBlocks`) is long enough because blocks start at least
`MIN_BLOCK_SIZE` apart. The operations are then composed of few steps with a lemma
each: linking (`AddSound`), unlinking (`RemoveSound`), splitting (`CutKeeps`), joining
(`AbsorbSound`), handing out (`HandOutSound`) and a new region (`ExpandSound`).
`kmalloc` is `TakeState` or `ExpandState`, `kfree` is `FreeState`.

The step a reviewer would doubt is that `coalesce` looks at two neighbours once each.
Before it runs, the block b is linked, and `Parted` may fail at the start of b and at
its end and nowhere else. Absorbing `next` mends the end, and the block that is
absorbed brings no fault of its own, as it was parted from its successor. Absorbing b
into `prev` mends the start. If `prev` does not end where b starts, no free block
does, since `prev` is the last free block below b and blocks do not overlap.

Assumption: `HeapConstants`. The PMM hands out no page twice, so that regions are
disjoint (`MemoryIsPartitioned` is what shows this for the PMM); adding the header to a
request does not overflow 64 bits. Requests have any size otherwise. One that does not
fit in its expansion breaks the heap (section 6); the theorems say that everything
is in order until that happens for the first time (`overrun`), and that nothing else
breaks it.

### Extended page tables

`EptIInv` says that the memory has its type, that `view` is what a walk finds, and,
while there is a context, that its memory is a tree (`TreeIn`): there is a grading
`lvl` of the pages in which the top table has level 4, free pages have level 0, an entry
that points to a table points to one of the next lower level, no two entries point to
the same table, and the top table has no large pages. The grading is not unique (lost
tables may keep a level), so the invariant says that one exists.

The refinement is about every address at once, while an operation changes one
entry. Three steps connect them:

* `TableAt`, `EntryAt` and `Reaches` follow an address down the tables without the
  walk. `PathUnique` is the heart: in a graded memory two addresses that arrive at the same
  table have the same digits above it. A changed entry is therefore met by exactly
  the addresses of one block (`HitsBlock`), and for all others everything stays as it
  was (`SlotElsewhere`).
* The two changes an operation makes are linking an empty table (`LinkPages`: no page
  changes) and storing an entry (`StorePages`: the pages of one block change). A walk
  in progress keeps `Walking`: what it has built so far changes no page and is a tree
  again. `WalkIs`, `WalkToIs` and `WalkFinds` follow the code's walks level by
  level, whether they end at a large page, at an absent entry or for want of memory.
* `RunDone(mem, q, root, g, h, n, perm)`: from mem to q, the n pages from g on are mapped
  to the frames from h on and nothing else has changed. Runs that continue each other
  are one run (`RunMore`), so both loops of `ept_map_range` are inductions over their
  turns, with a beginning of the run as the result when one of them fails. The
  arguments g, h, n and perm are those of the call, which `GuestMap` compares the result
  with.

The step a reviewer would doubt is a large page laid over a table: the tables below
are lost, and must not become reachable again or be handed out. They are not free,
no entry points to them any more, and the store keeps the grading (`StoreTree`).
`TablesSound` counts tables and entries; `TreeIsSound` gets the equality level by
level, the entries of a level being in one-to-one correspondence with the tables of
the next, and tables of different levels being different.

Assumptions: `PageTableConstants` (a table has an entry; page 0, which stands for "no
context", holds no table) and `EptConstants` (guest addresses have four digits, a run
has a page). Like
the run, the theorem speaks of callers that map no page inside a larger one that is
mapped and protect only what is mapped.

### Cluster membership

The loop of `cluster_tick` fails, counts and elects node by node, so its
invariant is proved by induction over the list. `Passed` says what holds after
the first k nodes: the silent nodes passed are failed, the others as before, the
count exact for this mixture, and the leader, if it is a member, not one that
has failed. `NoDuplicates` makes the count a cardinality; `LocalStays` makes an
election find somebody. Assumption: `ClusterConstants` (finitely many ids, none of
them 0, and counters wider than the list is long).

### VM manager and scheduler

The counters of the nodes are unsigned and `virt_vm_stop` charges the wrong one,
so that the local counter wraps. `Balanced` says that the sum of all counters and
`running_count` differ by a multiple of 2^32; every operation keeps it, evacuation
by induction over the list of VMs. `RebalanceSettles` needs more: how far counters
can drift from the VMs a node really hosts (`DriftInv`), so that a comparison
of two counters after a migration comes out as it does on integers.
Assumptions: `SchedulerConstants`, and `DriftIsSmall`: the bound `MaxDrift` of the
model and twice the number of VMs are less than half of 2^32. In the program
nothing bounds the drift except the number of calls, so `RebalanceIsSettled` speaks
of the first two billion or so of stopped remote VMs.

### Management API

`AnsweredAsAsked` is inductive together with `SchedulerInv`: a request finds a list of
VMs without duplicates, of which a listing is a beginning, the whole unless the body is
full, and only VMs of the list have states in which an action is allowed. An id may be
any sequence of characters; the VM acted on is the one that has the number they make.
`RequestsAreAnswered` goes through the routing (`Parsed`: a parsed request depends on its
own method and path only), the refusals, and the four actions, whose effect on the
manager is that of the lemmas above. Assumptions: `SchedulerConstants` and
`ApiConstants` (VMs have different ids of 32 bits, and a body has room for an entry).

### VT-x, PCI, VM exits

`VmxInv`: the program's copy of the capabilities is the processor's own; VMX
operation is entered in order; each page is free, somebody else's, leaked as a second
I/O bitmap, or belongs to exactly one vCPU, in one role, whichever allocations of a
creation are refused; and every VMCS that was set up, one that stayed
current after its vCPU was destroyed included, has legal controls. `SetupIsLegal`
shows for any set of capabilities that what `setup_execution_controls` writes is
between the bits that must be and those that may be set. Assumption:
`VmxConstants` (what the manual guarantees of capability registers).

`BarsFollow` is arithmetic: masking by a power of two is rounding down to a
multiple, adding flag bits below the unit does not change it, and cutting a 64-bit
base to 32 bits is a remainder. It says of devices left to the bus that they follow
the guest modulo 4G, and of virtio devices that they stay where they were put. `PciInv`
adds that sizes are multiples of the unit. Assumption: `PciConstants` (sizes
divide the range of a register, as powers of two do, and bases are multiples of sizes).

`ExitInv` relates each register that a handler emulates to the last write to it that
was carried out, by way of the VMCS field or, for CR0 and CR4, of mask, shadow and
field together; only CR0 and the MSRs that are not stored can be in `lost`.
Assumption: `ExitConstants`.

### Virtio block device

`BlkInv` is the types (`Kept`) and `Sound`, which relates ring, driver and disk.

* `QueueOK` of `RingLemmas` (see the next section), and the lengths of all chains
  add up to at most `Num`.
* `Tracked`: the driver's pending list names, place by place, the heads in the ring
  from its own index to the available index.
* `Finished`: each chain up to the used index holds the status and data its ticket
  expects.
* `Planned`: there is a sequence of disks, from the one the device has to the one
  the driver expects in the end (`shadow`), such that each chain still to be done
  leads from one to the next and expects what it would read there.

`Planned` is what makes `CompletionCorrect` inductive: the driver fixes its
expectation when it publishes, the device reads the disk later, and several requests
may lie in between. `ServeKeeps` takes the first step of that sequence;
it rests on `ProcessIs`, that the walk of `process_request` over a chain (segments,
sectors, status, buffers) leaves exactly the disk, data and status that the driver
computes from the request as a whole. The sum of the lengths shows that a free head
exists whenever the descriptors suffice, and because every chain takes at least two,
that the ring is never full: unlike those of the streams, the indexes may be no wider
than the ring. Assumptions: `VirtqueueConstants`, and `BlkConstants` (a disk with a
sector and smaller than `SECTOR_WRAP`; requests with any sector number but the last
before the wrap, and a sequence of data that does not go all the way round, blank for
one that reads).

### Virtio network and console

`StreamInv` has four parts.

* `Queues`: both rings are well formed (`QueueOK` of `RingLemmas`): the driver's
  index, the used index and the available index follow each other within one
  round of the ring, the device stands at the used index, chains in between are
  what was published.
* `Data`: place by place, what lies in the buffers the driver has still to collect
  is what the host sent and the driver is still owed, in that order, and behind it
  comes the backlog or the ring buffer of input.
* `Announced`: a chain that the driver has not collected has an interrupt pending
  or a driver that is about to look.
* `Served`: with buffers posted and no kick outstanding, nothing from the host
  waits.

The arithmetic is the point of `RingLemmas`: indexes count modulo `IDX_MODULUS`,
slots modulo `Num`, and two chains in flight never share a slot. Assumptions:
`VirtqueueConstants` (the first is a multiple of the second) and `StreamConstants`
(the ring is shorter than the range of its indexes; receive buffers have room for
the header; no chain is empty, which is what the driver is assumed to respect).

### Loops

A loop over a list is a fold of the community modules, whose definition is a
recursive function over sets. `ListLemmas` states what such a fold computes: the
value for the empty set, the value with one element more, that two folds whose
steps agree are equal, and an induction rule. The rule quantifies over a set of
good results in place of a predicate, which the provers can instantiate. The
module is instantiated once for each loop, with the loop's body as `step`. Loops that
count from 1 to n (`Preallocate` and its replicas) are recursive functions of the
counter, for which `Rec` and `RecInduction` do the same.

### Only model-checked

* Liveness (`StaleLeaderStepsDown`, `EveryRequestCompletes`), which is out of this
  prover's reach.
* `Paging` (`TablesAccounted`, `TlbCoherent`): within reach of the lemmas about `Ept`,
  but not proved. Its contexts share the tables of the kernel, so the tables of all
  contexts together are no tree, and its tables are told apart by who owns them.

## 6. What was found

Findings with a run: `raft_restart`, `raft_replicate`, `pool_thin`, `pmm_boot` and
`vm_entry`.
`pmm_boot` means that `heap_init`, which asks for order 4 right after `pmm_init`,
fails at boot; the models of the parts above start from the state their own
initialisation is meant to leave.

Behaviour met while modelling, kept in the models where it can occur, without a
run of its own:

* What `raft_replicate` shows has a cause and a consequence: `raft_tick` sends
  `entry_count = 0` (`distributed.c:382`) and `handle_append_request` never appends
  (226-228); a follower matches at index 0 at most, `commit_index` stays 0, and an
  accepted write is never applied.
* A cluster of one node never elects a leader: the majority is tested only when
  a vote response arrives.
* A snapshot shares its extents without copy on write (`pool.c:508-515`): a write
  shows in it, and destroying both volumes frees the extents twice.
* The rollback of a pre-allocation that fails half-way leaves replicas allocated
  (`pool.c:388`); it cannot fail there as long as `free_extents` is exact. A freed
  extent keeps its replica links (154), so a thin volume that gets it later writes
  to extents of others. `used_size` wraps when extents allocated on write are freed
  (451).
* Beyond 1024 pages a RAM disk is larger than its memory (`memblk.c:91`).
* A thin mirrored volume has one copy: allocation on write takes no replica
  (`pool.c:50-58`, against `pool.h:32`).
* The extents of a removed device stay in the table and are handed out again
  (`pool.c:326-330`).
* Removing the leader from the cluster holds no election (`node.c:245-282`);
  `leader_id` names a stranger until some node fails.
* `has_quorum` is recomputed by a failure only, not by joins and departures
  (`node.c:226`).
* `virt_vm_stop` charges the local node wherever the VM runs (`vm.c:176-178`);
  only the total of the counters stays right, which is what `CountsBalance` says.
* `available_vcpus` is unsigned (`scheduler.c:76`): a node above its capacity
  appears to have room for anything, and `cpu_score` (122) wraps in the same way.
* Evacuation leaves stopped VMs behind (`scheduler.c:359`, against
  `scheduler.h:154`).
* A double free of a page that has been merged into its lower buddy is not
  recognised (`pmm.c:252`).
* An expansion of the heap is four pages whatever the request needs
  (`heap.c:213-222`). For a larger request the unsigned remainder in `split_block`
  wraps and a free block is written behind the new memory. `api.c:21` and
  `distributed.c:309` make such requests when no free block is large enough. In the
  model this is `overrun`.
* The block device computes byte offsets in 64 bits (`virtio_blk.c:22`, 34, 133, 164):
  sector 2^55 is served as sector 0 with status OK. Sector 2^55 - 1 passes the range
  check, since `offset + len` is 0, and is read or written outside the disk; the model
  has the first and excludes the second.
* The device offers EVENT_IDX (`virtio.c:228-229`) but `event_idx` is set nowhere and
  `avail_event` is never written: a driver that accepts the feature stops kicking
  after its first request.
* The block device reports a used length of 1 for every request, whatever it
  read: storing the status resets the count (`virtio_blk.c:129`).
* "Validate feature negotiation" (`virtio.c:398`) accepts any set of features.

* A queue switched off by QUEUE_PFN = 0 and set up again keeps `last_avail_idx`
  (`virtio.c:355`).
* The network device's transmit path does not look at the receive queue
  (`virtio_net.c:176-193`): a frame that loops back waits for a kick of that queue.
* `ept_destroy` frees the top table only and says so (`ept.c:128`). A 2M page mapped
  inside a 1G page takes its frame for a table (181); a 4K page mapped inside a
  larger one replaces the whole of it; `ept_set_permissions` on a page that is not
  mapped maps frame 0 (275). Nothing locks a context.
* `paging_map` with 1G pages builds two tables and loses them (`paging.c:216`),
  flushes nothing that a large page is laid over (213-259, the mark `laid` in the
  model), and maps on when the size is no multiple of the page size (271). Tables that
  a context has for itself in the kernel's half are lost when it is destroyed (164). A
  kernel mapping in a new top-level entry does not appear in contexts that exist.
  `paging_get_phys` drops the offset inside large pages (303). The boot code's two
  halves share tables, so that an unmapping through one half leaves the other's
  translation in the TLB.
* A processor that comes up after its time-out is online and never counted
  (`smp.c:158-162`).
* VM entry: nobody writes HOST_RIP, HOST_RSP (`vcpu.c:189` says they "will be set") or
  the EPT pointer. The assembly keeps guest registers at the start of `vcpu_t`, over
  its ids, its state and its VMXON and VMCS pointers, although `regs` begins at
  offset 48 (`vcpu.h:36`: "must match assembly layout"). `vcpu_run` enters whatever
  VMCS is current; `vcpu_destroy` frees it without VMCLEAR; a second
  `vcpu_init_vmcs` leaves `launched` set. If the first I/O bitmap cannot be had and
  the second can, the second leaks (`vcpu.c:80`, 105; `leaked` in the model).
* A guest's LMSW and CLTS are taken as done without changing CR0 (`vmexit.c:331-365`),
  and so are writes to MSRs that are not stored (289-291); `lost` in the model.
* `api_response_error` returns 0, so `failed_requests` counts nothing
  (`api.c:475`).
* A list of the API ends without a sign when 256 bytes or less are left of its body
  (`api.c:314`, 369). The id "1abc" is VM 1, a number beyond 32 bits is its remainder
  (391-394), and for nodes letters count as digits.
* Virtio devices replace the configuration handler by a plain copy (`virtio.c:161-168`):
  sizing their BARs returns all ones, and placing them does not move them. A base above
  4G is cut to 32 bits when its device is registered (`pci.c:182`), and writes to the
  upper half of a 64-bit BAR are ignored (111-113). All devices are created at 0:0.0,
  where only the newest is found. A 32-bit write to COMMAND clears STATUS, and the
  write-one-to-clear mask of STATUS covers the capabilities bit (98); the two
  registers are not in the model.

## 7. Not modelled

* APIC, IDT, console output and start-up code apart from the page tables it leaves:
  register writes in a fixed order, whose meaning is the processor's.
* IPIs and calls to other CPUs (`smp.c`), which send and forget.
* The guest and host state areas of a VMCS, except for the registers that handlers
  change.
* JSON text, statistics; of PCI, capabilities, configuration reads, COMMAND and STATUS;
  of the exits, what CPUID and the ports return.
* The string library, tests and benchmarks.
* Weak memory: the device stores `used->idx` and then reads `avail->flags` with no
  barrier between (`virtio_blk.c:255`).
* A request that crosses an extent boundary (`pool.c:38`; `Straddle` lets a run
  include it; nothing in the repository says whether callers may send one).

## 8. Plan

Done first, as the core: `Raft` with its proofs, then the modules whose errors
lose data (`StoragePool`, `Pmm`, `Heap`, `VirtioBlk`), then the management layer.
After that the devices, the page tables with their abstract map, the processors,
and the VM entry and exit path.

Left, in this order:

1. Theorems about `Paging`: `TablesAccounted` and `TlbCoherent`.
2. A composition of `Cluster` and `VmScheduler`: a failed node and the evacuation of
   its VMs.
3. An abstract volume (a map from blocks to data) that `StoragePool` with thick
   volumes implements.
