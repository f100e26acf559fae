---------------------------- MODULE VirtioStream -----------------------------
(***************************************************************************)
(* The virtio network and console devices (src/virtio/virtio_net.c,        *)
(* src/virtio/virtio_console.c): a receive queue that the device fills     *)
(* from a backlog, and a transmit queue that it drains.  Both sit on the   *)
(* same legacy PCI registers (src/virtio/virtio.c); kind says which of the *)
(* two devices a behaviour is about.                                       *)
(*                                                                         *)
(* A frame or a piece of console input is a sequence of symbols.  The      *)
(* guest driver is external, as in VirtioBlk: it posts writable receive    *)
(* buffers with room for the header, sends one chain at a time, kicks the  *)
(* queue it added to, and on an interrupt collects from both queues.  It   *)
(* leaves interrupts on.                                                   *)
(***************************************************************************)
EXTENDS Virtqueue

CONSTANTS
    HDR,                    \* size of virtio_net_hdr_t
    NET_PACKET_MAX_SIZE,
    CONSOLE_BUFFER_SIZE,
    Frames,                 \* what the host sends to the guest: sequences of symbols
    RxSizes,                \* sizes of receive buffers, by kind of device
    TxChains,               \* what the guest sends: sequences of buffers
    MaxBacklog              \* frames waiting in the backend

Symbol ==
    {Nil} \cup UNION {{f[k] : k \in DOMAIN f} : f \in Frames}
          \cup UNION {UNION {{c[k][i] : i \in DOMAIN c[k]} : k \in DOMAIN c} : c \in TxChains}

\* The indexes are wider than the queue; a receive buffer has room for a
\* frame's header, and no chain is empty.
ASSUME StreamConstants ==
    /\ HDR \in Nat /\ NET_PACKET_MAX_SIZE \in Nat /\ CONSOLE_BUFFER_SIZE \in Nat \ {0}
    /\ Num < IDX_MODULUS
    /\ Frames \subseteq Seq(Symbol)
    /\ TxChains \subseteq Seq(Seq(Symbol)) /\ << >> \notin TxChains
    /\ \A k \in {"net", "console"} : RxSizes[k] \subseteq Nat
    /\ \A size \in RxSizes["net"] : size >= HDR

VARIABLES
    kind,           \* "net" or "console"
    vqs,            \* the device's queues: enabled, last_avail_idx
    queue_sel,
    isr_status,     \* bit 0
    phase,          \* idle, or the queue being worked on
    packets,        \* net backend: rx_head .. rx_tail
    input,          \* console: data, head, tail, count
    ring,           \* guest memory of each queue: chains and the two rings
    drv,            \* the driver: last_used and kick of each queue, mode
    owed            \* history: what the guest has still to collect, in order

vars == <<kind, vqs, queue_sel, isr_status, phase, packets, input, ring, drv, owed>>

Queue == {"rx", "tx"}
ResetQueue == [enabled |-> FALSE, last_avail_idx |-> 0]
NoEntry == [id |-> 0, len |-> 0]
BlankRing ==
    [chain |-> [d \in DescIndex |-> << >>],
     avail_idx |-> 0, avail_ring |-> [s \in DescIndex |-> 0], no_interrupt |-> FALSE,
     used_idx |-> 0, used_ring |-> [s \in DescIndex |-> NoEntry]]
IdleDriver == [last_used |-> [q \in Queue |-> 0], kick |-> [q \in Queue |-> FALSE],
               mode |-> "waiting"]

\* The bytes of the buffer are kept only while they count, as head .. tail.
buffer_init == [data |-> [i \in 0 .. CONSOLE_BUFFER_SIZE - 1 |-> Nil],
                head |-> 0, tail |-> 0, count |-> 0]

\* A zeroed device with its two queues, no frame and no input waiting.
FreshDevice ==
    /\ vqs = [q \in Queue |-> ResetQueue]
    /\ queue_sel = "rx"
    /\ isr_status = FALSE
    /\ phase = "idle"
    /\ packets = << >>
    /\ input = buffer_init
    /\ ring = [q \in Queue |-> BlankRing]
    /\ drv = IdleDriver
    /\ owed = << >>

virtio_net_create == kind = "net" /\ FreshDevice
virtio_console_create == kind = "console" /\ FreshDevice

Init == virtio_net_create \/ virtio_console_create

Prefix(s, n) == SubSeq(s, 1, Min({n, Len(s)}))

-----------------------------------------------------------------------------
(* The console's ring buffer. *)

buffer_put_unwrapped(b, c) ==
    [b EXCEPT !.data[b.tail] = c, !.tail = Min({@ + 1, CONSOLE_BUFFER_SIZE - 1}), !.count = @ + 1]
buffer_put(b, c) ==
    IF b.count >= CONSOLE_BUFFER_SIZE THEN b
    ELSE [b EXCEPT !.data[b.tail] = c, !.tail = (@ + 1) % CONSOLE_BUFFER_SIZE,
                   !.count = @ + 1]
buffer_write(b, s) == FoldLeft(buffer_put, b, s)

\* The n oldest symbols, and the buffer without them.
buffer_peek(b, n) ==
    [i \in 1..n |-> b.data[(b.head + i - 1) % CONSOLE_BUFFER_SIZE]]
buffer_get(b, n) ==
    LET gone == {(b.head + i) % CONSOLE_BUFFER_SIZE : i \in 0 .. n - 1}
    IN  [data |-> [i \in DOMAIN b.data |-> IF i \in gone THEN Nil ELSE b.data[i]],
         head |-> (b.head + n) % CONSOLE_BUFFER_SIZE, tail |-> b.tail, count |-> b.count - n]

-----------------------------------------------------------------------------
(* The transmit queue.  A buffer of a chain is a sequence of symbols; the  *)
(* first one of a frame begins with the header.                            *)

frame_of(chain) ==
    LET body == [k \in DOMAIN chain |->
                    IF k > 1 THEN chain[k]
                    ELSE SubSeq(chain[1], HDR + 1, Len(chain[1]))]
    IN  Prefix(FlattenSeq(body), NET_PACKET_MAX_SIZE)

\* loopback_transmit: the frame goes to the end of the backend's queue, unless
\* there is no memory for it.
transmit(frame, stored) ==
    IF frame = << >> \/ ~stored THEN UNCHANGED <<packets, owed>>
    ELSE /\ packets' = Append(packets, [from |-> "guest", data |-> frame])
         /\ owed' = Append(owed, [from |-> "guest", data |-> frame])

net_process_tx(head) ==
    /\ kind = "net"
    /\ \E stored \in BOOLEAN : transmit(frame_of(ring["tx"].chain[head]), stored)

\* The text goes to the output handler, which keeps nothing.
console_process_tx(head) ==
    /\ kind = "console"
    /\ UNCHANGED <<packets, owed>>

TxLoop ==
    /\ phase = "tx"
    /\ virtq_has_work(vqs["tx"], ring["tx"])
    /\ LET head == virtq_pop_head(vqs["tx"], ring["tx"])
       IN  /\ net_process_tx(head) \/ console_process_tx(head)
           /\ ring' = [ring EXCEPT !["tx"] = virtq_push(@, head, 0)]
    /\ vqs' = [vqs EXCEPT !["tx"] = virtq_pop(@)]
    /\ UNCHANGED <<kind, queue_sel, isr_status, phase, input, drv>>

TxDone ==
    /\ phase = "tx"
    /\ ~virtq_has_work(vqs["tx"], ring["tx"])
    /\ phase' = "idle"
    /\ isr_status' = (isr_status \/ virtq_should_notify(vqs["tx"], ring["tx"]))
    /\ UNCHANGED <<kind, vqs, queue_sel, packets, input, ring, drv, owed>>

-----------------------------------------------------------------------------
(* The receive queue: one iteration fills one buffer. *)

Waiting == IF kind = "net" THEN packets # << >> ELSE input.count > 0

\* Give the buffer at the head of the next chain its content; used says how
\* many bytes of the buffer were filled, header included.
Filled(m, head, content) ==
    LET chain == m.chain[head]
    IN  [m EXCEPT !.chain[head] = [chain EXCEPT ![1] = [len |-> chain[1].len, data |-> content]]]
FillBuffer(content, used) ==
    LET head == virtq_pop_head(vqs["rx"], ring["rx"])
    IN  /\ vqs' = [vqs EXCEPT !["rx"] = virtq_pop(@)]
        /\ ring' = [ring EXCEPT !["rx"] = virtq_push(Filled(@, head, content), head, used)]

RxBuffer == ring["rx"].chain[virtq_pop_head(vqs["rx"], ring["rx"])][1]

copy_len_whole(len, room) == len
copy_len(len, room) == IF HDR + len > room THEN room - HDR ELSE len

net_process_rx ==
    /\ kind = "net"
    /\ LET pkt == Head(packets).data
           n == copy_len(Len(pkt), RxBuffer.len)
       IN  FillBuffer(Prefix(pkt, n), HDR + n)
    /\ packets' = Tail(packets)
    /\ UNCHANGED input

console_process_rx ==
    /\ kind = "console"
    /\ LET n == Min({RxBuffer.len, input.count})
       IN  /\ FillBuffer(buffer_peek(input, n), n)
           /\ input' = buffer_get(input, n)
    /\ UNCHANGED packets

RxLoop ==
    /\ phase = "rx"
    /\ Waiting /\ virtq_has_work(vqs["rx"], ring["rx"])
    /\ net_process_rx \/ console_process_rx
    /\ UNCHANGED <<kind, queue_sel, isr_status, phase, drv, owed>>

RxDone_silent ==
    /\ phase = "rx"
    /\ ~(Waiting /\ virtq_has_work(vqs["rx"], ring["rx"]))
    /\ phase' = "idle"
    /\ UNCHANGED <<kind, vqs, queue_sel, isr_status, packets, input, ring, drv, owed>>
RxDone ==
    /\ phase = "rx"
    /\ ~(Waiting /\ virtq_has_work(vqs["rx"], ring["rx"]))
    /\ phase' = "idle"
    /\ isr_status' = (isr_status \/ virtq_should_notify(vqs["rx"], ring["rx"]))
    /\ UNCHANGED <<kind, vqs, queue_sel, packets, input, ring, drv, owed>>

queue_notify == TxLoop \/ TxDone \/ RxLoop \/ RxDone

\* The host has something for the guest.  process_rx follows at once, whether
\* or not a buffer is there; nothing happens when there is no memory for a
\* frame.
virtio_net_receive_queued_only(data) ==
    /\ kind = "net" /\ phase = "idle"
    /\ Len(packets) < MaxBacklog
    /\ packets' = Append(packets, [from |-> "host", data |-> Prefix(data, NET_PACKET_MAX_SIZE)])
    /\ owed' = Append(owed, [from |-> "host", data |-> Prefix(data, NET_PACKET_MAX_SIZE)])
    /\ UNCHANGED <<kind, vqs, queue_sel, isr_status, phase, input, ring, drv>>
virtio_net_receive(data) ==
    /\ kind = "net" /\ phase = "idle"
    /\ Len(packets) < MaxBacklog
    /\ packets' = Append(packets, [from |-> "host", data |-> Prefix(data, NET_PACKET_MAX_SIZE)])
    /\ owed' = Append(owed, [from |-> "host", data |-> Prefix(data, NET_PACKET_MAX_SIZE)])
    /\ phase' = "rx"
    /\ UNCHANGED <<kind, vqs, queue_sel, isr_status, input, ring, drv>>

\* What does not fit into the input buffer is refused; the caller learns how
\* much was taken.
virtio_console_write(data) ==
    LET taken == Prefix(data, CONSOLE_BUFFER_SIZE - input.count)
    IN  /\ kind = "console" /\ phase = "idle"
        /\ input' = buffer_write(input, data)
        /\ owed' = owed \o taken
        /\ phase' = "rx"
        /\ UNCHANGED <<kind, vqs, queue_sel, isr_status, packets, ring, drv>>

-----------------------------------------------------------------------------
(* Register accesses of the guest. *)

\* The devices' own reset handlers: the console drops its input, the frames of
\* the network backend stay.
console_reset ==
    /\ kind = "console"
    /\ input' = buffer_init
    /\ owed' = << >>
net_reset ==
    /\ kind = "net"
    /\ owed' = packets
    /\ UNCHANGED input

\* Writing 0 to the status register.
Reset ==
    /\ phase = "idle"
    /\ \E q \in Queue : vqs[q].enabled
    /\ vqs' = [q \in Queue |-> ResetQueue]
    /\ isr_status' = FALSE
    /\ net_reset \/ console_reset
    /\ ring' = [q \in Queue |-> BlankRing]
    /\ drv' = IdleDriver
    /\ UNCHANGED <<kind, queue_sel, phase, packets>>

SelectQueue(q) ==
    /\ phase = "idle"
    /\ vqs[queue_sel].enabled /\ ~vqs[q].enabled
    /\ queue_sel' = q
    /\ UNCHANGED <<kind, vqs, isr_status, phase, packets, input, ring, drv, owed>>

virtq_set_addr ==
    /\ phase = "idle"
    /\ ~vqs[queue_sel].enabled
    /\ vqs' = [vqs EXCEPT ![queue_sel].enabled = TRUE]
    /\ UNCHANGED <<kind, queue_sel, isr_status, phase, packets, input, ring, drv, owed>>

\* QUEUE_NOTIFY.
Kick(q) ==
    /\ phase = "idle"
    /\ drv.kick[q]
    /\ drv' = [drv EXCEPT !.kick[q] = FALSE]
    /\ phase' = q
    /\ UNCHANGED <<kind, vqs, queue_sel, isr_status, packets, input, ring, owed>>

\* One read of the ISR register clears it for both queues.
ReadISR ==
    /\ phase = "idle"
    /\ drv.mode = "waiting"
    /\ isr_status
    /\ isr_status' = FALSE
    /\ drv' = [drv EXCEPT !.mode = "reaping"]
    /\ UNCHANGED <<kind, vqs, queue_sel, phase, packets, input, ring, owed>>

-----------------------------------------------------------------------------
(* The driver in guest memory. *)

FreeHeads(q) == {d \in DescIndex : ring[q].chain[d] = << >>}
Publish(q, chain) ==
    /\ \A p \in Queue : vqs[p].enabled
    /\ drv.mode = "waiting"
    /\ FreeHeads(q) # {}
    /\ ring' = [ring EXCEPT ![q] = Published(@, Min(FreeHeads(q)), chain)]
    /\ drv' = [drv EXCEPT !.kick[q] = TRUE]
    /\ UNCHANGED <<kind, vqs, queue_sel, isr_status, phase, packets, input, owed>>

PostBuffer(size) == Publish("rx", <<[len |-> size, data |-> << >>]>>)
Send(chain) ==
    /\ Len(packets) < MaxBacklog
    /\ FreeHeads("tx") = DescIndex      \* one at a time
    /\ Publish("tx", chain)

Uncollected(q) == Distance(ring[q].used_idx, drv.last_used[q])

UsedEntries(q) ==
    [k \in 1 .. Uncollected(q) |-> ring[q].used_ring[ring_slot(drv.last_used[q] + k - 1)]]

\* The driver takes back every used chain of both queues and clears the ring
\* slots it has done with.
WithoutUsed(q) ==
    LET heads == {UsedEntries(q)[k].id : k \in DOMAIN UsedEntries(q)}
        slots == {ring_slot(drv.last_used[q] + k - 1) : k \in DOMAIN UsedEntries(q)}
    IN  [ring[q] EXCEPT
           !.chain = [d \in DescIndex |-> IF d \in heads THEN << >> ELSE @[d]],
           !.used_ring = [d \in DescIndex |-> IF d \in slots THEN NoEntry ELSE @[d]],
           !.avail_ring = [d \in DescIndex |-> IF d \in slots THEN 0 ELSE @[d]]]
\* A frame fills one buffer; console input is counted by its symbols.
Received ==
    LET used == UsedEntries("rx")
    IN  IF kind = "net" THEN Len(used)
        ELSE FoldLeft(LAMBDA n, u : n + u.len, 0, used)
Reap ==
    /\ drv.mode = "reaping"
    /\ owed' = SubSeq(owed, Received + 1, Len(owed))
    /\ ring' = [q \in Queue |-> WithoutUsed(q)]
    /\ drv' = [drv EXCEPT !.last_used = [q \in Queue |-> ring[q].used_idx],
                          !.mode = "waiting"]
    /\ UNCHANGED <<kind, vqs, queue_sel, isr_status, phase, packets, input>>

Collect == ReadISR \/ Reap

-----------------------------------------------------------------------------
Next ==
    \/ queue_notify
    \/ \E data \in Frames : virtio_net_receive(data)
    \/ \E data \in Frames : virtio_console_write(data)
    \/ Reset
    \/ \E q \in Queue : SelectQueue(q)
    \/ virtq_set_addr
    \/ \E q \in Queue : Kick(q)
    \/ \E size \in RxSizes[kind] : PostBuffer(size)
    \/ \E chain \in TxChains : Send(chain)
    \/ Collect

Spec == Init /\ [][Next]_vars

-----------------------------------------------------------------------------
(* Properties. *)

\* What lies in used receive buffers, oldest first.
Delivered ==
    [k \in DOMAIN UsedEntries("rx") |-> ring["rx"].chain[UsedEntries("rx")[k].id][1]]

\* Frames from the host and frames that loop back reach the guest in the order
\* in which the backend got them, none lost, doubled or mixed up, each cut to
\* the room behind the header of the buffer it met: through backlogs that wait
\* for buffers, frames that arrive while the loop runs, wrap-around and resets,
\* after which the backlog is still delivered (net process_rx,
\* loopback_transmit, net_reset).
FramesInOrder ==
    kind = "net" =>
        /\ Len(Delivered) + Len(packets) = Len(owed)
        /\ \A k \in DOMAIN Delivered :
             Delivered[k].data = Prefix(owed[k].data, Delivered[k].len - HDR)
        /\ packets = SubSeq(owed, Len(Delivered) + 1, Len(owed))

\* What buffer_write accepted of the host's input is what the guest collects,
\* symbol by symbol and in order, although the ring buffer wraps, fills up and
\* is emptied in pieces of the size of the guest's buffers (buffer_write,
\* buffer_get, console process_rx).
InputInOrder ==
    kind = "console" =>
        FlattenSeq([k \in DOMAIN Delivered |-> Delivered[k].data])
          \o buffer_peek(input, input.count) = owed

\* When the device rests and no kick is outstanding, nothing that came from the
\* host waits while a receive buffer is there for it (virtio_net_receive,
\* virtio_console_write, the loop of process_rx).  A frame that the guest looped
\* back may wait: the transmit path does not look at the receive queue.
HostDataDoesNotWait ==
    phase = "idle" /\ ~drv.kick["rx"] /\ virtq_has_work(vqs["rx"], ring["rx"])
        => /\ \A k \in DOMAIN packets : packets[k].from = "guest"
           /\ input.count = 0

\* No interrupt is lost although both queues share one ISR bit that a single
\* read clears: when the device rests and the driver waits for an interrupt,
\* buffers that it has not collected are announced (the ends of process_rx and
\* queue_notify, virtq_should_notify, virtio_pci_read).
InterruptNotLost ==
    phase = "idle" /\ drv.mode = "waiting" /\ (\E q \in Queue : Uncollected(q) > 0)
        => isr_status
=============================================================================
