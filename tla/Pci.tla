-------------------------------- MODULE Pci --------------------------------
(***************************************************************************)
(* The virtual PCI bus of pci.c: the list of devices, the configuration    *)
(* space that a guest reaches through the ports 0xCF8 and 0xCFC, and the   *)
(* base address registers.                                                 *)
(*                                                                         *)
(* A register is a number below ALL + 1, where ALL stands for the code's   *)
(* 0xFFFFFFFF; bars[].base has twice the bits.  The low four bits of a BAR *)
(* are flags, as in the code.  The guest is external: it writes whole      *)
(* registers, of every value in Values.  A device is left to the bus's own *)
(* config_write_default or, as all virtio devices, has a callback that     *)
(* only stores what is written.                                            *)
(***************************************************************************)
EXTENDS Integers, Sequences, SequencesExt

CONSTANTS
    ALL,            \* the all-ones value of a register, 0xFFFFFFFF in the code
    PciDevices,     \* the pci_device_t objects; a device is its own bus address
    VirtioDevices,  \* those with virtio_pci_config_write as config_write
    BarNumbers,     \* 0 .. PCI_MAX_BARS - 1
    BarKinds,       \* BarKinds[dev][b]: the BARs that a device may pass to pci_setup_bar as b
    Values          \* what a guest writes to a register

(* The bits of a BAR below its address. *)
Unit(bar) == IF bar.is_io THEN 4 ELSE 16

Bar == [base : Nat, size : Nat, is_io : BOOLEAN, is_64bit : BOOLEAN, prefetchable : BOOLEAN]

(* A device's BAR has a size the register can tell and lies on a multiple of it. *)
ASSUME PciConstants ==
    /\ ALL \in Nat /\ Values \subseteq 0 .. ALL /\ BarNumbers \subseteq Nat
    /\ VirtioDevices \subseteq PciDevices
    /\ \A dev \in PciDevices, b \in BarNumbers : \A kind \in BarKinds[dev][b] :
          /\ kind \in Bar /\ kind.size # 0
          /\ kind.size % Unit(kind) = 0 /\ (ALL + 1) % kind.size = 0
          /\ kind.base % kind.size = 0

VARIABLES
    devices,        \* pci_bus.devices, the newest first
    config_address, \* pci_bus.config_address
    bars,           \* dev->bars
    config,         \* the BARs in dev->config
    placed          \* history: where the device and, since, the guest put a BAR

pci_vars == <<devices, config_address, bars, config, placed>>

NoBar == [base |-> 0, size |-> 0, is_io |-> FALSE, is_64bit |-> FALSE, prefetchable |-> FALSE]

BlankConfig == [b \in BarNumbers |-> 0]

Disabled == [enable |-> FALSE, bdf |-> CHOOSE d \in PciDevices : TRUE, reg |-> 0]

(* One register stands for those that are no BAR: nothing in the bus reads them. *)
PCI_COMMAND == 4
PCI_BAR(b) == 16 + 4 * b

Registers == {PCI_COMMAND} \cup {PCI_BAR(b) : b \in BarNumbers}

-----------------------------------------------------------------------------

Align(value, size) == value - (value % size)

(* The conversion to uint32_t, and what it drops. *)
Low32(address) == address % (ALL + 1)
High32(address) == address \div (ALL + 1)

(* value | flag, for a value whose bit is clear *)
Flags(bar) ==
    IF bar.is_io THEN 1
    ELSE (IF bar.is_64bit THEN 4 ELSE 0) + (IF bar.prefetchable THEN 8 ELSE 0)

size_mask(bar) == ALL - (bar.size - 1) + (IF bar.is_io THEN 1 ELSE 0)

bar_value(bar, value) == Align(value, Unit(bar)) + Flags(bar)

(* A set of one device, or none. *)
find_device_by_bdf(bdf) == {dev \in ToSet(devices) : dev = bdf}

-----------------------------------------------------------------------------
(* What a write to a BAR register means to the guest. *)

PlacedAt(base) == [home |-> base, low |-> Low32(base), high |-> High32(base), moved |-> FALSE]

UpperHalf(dev, b) ==
    /\ bars[dev][b].size = 0
    /\ \E i \in BarNumbers : b = i + 1 /\ bars[dev][i].size # 0 /\ bars[dev][i].is_64bit

(* All ones ask for the size; other values are an address, or its upper half. *)
PlacedByGuest(dev, b, value) ==
    [i \in BarNumbers |->
        CASE value # ALL /\ i = b -> [placed[dev][i] EXCEPT !.low = value, !.moved = TRUE]
          [] value # ALL /\ b = i + 1 /\ UpperHalf(dev, b) -> [placed[dev][i] EXCEPT !.high = value]
          [] OTHER -> placed[dev][i]]

-----------------------------------------------------------------------------

pci_init ==
    /\ devices = <<>>
    /\ config_address = Disabled
    /\ bars = [d \in PciDevices |-> [b \in BarNumbers |-> NoBar]]
    /\ config = [d \in PciDevices |-> BlankConfig]
    /\ placed = [d \in PciDevices |-> [b \in BarNumbers |-> PlacedAt(0)]]

(* A device sets up its BARs before it is registered.  The upper half of a
   64-bit BAR is no BAR of its own. *)
pci_setup_bar(dev, b, kind) ==
    /\ ~Contains(devices, dev)
    /\ bars' = [bars EXCEPT ![dev] =
                   [i \in BarNumbers |->
                       CASE i = b -> kind
                         [] i = b + 1 /\ kind.is_64bit -> [bars[dev][i] EXCEPT !.size = 0]
                         [] OTHER -> bars[dev][i]]]
    /\ placed' = [placed EXCEPT ![dev][b] = PlacedAt(kind.base)]
    /\ UNCHANGED <<devices, config_address, config>>

RegisteredConfig(dev) ==
    [b \in BarNumbers |->
        IF bars[dev][b].size > 0 THEN Low32(bars[dev][b].base) + Flags(bars[dev][b]) ELSE 0]

(* No caller registers a device that is registered. *)
pci_register_device(dev) ==
    /\ ~Contains(devices, dev)
    /\ config' = [config EXCEPT ![dev] = RegisteredConfig(dev)]
    /\ devices' = <<dev>> \o devices
    /\ UNCHANGED <<config_address, bars, placed>>

pci_unregister_device(dev) ==
    /\ devices' = RemoveFirst(devices, dev)
    /\ UNCHANGED <<config_address, bars, config, placed>>

WriteConfigAddress(enable, bdf, reg) ==
    /\ config_address' = [enable |-> enable, bdf |-> bdf, reg |-> reg]
    /\ UNCHANGED <<devices, bars, config, placed>>

(* config_write_default on a BAR; the upper half of one is of size 0. *)
WriteBar_sizing_falls_through(dev, b, value) ==
    LET bar == bars[dev][b]
    IN  /\ bar.size # 0
        /\ config' = [config EXCEPT ![dev][b] =
                         IF value = ALL THEN size_mask(bar) ELSE bar_value(bar, value)]
        /\ bars' = [bars EXCEPT ![dev][b].base = Align(bar_value(bar, value), bar.size)]

WriteBar(dev, b, value) ==
    LET bar == bars[dev][b]
    IN  \/ bar.size = 0 /\ UNCHANGED <<config, bars>>
        \/ /\ bar.size # 0 /\ value = ALL
           /\ config' = [config EXCEPT ![dev][b] = size_mask(bar)]
           /\ UNCHANGED bars
        \/ /\ bar.size # 0 /\ value # ALL
           /\ config' = [config EXCEPT ![dev][b] = bar_value(bar, value)]
           /\ bars' = [bars EXCEPT ![dev][b].base = Align(bar_value(bar, value), bar.size)]

config_write_default(dev, b, value) == dev \notin VirtioDevices /\ WriteBar(dev, b, value)

(* A plain copy: bars[] is not looked at. *)
virtio_pci_config_write(dev, b, value) ==
    /\ dev \in VirtioDevices
    /\ config' = [config EXCEPT ![dev][b] = value]
    /\ UNCHANGED bars

pci_config_write(dev, reg, value) ==
    \/ \E b \in BarNumbers :
          /\ reg = PCI_BAR(b)
          /\ config_write_default(dev, b, value) \/ virtio_pci_config_write(dev, b, value)
          /\ placed' = [placed EXCEPT ![dev] = PlacedByGuest(dev, b, value)]
    \/ reg = PCI_COMMAND /\ UNCHANGED <<bars, config, placed>>

(* The guest writes to the data port. *)
pci_handle_io(value) ==
    LET found == find_device_by_bdf(config_address.bdf)
    IN  /\ IF config_address.enable /\ found # {}
           THEN \E dev \in found : pci_config_write(dev, config_address.reg, value)
           ELSE UNCHANGED <<bars, config, placed>>
        /\ UNCHANGED <<devices, config_address>>

PciNext ==
    \/ \E dev \in PciDevices : pci_register_device(dev) \/ pci_unregister_device(dev)
    \/ \E dev \in PciDevices, b \in BarNumbers : \E kind \in BarKinds[dev][b] : pci_setup_bar(dev, b, kind)
    \/ \E enable \in BOOLEAN, bdf \in PciDevices, reg \in Registers :
          WriteConfigAddress(enable, bdf, reg)
    \/ \E value \in Values : pci_handle_io(value)

PciSpec == pci_init /\ [][PciNext]_pci_vars

-----------------------------------------------------------------------------
(* Properties. *)

(* What a guest may read of a BAR. *)
Readable(value, bar) == value = size_mask(bar) \/ Align(value, bar.size) = Low32(bar.base)

(* The address a BAR was placed at, in 64 bits. *)
Address(p) == p.high * (ALL + 1) + p.low

(* A BAR of a device that is left to the bus is decoded where the device put it
   until the guest places it, and from then on where the guest last placed it,
   modulo 4G and on its natural boundary, through any number of sizings,
   registrations and writes to other registers and devices: the upper half of a
   64-bit BAR, which the code does not store, is what modulo 4G leaves out.  What
   the guest reads of it is that place, or the size it has just asked for.  A
   virtio device is decoded where it put itself, wherever the guest places it
   (config_write_default, pci_register_device and virtio_pci_config_write). *)
BarFollowsGuest ==
    \A dev \in PciDevices, b \in BarNumbers :
        LET bar == bars[dev][b]
            p == placed[dev][b]
        IN  bar.size # 0 =>
               /\ bar.base = IF p.moved /\ dev \notin VirtioDevices
                             THEN Align(Low32(Address(p)), bar.size) ELSE p.home
               /\ Contains(devices, dev) /\ dev \notin VirtioDevices =>
                     Readable(config[dev][b], bar)
=============================================================================
