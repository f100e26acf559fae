------------------------------ MODULE MCMachine ------------------------------
(***************************************************************************)
(* Devices and processors, one part to a behaviour: which one runs is      *)
(* chosen at the start and the others stand still.                         *)
(*                                                                         *)
(*   "streams" a network device with frames of two symbols, header and     *)
(*             buffers that cut them or not, or a console whose input      *)
(*             buffer holds two symbols and is read one at a time; queues  *)
(*             of two descriptors, indexes modulo four                     *)
(*   "pci"     a device with a 64-bit BAR and a virtio device              *)
(*   "smp"     three processors                                            *)
(*   "vmx"     ten pages, two vCPUs, three kinds of processor              *)
(*   "exits"   registers of sixteen values                                 *)
(*   "ept"     four guest pages, tables of two entries, three page sizes   *)
(***************************************************************************)
EXTENDS VirtioStream, Pci, Smp, Vmx, VmExit, Ept, TLC

CONSTANTS a, b, h

SomeFrames == {<<a, b>>}
SomeChains == {<<<<h>>, <<b>>>>}
SomeSizes == [net |-> {2, 3}, console |-> {1}]

VARIABLE part

SomePages == 0 .. 3
SomePerms == {{"R", "W"}, {}}

\* Bounds: pages lost by failed creations of vCPUs, and pages that others take
\* at a time (the refusals of vcpu_create stand for those who take all).
MaxLeaked == 1
MaxTaken == 2

IoBar == [base |-> 64, size |-> 8, is_io |-> TRUE, is_64bit |-> FALSE, prefetchable |-> FALSE]
MemBar == [base |-> 384, size |-> 32, is_io |-> FALSE, is_64bit |-> TRUE, prefetchable |-> TRUE]
SomeBars == [d \in {0, 1} |-> [n \in {0, 1} |->
                CASE n = 1 -> {} [] d = 0 /\ n = 0 -> {MemBar} [] OTHER -> {IoBar}]]

Range2(lower, upper) == [allowed0 |-> lower, allowed1 |-> upper]
ProcControls == {"HLT_EXIT", "IO_BITMAP", "MSR_BITMAP"}
Processor(fixed, proc, proc2, efer) ==
    [pin |-> Range2(fixed, {"EXT_INT_EXIT", "NMI_EXIT"} \cup fixed),
     proc |-> Range2(fixed, ProcControls \cup {"default1"} \cup proc),
     proc2 |-> Range2({}, proc2),
     exit |-> Range2(fixed, {"HOST_ADDR_SPACE"} \cup efer \cup fixed),
     entry |-> Range2(fixed, efer \cup fixed)]
Efer == {"SAVE_EFER", "LOAD_EFER"}
Processors ==
    {Processor({"default1"}, {}, {}, {}),
     Processor({}, {"SECONDARY"}, {"EPT", "UNRESTRICTED_GUEST"}, Efer),
     Processor({"default1"}, {"SECONDARY"}, {"EPT"}, Efer)}

MCInit ==
    /\ part \in {"streams", "pci", "smp", "vmx", "exits", "ept"}
    /\ Init /\ pci_init /\ SmpInit /\ VmxInit /\ ExitInit /\ EptInit
    /\ part # "streams" => kind = "net"
    /\ part # "vmx" => hw = CHOOSE p \in Processors : TRUE

StreamStep == /\ part = "streams" /\ Next
              /\ UNCHANGED <<part, pci_vars, smp_vars, vmx_vars, exit_vars, ept_vars>>
PciStep == /\ part = "pci" /\ PciNext
           /\ UNCHANGED <<part, vars, smp_vars, vmx_vars, exit_vars, ept_vars>>
\* Bound: the lock is used when every processor has been started, or given up.
SmpStep == /\ part = "smp" /\ SmpNext
           /\ bsp.i < cpu_count => UNCHANGED <<locking, level>>
           /\ UNCHANGED <<part, vars, pci_vars, vmx_vars, exit_vars, ept_vars>>
VmxStep == /\ part = "vmx" /\ VmxNext
           /\ Cardinality(leaked') <= MaxLeaked /\ Cardinality(others') <= MaxTaken
           /\ UNCHANGED <<part, vars, pci_vars, smp_vars, exit_vars, ept_vars>>
ExitStep == /\ part = "exits" /\ ExitNext
            /\ UNCHANGED <<part, vars, pci_vars, smp_vars, vmx_vars, ept_vars>>
\* Bound: pages are mapped readable, and made unreadable afterwards.
EptStep == /\ part = "ept" /\ EptNext
           /\ ept_call'.op \in {"map", "range"} => ept_call'.perm # {}
           /\ UNCHANGED <<part, vars, pci_vars, smp_vars, vmx_vars, exit_vars>>

MCNext == StreamStep \/ PciStep \/ SmpStep \/ VmxStep \/ ExitStep \/ EptStep

MCSpec == MCInit /\ [][MCNext]_<<part, vars, pci_vars, smp_vars, vmx_vars, exit_vars, ept_vars>>

\* Which queue is selected matters while one of them is not set up.  A reset
\* leaves the backlog only, and the run meets every backlog with either queue
\* selected.
Selected == IF \A q \in Queue : vqs[q].enabled THEN Nil ELSE queue_sel
StreamState == <<kind, vqs, Selected, isr_status, phase, packets, input, ring, drv, owed>>

\* Only the variables of the part that runs change.  An exit overwrites the
\* general registers and the description of the last one, so that all that
\* matters of them is whether they were right; the call just made to the
\* extended page tables has no effect on what follows.
Running == CASE part = "streams" -> <<part, StreamState>>
             [] part = "pci" -> <<part, pci_vars>>
             [] part = "smp" -> <<part, smp_vars>>
             [] part = "vmx" -> <<part, vmx_vars>>
             [] part = "exits" ->
                  <<part, s.vmcs.field, s.vmcs.shadow, written, lost, GuestSeesItsProgram>>
             [] part = "ept" -> <<part, pml4, ept_mem, view>>
=============================================================================
