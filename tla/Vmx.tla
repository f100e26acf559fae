-------------------------------- MODULE Vmx ----------------------------------
(***************************************************************************)
(* VT-x on the boot CPU (src/vmm/vmx.c) and the virtual CPUs' memory and   *)
(* control structures (src/vmm/vcpu.c), up to the first entry of a guest.  *)
(*                                                                         *)
(* No code writes the host's RIP and RSP into a VMCS, so a VM entry that   *)
(* succeeds does not come back to the hypervisor: the model ends there.    *)
(* What the exit path would do is the subject of VmExit.                   *)
(*                                                                         *)
(* Control words are sets of control bits.  Firmware chooses the feature   *)
(* control register, the processor what it can do; other users of memory   *)
(* take pages and return them between the calls and, on other CPUs, also   *)
(* between the allocations of one call.                                    *)
(***************************************************************************)
EXTENDS Integers, FiniteSetsExt

CONSTANTS
    Pages,          \* pages the physical memory manager has to give
    Vcpu,
    Capabilities    \* processors: for each group, allowed0 and allowed1

Groups == {"pin", "proc", "proc2", "exit", "entry"}

\* Page 0 is the failed allocation.  Of a processor: what must be on may be on,
\* it has a 64-bit mode, and unrestricted guests only with EPT.
ASSUME VmxConstants ==
    /\ Pages \subseteq Nat \ {0}
    /\ \A c \in Capabilities :
          /\ DOMAIN c = Groups
          /\ \A g \in Groups : c[g].allowed0 \subseteq c[g].allowed1
          /\ "HOST_ADDR_SPACE" \in c["exit"].allowed1
          /\ "UNRESTRICTED_GUEST" \in c["proc2"].allowed1 => "EPT" \in c["proc2"].allowed1

VARIABLES
    msr,            \* IA32_FEATURE_CONTROL: locked, vmx
    hw,             \* the processor's capability registers
    vmx_caps,       \* the program's copy, NoCaps until vmx_init
    cpu,            \* CR4.VMXE, VMX operation, the current VMCS, the mode
    free, others,   \* pages that are free, and pages in use elsewhere
    leaked,         \* history: the pages of failed creations that nobody can return
    vcpus,          \* the vCPUs that exist
    vmcs            \* contents of the pages used as VMCS

vmx_vars == <<msr, hw, vmx_caps, cpu, free, others, leaked, vcpus, vmcs>>

NoCaps == [g \in Groups |-> [allowed0 |-> {}, allowed1 |-> {}]]
NoVcpu == [i \in {} |-> 0]
NotSetUp == [i \in {} |-> {}]
Exists(v) == vcpus[v] # NoVcpu
InKernel == cpu.mode = "kernel"

VmxInit ==
    /\ msr \in [locked : BOOLEAN, vmx : BOOLEAN]
    /\ hw \in Capabilities
    /\ vmx_caps = NoCaps
    /\ cpu = [vmxe |-> FALSE, vmxon |-> FALSE, current |-> 0, mode |-> "kernel"]
    /\ free = Pages
    /\ others = {}
    /\ leaked = {}
    /\ vcpus = [v \in Vcpu |-> NoVcpu]
    /\ vmcs = [p \in Pages |-> NotSetUp]

\* The processor keeps the current VMCS, whatever becomes of its page; what
\* lies in pages that are no VMCS any more counts for nothing.
Remembered(m, c, vs) ==
    LET live == {c.current} \cup {vs[v].regions.vmcs : v \in {v \in Vcpu : vs[v] # NoVcpu}}
    IN  [p \in Pages |-> IF p \in live THEN m[p] ELSE NotSetUp]

-----------------------------------------------------------------------------
(* vmx.c. *)

Initialized == vmx_caps # NoCaps

vmx_is_supported == ~ (msr.locked /\ ~msr.vmx)

\* What vmx_init reads; without secondary controls their words stay zero.
ReadCapabilities(c) ==
    IF "SECONDARY" \in c["proc"].allowed1 THEN c ELSE [c EXCEPT !["proc2"] = NoCaps["proc2"]]

vmx_init ==
    /\ InKernel /\ ~Initialized /\ vmx_is_supported
    /\ msr' = IF msr.locked THEN msr ELSE [locked |-> TRUE, vmx |-> TRUE]
    /\ vmx_caps' = ReadCapabilities(hw)
    /\ UNCHANGED <<hw, cpu, free, others, leaked, vcpus, vmcs>>

\* VMXON fails on a CPU that is already in VMX operation.  The caller owns
\* the VMXON page.
vmx_enable_cpu ==
    /\ InKernel /\ Initialized
    /\ cpu' = [cpu EXCEPT !.vmxe = TRUE, !.vmxon = TRUE]
    /\ UNCHANGED <<msr, hw, vmx_caps, free, others, leaked, vcpus, vmcs>>

\* Outside VMX operation VMXOFF would be an invalid instruction.
vmx_disable_cpu ==
    /\ InKernel /\ cpu.vmxon
    /\ cpu' = [cpu EXCEPT !.vmxe = FALSE, !.vmxon = FALSE, !.current = 0]
    /\ vmcs' = Remembered(vmcs, cpu', vcpus)
    /\ UNCHANGED <<msr, hw, vmx_caps, free, others, leaked, vcpus>>

adjust_controls_only_clears(value, c) == value \cap c.allowed1
adjust_controls(value, c) == (value \cup c.allowed0) \cap c.allowed1

vmx_has(control) == control \in vmx_caps["proc2"].allowed1

-----------------------------------------------------------------------------
(* vcpu.c. *)

Regions == {"vmxon", "vmcs", "io_a", "io_b", "msr"}

\* Which page an allocation returns is of no consequence here.  It also fails
\* while other CPUs hold the last pages, however many are free before and after.
pmm_alloc_page(pool, granted) == IF granted /\ pool # {} THEN Min(pool) ELSE 0

\* The five allocations, in order, as far as they are made: both I/O bitmaps are
\* asked for before either is tested.  `granted' are those not refused for want
\* of what other CPUs hold at that moment.
Obtained(pool, granted) ==
    LET vmxon == pmm_alloc_page(pool, "vmxon" \in granted)
        one == pool \ {vmxon}
        region == pmm_alloc_page(one, vmxon # 0 /\ "vmcs" \in granted)
        two == one \ {region}
        io_a == pmm_alloc_page(two, region # 0 /\ "io_a" \in granted)
        three == two \ {io_a}
        io_b == pmm_alloc_page(three, region # 0 /\ "io_b" \in granted)
    IN  [vmxon |-> vmxon, vmcs |-> region, io_a |-> io_a, io_b |-> io_b,
         msr |-> pmm_alloc_page(three \ {io_b}, io_a # 0 /\ io_b # 0 /\ "msr" \in granted)]

\* The clean-up labels, each falling through to the next.
fail_vmxon(p) == {}
fail_vmcs(p) == {p.vmxon} \cup fail_vmxon(p)
fail_io(p) == ({p.io_a} \ {0}) \cup {p.vmcs} \cup fail_vmcs(p)
fail_msr_at_io(p) == fail_io(p)
fail_msr(p) == ({p.io_b} \ {0}) \cup fail_io(p)

Cleanup(p) ==
    CASE p.vmxon = 0 -> fail_vmxon(p)
      [] p.vmxon # 0 /\ p.vmcs = 0 -> fail_vmcs(p)
      [] p.vmcs # 0 /\ (p.io_a = 0 \/ p.io_b = 0) -> fail_io(p)
      [] OTHER -> fail_msr(p)

PagesOf(p) == {p[r] : r \in Regions} \ {0}

\* Label fail_io takes a missing first bitmap to mean that there is no second.
LostBitmap(p) == IF p.io_a = 0 THEN {p.io_b} \ {0} ELSE {}

vcpu_create(v) ==
    /\ InKernel /\ ~Exists(v)
    /\ \E p \in {Obtained(free, granted) : granted \in SUBSET Regions} :
         IF p.msr # 0
         THEN /\ vcpus' = [vcpus EXCEPT ![v] =
                     [regions |-> p, state |-> "CREATED", launched |-> FALSE]]
              /\ free' = free \ PagesOf(p)
              /\ vmcs' = [vmcs EXCEPT ![p.vmcs] = IF p.vmcs = cpu.current THEN @ ELSE NotSetUp]
              /\ UNCHANGED leaked
         ELSE /\ free' = (free \ PagesOf(p)) \cup Cleanup(p)
              /\ leaked' = leaked \cup LostBitmap(p)
              /\ UNCHANGED <<vcpus, vmcs>>
    /\ UNCHANGED <<msr, hw, vmx_caps, cpu, others>>

\* The VMCS is not cleared first: it stays current when it was.
vcpu_destroy(v) ==
    /\ InKernel /\ Exists(v)
    /\ free' = free \cup PagesOf(vcpus[v].regions)
    /\ vcpus' = [vcpus EXCEPT ![v] = NoVcpu]
    /\ vmcs' = Remembered(vmcs, cpu, vcpus')
    /\ UNCHANGED <<msr, hw, vmx_caps, cpu, others, leaked>>

setup_execution_controls ==
    [g \in Groups |->
        adjust_controls(
            CASE g = "pin" -> {"EXT_INT_EXIT", "NMI_EXIT"}
              [] g = "proc" -> {"HLT_EXIT", "IO_BITMAP", "MSR_BITMAP", "SECONDARY"}
              [] g = "proc2" -> {c \in {"EPT", "UNRESTRICTED_GUEST"} : vmx_has(c)}
              [] g = "exit" -> {"HOST_ADDR_SPACE", "SAVE_EFER", "LOAD_EFER", "ACK_INT"}
              [] g = "entry" -> {"LOAD_EFER"},
            vmx_caps[g])]

\* VMCLEAR, VMPTRLD and the writes of setup_host_state,
\* setup_guest_state_real_mode and setup_execution_controls.  vcpu->launched
\* and vcpu->state stay.
vcpu_init_vmcs(v) ==
    /\ InKernel /\ Exists(v) /\ cpu.vmxon
    /\ cpu' = [cpu EXCEPT !.current = vcpus[v].regions.vmcs]
    /\ vmcs' = Remembered([vmcs EXCEPT ![vcpus[v].regions.vmcs] = setup_execution_controls], cpu', vcpus)
    /\ UNCHANGED <<msr, hw, vmx_caps, free, others, leaked, vcpus>>

\* What the processor demands of the controls at VM entry.
LegalControls(c) ==
    /\ \A g \in Groups \ {"proc2"} : hw[g].allowed0 \subseteq c[g] /\ c[g] \subseteq hw[g].allowed1
    /\ "SECONDARY" \in c["proc"] =>
          /\ hw["proc2"].allowed0 \subseteq c["proc2"] /\ c["proc2"] \subseteq hw["proc2"].allowed1
          /\ "UNRESTRICTED_GUEST" \in c["proc2"] => "EPT" \in c["proc2"]
    /\ "HOST_ADDR_SPACE" \in c["exit"]

\* The entry is that of whatever VMCS is current.  It fails without one, with
\* illegal controls, and where the guest state or the EPT pointer is refused,
\* about which the model says nothing.  launched is set only after an entry
\* has come back, so every entry is a VMLAUNCH.
vcpu_run(v) ==
    /\ InKernel /\ Exists(v) /\ cpu.vmxon
    /\ vcpus' = [vcpus EXCEPT ![v].state = "RUNNING"]
    /\ \/ UNCHANGED cpu
       \/ /\ cpu.current # 0 /\ vmcs[cpu.current] # NotSetUp
          /\ LegalControls(vmcs[cpu.current])
          /\ cpu' = [cpu EXCEPT !.mode = "guest"]
    /\ UNCHANGED <<msr, hw, vmx_caps, free, others, leaked, vmcs>>

-----------------------------------------------------------------------------
(* The other users of the physical memory manager. *)

\* They take any number of pages at a time and return them all together.
TakePages ==
    /\ InKernel /\ others = {}
    /\ \E first \in free :
          LET taken == {p \in free : p >= first}
          IN  others' = others \cup taken /\ free' = free \ taken
    /\ UNCHANGED <<msr, hw, vmx_caps, cpu, leaked, vcpus, vmcs>>

ReturnPages ==
    /\ InKernel /\ others # {}
    /\ others' = {} /\ free' = free \cup others
    /\ UNCHANGED <<msr, hw, vmx_caps, cpu, leaked, vcpus, vmcs>>

\* The guest runs; how it comes back is in VmEntry.
InGuest == ~InKernel /\ UNCHANGED vmx_vars

VmxNext ==
    \/ vmx_init \/ vmx_enable_cpu \/ vmx_disable_cpu
    \/ \E v \in Vcpu : vcpu_create(v) \/ vcpu_destroy(v) \/ vcpu_init_vmcs(v) \/ vcpu_run(v)
    \/ TakePages \/ ReturnPages \/ InGuest

VmxSpec == VmxInit /\ [][VmxNext]_vmx_vars

-----------------------------------------------------------------------------
(* Properties. *)

\* Whatever the firmware left and the processor can do, the processor accepts
\* what it is given: VMXON is executed with VMXE set and the feature control
\* register locked with VMX on, and a VMCS that was set up passes the checks of
\* its controls: nothing that must be on is off, nothing that must be off is on,
\* and an unrestricted guest has EPT (vmx_init, setup_execution_controls).
ControlsAccepted ==
    /\ cpu.vmxon => cpu.vmxe /\ msr.locked /\ msr.vmx
    /\ \A v \in Vcpu : Exists(v) =>
           LET c == vmcs[vcpus[v].regions.vmcs] IN c = NotSetUp \/ LegalControls(c)

PagesOfVcpu(v) == IF Exists(v) THEN PagesOf(vcpus[v].regions) ELSE {}

\* Every page has one place: it is free, in use elsewhere, or in one role of one
\* vCPU, also after creations that failed at any of their five allocations, with
\* one exception: a second I/O bitmap obtained when the first was refused has no
\* owner any more (vcpu_create, vcpu_destroy).
VcpuPagesAccounted ==
    LET all == UNION {PagesOfVcpu(v) : v \in Vcpu}
    IN  /\ free \cup others \cup all \cup leaked = Pages
        /\ free \cap others = {} /\ (free \cup others) \cap all = {}
        /\ leaked \cap (free \cup others \cup all) = {}
        /\ \A v, w \in Vcpu : v # w => PagesOfVcpu(v) \cap PagesOfVcpu(w) = {}
        /\ \A v \in Vcpu : Exists(v) =>
              \A r, q \in Regions : vcpus[v].regions[r] = vcpus[v].regions[q] => r = q
=============================================================================
