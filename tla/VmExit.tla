------------------------------- MODULE VmExit --------------------------------
(***************************************************************************)
(* The handlers of VM exits (src/vmm/vmexit.c): how the instructions of a  *)
(* guest that trap are emulated.                                           *)
(*                                                                         *)
(* An exit arrives with the guest's registers and the exit information in  *)
(* the vCPU, as the handlers expect; VmEntry shows what the entry and exit *)
(* code makes of that.  A register holds HALF * HALF values, HALF standing *)
(* for 2^32 and BYTE for the 2^8 of a one-byte port.  In CR0 and CR4 the   *)
(* low half stands for the bits the guest/host masks give to the host:     *)
(* those the guest reads from the shadows, and changes through an exit.    *)
(***************************************************************************)
EXTENDS Integers

CONSTANTS
    HALF, BYTE,
    Inputs,         \* register values a guest uses
    GuestCrs,       \* the control registers and MSRs it uses
    GuestMsrs

VARIABLES
    s,              \* the vCPU and its VMCS: regs, state, vmcs
    exit,           \* the last exit: reason, qual, and the handler's answer
    written,        \* history: the last write to each register that is carried out
    lost            \* history: registers with a later write that was dropped

exit_vars == <<s, exit, written, lost>>

Reg == {"rax", "rbx", "rcx", "rdx"}
Ones == HALF * HALF - 1
Low(w) == w % HALF
High(w) == w \div HALF

\* Registers of the guest that the handlers keep in the VMCS.
ControlReg == {"CR0", "CR3", "CR4"}
StoredMsr == {"EFER", "FS_BASE", "GS_BASE"}
Msr == StoredMsr \cup {"APIC_BASE", "UNKNOWN"}
Stored == ControlReg \cup StoredMsr
Register == ControlReg \cup Msr

ASSUME ExitConstants ==
    /\ HALF \in Nat \ {0, 1} /\ BYTE \in Nat \ {0} /\ Inputs \subseteq 0 .. Ones
    /\ GuestCrs \subseteq ControlReg /\ GuestMsrs \subseteq Msr

\* The number by which rcx names an MSR, and the value of APIC_BASE.
MsrNumber == [EFER |-> 1, FS_BASE |-> 2, GS_BASE |-> 3, APIC_BASE |-> 4, UNKNOWN |-> 0]
ApicBase == 1
MsrOf(w) == IF \E m \in Msr : MsrNumber[m] = w THEN CHOOSE m \in Msr : MsrNumber[m] = w ELSE "UNKNOWN"

\* setup_guest_state_real_mode.
ExitInit ==
    /\ s = [regs |-> [r \in Reg |-> 0], state |-> "RUNNING",
            vmcs |-> [field |-> [x \in Stored |-> IF x \in {"CR0", "CR4"} THEN 1 ELSE 0],
                      shadow |-> [x \in {"CR0", "CR4"} |-> 0], advanced |-> FALSE]]
    /\ exit = [reason |-> "EXTERNAL_INT", qual |-> 0, ret |-> 0]
    /\ written = [x \in Register |-> IF x = "APIC_BASE" THEN ApicBase ELSE 0]
    /\ lost = {}

-----------------------------------------------------------------------------
(* The handlers; each takes the vCPU t and yields it and the return value. *)

Done(t, r) == [vcpu |-> t, ret |-> r]

\* RIP is abstracted to whether it has moved past the instruction.
advance_guest_rip(t) == [t EXCEPT !.vmcs.advanced = TRUE]
Emulated(t) == Done(advance_guest_rip(t), 0)

\* The answer, the processor's or one of the hypervisor's own leaves, is not
\* looked into.
handle_cpuid(t, answer) == Emulated([t EXCEPT !.regs = answer])

handle_hlt(t) == Emulated([t EXCEPT !.state = "HALTED"])

\* Ports read as zero or as all ones, into the low part of rax.
low_part(size) == IF size = 1 THEN BYTE ELSE HALF
handle_io(t, q) ==
    LET unit == low_part(q.size)
        kept == (t.regs["rax"] \div unit) * unit
    IN  Emulated(IF q.in THEN [t EXCEPT !.regs["rax"] = kept + (q.value % unit)] ELSE t)

handle_rdmsr_value(t) ==
    LET m == MsrOf(t.regs["rcx"])
    IN  CASE m \in StoredMsr -> t.vmcs.field[m]
          [] m = "APIC_BASE" -> ApicBase
          [] m = "UNKNOWN" -> 0
handle_rdmsr(t) ==
    Emulated([t EXCEPT !.regs["rax"] = Low(handle_rdmsr_value(t)),
                       !.regs["rdx"] = High(handle_rdmsr_value(t))])

handle_wrmsr(t) ==
    LET m == MsrOf(t.regs["rcx"])
        value == Low(t.regs["rdx"]) * HALF + Low(t.regs["rax"])
    IN  Emulated(IF m \in StoredMsr THEN [t EXCEPT !.vmcs.field[m] = value] ELSE t)

\* MOV to and from CR0, CR3 and CR4; other accesses, which are LMSW and CLTS,
\* only move RIP: CR0 stays as it is.  Of the sixteen registers two stand for
\* all; rsp, which the guest keeps in the VMCS and the handler takes from the
\* vCPU, is left out.
mov_to_cr_unshadowed(t, cr, value) == [t EXCEPT !.vmcs.field[cr] = value]
mov_to_cr(t, cr, value) ==
    [t EXCEPT !.vmcs.field[cr] = value,
              !.vmcs.shadow = IF cr \in {"CR0", "CR4"} THEN [@ EXCEPT ![cr] = value] ELSE @]
handle_cr_access(t, q) ==
    Emulated(CASE q.type = "to" -> mov_to_cr(t, q.cr, t.regs[q.reg])
               [] q.type = "from" -> [t EXCEPT !.regs[q.reg] = t.vmcs.field[q.cr]]
               [] q.type = "other" -> t)

handle_ept_violation(t) == Done(t, -1)

handle_vmcall(t) ==
    Emulated(CASE t.regs["rax"] = 0 -> t
               [] t.regs["rax"] = 1 -> [t EXCEPT !.regs["rax"] = 2, !.regs["rbx"] = HALF]
               [] OTHER -> [t EXCEPT !.regs["rax"] = Ones])

vmexit_handler(t, reason, q) ==
    CASE reason = "CPUID" -> handle_cpuid(t, q)
      [] reason = "HLT" -> handle_hlt(t)
      [] reason = "IO_INSTR" -> handle_io(t, q)
      [] reason = "RDMSR" -> handle_rdmsr(t)
      [] reason = "WRMSR" -> handle_wrmsr(t)
      [] reason = "CR_ACCESS" -> handle_cr_access(t, q)
      [] reason = "EPT_VIOLATION" -> handle_ept_violation(t)
      [] reason = "VMCALL" -> handle_vmcall(t)
      [] reason = "EXTERNAL_INT" -> Done(t, 0)
      [] OTHER -> Done(t, -1)

-----------------------------------------------------------------------------
(* The guest. *)

Quals(reason) ==
    CASE reason = "CPUID" -> {[r \in Reg |-> w] : w \in {0, HALF - 1}}
      [] reason = "IO_INSTR" -> [value : {0, Ones}, in : BOOLEAN, size : {1, 4}]
      [] reason = "CR_ACCESS" ->
            [type : {"to", "from"}, cr : GuestCrs, reg : {"rax", "rbx"}]
            \cup [type : {"other"}, cr : {"CR0"}, reg : {"rax"}]
      [] OTHER -> {0}

\* Instructions of the guest and events that exit, and whether RIP must move.
Instructions == {"CPUID", "HLT", "IO_INSTR", "RDMSR", "WRMSR", "CR_ACCESS", "VMCALL"}
Reasons == Instructions \cup {"EPT_VIOLATION", "EXTERNAL_INT", "TRIPLE_FAULT", "RDTSC"}

\* What an instruction writes, and whether the handlers carry it out: LMSW, CLTS
\* and WRMSR of other registers than the three stored ones are dropped.
Writes(reason, q, regs) ==
    CASE reason = "WRMSR" -> {MsrOf(regs["rcx"])}
      [] reason = "CR_ACCESS" -> IF q.type = "from" THEN {} ELSE {q.cr}
      [] OTHER -> {}
CarriedOut(reason, q, regs) ==
    IF reason = "WRMSR" THEN MsrOf(regs["rcx"]) \in StoredMsr ELSE q.type = "to"

ValueWritten(reason, q, regs) ==
    IF reason = "WRMSR" THEN Low(regs["rdx"]) * HALF + Low(regs["rax"]) ELSE regs[q.reg]

Noted(reason, q, regs) ==
    LET x == Writes(reason, q, regs)
    IN  IF x # {} /\ CarriedOut(reason, q, regs)
        THEN /\ written' = [y \in Register |->
                              IF y \in x THEN ValueWritten(reason, q, regs) ELSE written[y]]
             /\ lost' = lost \ x
        ELSE /\ lost' = lost \cup x
             /\ UNCHANGED written

\* The guest sets its registers, and something exits.
VmExitOf(reason) ==
    \E q \in Quals(reason), a, d \in Inputs, m \in GuestMsrs :
       LET regs == [rax |-> a, rbx |-> d, rcx |-> MsrNumber[m], rdx |-> d]
           entered == [s EXCEPT !.regs = regs, !.state = "RUNNING", !.vmcs.advanced = FALSE]
           done == vmexit_handler(entered, reason, q)
       IN  /\ s' = done.vcpu
           /\ exit' = [reason |-> reason, qual |-> q, ret |-> done.ret]
           /\ Noted(reason, q, regs)

\* A MOV to CR0 or CR4 that leaves the host's bits as the guest sees them does
\* not exit: the processor changes the register, not its shadow.
MovToCrInGuest ==
    \E cr \in GuestCrs \cap {"CR0", "CR4"}, w \in Inputs :
       /\ Low(w) = Low(s.vmcs.shadow[cr])
       /\ s' = [s EXCEPT !.vmcs.field[cr] = High(w) * HALF + Low(@)]
       /\ written' = [written EXCEPT ![cr] = w]
       /\ lost' = lost \ {cr}
       /\ UNCHANGED exit

ExitNext == (\E reason \in Reasons : VmExitOf(reason)) \/ MovToCrInGuest

ExitSpec == ExitInit /\ [][ExitNext]_exit_vars

-----------------------------------------------------------------------------
(* Properties. *)

\* What the processor shows the guest of CR0 and CR4.
Visible(cr) == High(s.vmcs.field[cr]) * HALF + Low(s.vmcs.shadow[cr])

\* The registers whose writes the handlers drop: CR0 at an LMSW or a CLTS, and
\* all MSRs but EFER, FS_BASE and GS_BASE.
Droppable == {"CR0"} \cup (Msr \ StoredMsr)

\* The guest sees its own program, as far as the handlers carry it out.  A
\* register that is not in `lost' holds what the guest last put there, whatever
\* came between: CR0 and CR4 through the shadows (with writes that exit and
\* writes that do not), CR3 and the MSRs through further exits, an MSR's halves
\* in rdx and rax.  A write that is dropped, which happens to droppable registers
\* only, leaves what was there before it.  An instruction that was emulated is
\* over and is not executed again; an interrupt, a fault or a failure leaves the
\* guest where it was (handle_cr_access, handle_wrmsr, handle_rdmsr,
\* advance_guest_rip).
GuestSeesItsProgram ==
    /\ lost \subseteq Droppable
    /\ \A cr \in {"CR0", "CR4"} : Visible(cr) = written[cr]
    /\ exit.reason = "RDMSR" =>
          s.regs["rdx"] * HALF + s.regs["rax"] = written[MsrOf(s.regs["rcx"])]
    /\ exit.reason = "CR_ACCESS" =>
          (exit.qual.type = "from" /\ exit.qual.cr = "CR3"
              => s.regs[exit.qual.reg] = written["CR3"])
    /\ s.vmcs.advanced <=> (exit.ret = 0 /\ exit.reason \in Instructions)
=============================================================================
