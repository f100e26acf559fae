------------------------------- MODULE VmEntry -------------------------------
(***************************************************************************)
(* Running a vCPU: vcpu_run (src/vmm/vcpu.c), the entry and exit code in   *)
(* assembly (src/vmm/vmx_asm.S) and the dispatch of vmexit_handler.        *)
(*                                                                         *)
(* The caller has set up the VMCS and, as a comment of setup_host_state    *)
(* asks, pointed the host's RIP at vmx_vmexit_handler with the stack as it *)
(* is at the entry.  The assembly moves the guest's registers to and from  *)
(* the first words of vcpu_t, which are not vcpu_t.regs: Word lists what   *)
(* lies there.                                                             *)
(***************************************************************************)
EXTENDS Integers, Sequences

CONSTANTS
    Values,         \* what registers and pointers hold
    ExitReasons     \* exits a guest can cause, without the 0 of a new vCPU

VARIABLES
    word,           \* the words of vcpu_t that assembly and C share
    info,           \* the rest of it: launched, exit_reason, exit_count, failures
    vmcs,           \* launch state, and the reason of the last exit
    guest,          \* the guest's general registers
    at,             \* where control is
    ret             \* what vcpu_run returned, and of which exit

vars == <<word, info, vmcs, guest, at, ret>>

\* In the order of their offsets.
Gpr == <<"rax", "rbx", "rcx", "rdx", "rsi", "rdi", "rbp", "r8",
         "r9", "r10", "r11", "r12", "r13", "r14", "r15">>
Word == <<"ids", "state", "vmxon_region", "vmcs_region", "vmxon_phys", "vmcs_phys">>
        \o SubSeq(Gpr, 1, 9)

Names(seq) == {seq[i] : i \in DOMAIN seq}
Position(seq, name) == CHOOSE i \in DOMAIN seq : seq[i] = name

CREATED == 0
RUNNING == 1

Init ==
    /\ \E v \in Values : word = [w \in Names(Word) |-> IF w = "state" THEN CREATED ELSE v]
    /\ info = [launched |-> FALSE, exit_reason |-> 0, exit_count |-> 0, failures |-> 0]
    /\ vmcs = [launched |-> FALSE, exit_reason |-> 0]
    /\ guest = [r \in Names(Gpr) |-> 0]
    /\ at = "caller"
    /\ ret = [value |-> 0, exits |-> 0]

-----------------------------------------------------------------------------
\* vcpu_run up to VMLAUNCH or VMRESUME, each of which wants its launch state;
\* the registers have been loaded by then.
vcpu_run ==
    /\ at = "caller"
    /\ word' = [word EXCEPT !["state"] = RUNNING]
    /\ guest' = [r \in Names(Gpr) |-> word'[Word[Position(Gpr, r)]]]
    /\ at' = IF info.launched = vmcs.launched THEN "guest" ELSE "launch_failed"
    /\ vmcs' = [vmcs EXCEPT !.launched = @ \/ ~info.launched]
    /\ UNCHANGED <<info, ret>>

\* The guest computes, and exits: vmx_vmexit_handler stores its registers.
GuestExits ==
    /\ at = "guest"
    /\ \E r \in Names(Gpr), v \in Values : guest' = [guest EXCEPT ![r] = v]
    /\ \E reason \in ExitReasons : vmcs' = [vmcs EXCEPT !.exit_reason = reason]
    /\ word' = [w \in Names(Word) |-> guest'[Gpr[Position(Word, w)]]]
    /\ at' = "handler"
    /\ UNCHANGED <<info, ret>>

\* vmexit_handler, called by the assembly, goes by vcpu_t.exit_reason.  Reason
\* 0, an exception, has no handler.
vmexit_dispatch ==
    /\ at = "handler"
    /\ at' = IF info.exit_reason = 0 THEN "exit_error" ELSE "returned"
    /\ UNCHANGED <<word, info, vmcs, guest, ret>>

\* A non-zero result of the assembly is a failed entry to vcpu_run, whether
\* the processor refused it or the handler failed.
EntryFailed ==
    /\ at \in {"launch_failed", "exit_error"}
    /\ info' = [info EXCEPT !.failures = IF info.launched THEN @ ELSE @ + 1]
    /\ ret' = [value |-> -1, exits |-> IF at = "exit_error" THEN 1 ELSE 0]
    /\ at' = "done"
    /\ UNCHANGED <<word, vmcs, guest>>

EntryReturned ==
    /\ at = "returned"
    /\ info' = [info EXCEPT !.launched = TRUE, !.exit_reason = vmcs.exit_reason,
                            !.exit_count = @ + 1]
    /\ ret' = [value |-> vmcs.exit_reason, exits |-> 1]
    /\ at' = "done"
    /\ UNCHANGED <<word, vmcs, guest>>

CallAgain ==
    /\ at = "done"
    /\ info.failures < 2
    /\ at' = "caller"
    /\ UNCHANGED <<word, info, vmcs, guest, ret>>

Next ==
    \/ vcpu_run \/ GuestExits \/ vmexit_dispatch
    \/ EntryFailed \/ EntryReturned \/ CallAgain

Spec == Init /\ [][Next]_vars

-----------------------------------------------------------------------------
(* Properties. *)

\* vcpu_run returns the exit reason, as vcpu.h says: when the guest was
\* entered and has exited, the caller learns why.
ReturnsExitReason ==
    at = "done" /\ ret.exits = 1 => ret.value = vmcs.exit_reason
=============================================================================
