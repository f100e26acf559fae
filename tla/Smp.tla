-------------------------------- MODULE Smp ----------------------------------
(***************************************************************************)
(* Start-up of the application processors and the interrupt-safe lock      *)
(* (src/kernel/smp.c, include/kernel/smp.h).                               *)
(*                                                                         *)
(* The boot CPU starts the others one after the other and gives each a     *)
(* limited time; a CPU may come up at any moment after its STARTUP IPI,    *)
(* during the time, between the last look at its state and what follows,   *)
(* or afterwards, or never.  CPUs that run take the lock in ordinary code  *)
(* and in interrupt handlers.  Handlers are entered through interrupt      *)
(* gates, with interrupts off.                                             *)
(***************************************************************************)
EXTENDS Integers, FiniteSets

CONSTANTS cpu_count         \* processors smp_init assumes

VARIABLES
    state,          \* percpu_data[i].state
    online_cpus,
    ap_started,
    bsp,            \* smp_start_aps: step and loop variable
    ap,             \* each CPU: waiting, started, marked, running
    lock,           \* irqlock_t: locked, flags
    intr,           \* each CPU's interrupt flag
    level,          \* each CPU: 0 in ordinary code, 1 in a handler
    at,             \* step of the lock functions, by CPU and level
    flags,          \* their local variable
    wanted          \* history: interrupt flag as ordinary code set it

boot == <<state, online_cpus, ap_started, bsp, ap>>
locking == <<lock, at, flags>>
smp_vars == <<boot, locking, intr, level, wanted>>

CPU == 0 .. cpu_count - 1
Level == {0, 1}

\* At least the boot CPU is there.
ASSUME SmpConstants == cpu_count \in Nat \ {0}

\* smp_init: the boot CPU is online, the others are only assumed to exist.
SmpInit ==
    /\ state = [i \in CPU |-> IF i = 0 THEN "ONLINE" ELSE "OFFLINE"]
    /\ online_cpus = 1
    /\ ap_started = 0
    /\ bsp = [pc |-> "send", i |-> 1]
    /\ ap = [i \in CPU |-> IF i = 0 THEN "running" ELSE "waiting"]
    /\ lock = [locked |-> FALSE, flags |-> FALSE]
    /\ intr = [i \in CPU |-> FALSE]
    /\ level = [i \in CPU |-> 0]
    /\ at = [i \in CPU |-> [l \in Level |-> "out"]]
    /\ flags = [i \in CPU |-> [l \in Level |-> FALSE]]
    /\ wanted = [i \in CPU |-> FALSE]

-----------------------------------------------------------------------------
(* smp_start_aps on the boot CPU. *)

Goto(pc) == bsp' = [bsp EXCEPT !.pc = pc]
NextCpu == bsp' = [pc |-> "send", i |-> bsp.i + 1]

\* INIT, then two STARTUP IPIs.
SendStartup ==
    /\ bsp.pc = "send" /\ bsp.i < cpu_count
    /\ state' = [state EXCEPT ![bsp.i] = "STARTING"]
    /\ ap' = [ap EXCEPT ![bsp.i] = "started"]
    /\ Goto("wait")
    /\ UNCHANGED <<online_cpus, ap_started>>

\* The loop ends when the CPU is seen online or the time is over.
WaitForAp ==
    /\ bsp.pc = "wait"
    /\ Goto("test")
    /\ UNCHANGED <<state, online_cpus, ap_started, ap>>

TestAp ==
    /\ bsp.pc = "test"
    /\ Goto(IF state[bsp.i] = "ONLINE" THEN "count" ELSE "give_up")
    /\ UNCHANGED <<state, online_cpus, ap_started, ap>>

CountAp ==
    /\ bsp.pc = "count"
    /\ online_cpus' = online_cpus + 1
    /\ NextCpu
    /\ UNCHANGED <<state, ap_started, ap>>

GiveUp_counted ==
    /\ bsp.pc = "give_up"
    /\ online_cpus' = online_cpus + 1
    /\ NextCpu
    /\ UNCHANGED <<state, ap_started, ap>>
GiveUp ==
    /\ bsp.pc = "give_up"
    /\ state' = [state EXCEPT ![bsp.i] = "OFFLINE"]
    /\ NextCpu
    /\ UNCHANGED <<online_cpus, ap_started, ap>>

smp_start_aps == SendStartup \/ WaitForAp \/ TestAp \/ CountAp \/ GiveUp

\* ap_entry, until interrupts are on.
MarkOnline(i) ==
    /\ ap[i] = "started"
    /\ ap' = [ap EXCEPT ![i] = "marked"]
    /\ state' = [state EXCEPT ![i] = "ONLINE"]
    /\ UNCHANGED <<online_cpus, ap_started, bsp, intr, wanted>>
CountStarted(i) ==
    /\ ap[i] = "marked"
    /\ ap' = [ap EXCEPT ![i] = "running"]
    /\ ap_started' = ap_started + 1
    /\ intr' = [intr EXCEPT ![i] = TRUE]
    /\ wanted' = [wanted EXCEPT ![i] = TRUE]
    /\ UNCHANGED <<state, online_cpus, bsp>>
ap_entry(i) ==
    /\ MarkOnline(i) \/ CountStarted(i)
    /\ UNCHANGED <<locking, level>>

-----------------------------------------------------------------------------
(* irqlock_acquire and irqlock_release, by a CPU at its present level. *)

At(i, step) == ap[i] = "running" /\ at[i][level[i]] = step
GoTo(i, step) == at' = [at EXCEPT ![i][level[i]] = step]
Remember(i, f) == flags' = [flags EXCEPT ![i][level[i]] = f]
MyFlags(i) == flags[i][level[i]]

SaveFlags(i) ==
    /\ At(i, "out") /\ GoTo(i, "saved")
    /\ Remember(i, intr[i])
    /\ UNCHANGED <<lock, intr>>

Cli_missing(i) ==
    /\ At(i, "saved") /\ GoTo(i, "spinning")
    /\ UNCHANGED <<lock, flags, intr>>
Cli(i) ==
    /\ At(i, "saved") /\ GoTo(i, "spinning")
    /\ intr' = [intr EXCEPT ![i] = FALSE]
    /\ UNCHANGED <<lock, flags>>

spinlock_acquire(i) ==
    /\ At(i, "spinning") /\ GoTo(i, "locked")
    /\ ~lock.locked
    /\ lock' = [lock EXCEPT !.locked = TRUE]
    /\ UNCHANGED <<flags, intr>>

StoreFlags(i) ==
    /\ At(i, "locked") /\ GoTo(i, "inside")
    /\ lock' = [lock EXCEPT !.flags = MyFlags(i)]
    /\ UNCHANGED <<flags, intr>>

irqlock_acquire(i) == SaveFlags(i) \/ Cli(i) \/ spinlock_acquire(i) \/ StoreFlags(i)

LoadFlags(i) ==
    /\ At(i, "inside") /\ GoTo(i, "releasing")
    /\ Remember(i, lock.flags)
    /\ UNCHANGED <<lock, intr>>

spinlock_release(i) ==
    /\ At(i, "releasing") /\ GoTo(i, "restoring")
    /\ lock' = [lock EXCEPT !.locked = FALSE]
    /\ UNCHANGED <<flags, intr>>

RestoreFlags_from_lock(i) ==
    /\ At(i, "restoring") /\ GoTo(i, "out")
    /\ intr' = [intr EXCEPT ![i] = lock.flags]
    /\ Remember(i, FALSE)
    /\ UNCHANGED lock
RestoreFlags(i) ==
    /\ At(i, "restoring") /\ GoTo(i, "out")
    /\ intr' = [intr EXCEPT ![i] = MyFlags(i)]
    /\ Remember(i, FALSE)
    /\ UNCHANGED lock

irqlock_release(i) == LoadFlags(i) \/ spinlock_release(i) \/ RestoreFlags(i)

UseLock(i) ==
    /\ irqlock_acquire(i) \/ irqlock_release(i)
    /\ UNCHANGED <<boot, level, wanted>>

-----------------------------------------------------------------------------
(* The processor: interrupts, and code that switches them. *)

Interrupt(i) ==
    /\ ap[i] = "running" /\ intr[i] /\ level[i] = 0
    /\ level' = [level EXCEPT ![i] = 1]
    /\ intr' = [intr EXCEPT ![i] = FALSE]
    /\ UNCHANGED <<boot, locking, wanted>>

\* A handler that is out of the lock ends; what it interrupted had them on.
Iret(i) ==
    /\ level[i] = 1 /\ At(i, "out")
    /\ level' = [level EXCEPT ![i] = 0]
    /\ intr' = [intr EXCEPT ![i] = TRUE]
    /\ UNCHANGED <<boot, locking, wanted>>

SwitchInterrupts(i) ==
    /\ level[i] = 0 /\ At(i, "out")
    /\ intr' = [intr EXCEPT ![i] = ~@]
    /\ wanted' = [wanted EXCEPT ![i] = ~@]
    /\ UNCHANGED <<boot, locking, level>>

SmpNext ==
    \/ smp_start_aps /\ UNCHANGED <<locking, intr, level, wanted>>
    \/ \E i \in CPU \ {0} : ap_entry(i)
    \/ \E i \in CPU : UseLock(i) \/ Interrupt(i) \/ Iret(i) \/ SwitchInterrupts(i)

SmpSpec == SmpInit /\ [][SmpNext]_smp_vars

-----------------------------------------------------------------------------
(* Properties. *)

\* No more CPUs are counted as online than are online for good, marked by
\* themselves and by no later step of the boot CPU unmarked, although a CPU may
\* mark itself just as the boot CPU gives up on it (smp_start_aps, ap_entry).
\* Numbers are compared, not CPUs: the code keeps a count and no list. It may
\* stay too low: a CPU that comes up late is never counted.
OnlineIsBacked ==
    online_cpus <= Cardinality({i \in CPU : state[i] = "ONLINE" /\ ap[i] \in {"marked", "running"}})

Inside == {"locked", "inside", "releasing"}

\* One CPU at a time is in the lock, and no handler ever spins for a lock that
\* the code it interrupted holds or is about to get: the CPU would wait for
\* itself for ever (irqlock_acquire takes interrupts away before it spins).
LockSafe ==
    /\ Cardinality({h \in CPU \X Level : at[h[1]][h[2]] \in Inside}) <= 1
    /\ lock.locked <=> \E i \in CPU, l \in Level : at[i][l] \in Inside
    /\ \A i \in CPU : level[i] = 1 => at[i][0] \in {"out", "saved"}

\* After a release every CPU has its interrupt flag back as it was before the
\* acquire, although the flags lie in the lock itself, where the next owner
\* stores its own, and handlers take the lock too (irqlock_t.flags).
InterruptsRestored ==
    \A i \in CPU : At(i, "out") => intr[i] = (wanted[i] /\ level[i] = 0)
=============================================================================
