----------------------------- MODULE VmScheduler -----------------------------
(***************************************************************************)
(* The life cycle of virtual machines (src/cluster/vm.c) and their         *)
(* placement, rebalancing and evacuation (src/cluster/scheduler.c).        *)
(*                                                                         *)
(* One VM manager, on node Local, handles every VM, also those it has      *)
(* migrated away.  STARTING, STOPPING and MIGRATING last only as long as   *)
(* the call that passes through them and do not appear between steps.      *)
(*                                                                         *)
(* The counters and the scores are unsigned: U32 and U64 stand for 2^32    *)
(* and 2^64.                                                               *)
(***************************************************************************)
EXTENDS Integers, SequencesExt

CONSTANTS
    VM,
    Nodes,              \* the cluster's node list, in list order
    Local,              \* the node of the VM manager
    Nil,
    Threads,            \* per node: total_threads
    MemTotal, MemUsed,  \* per node: memory, in the unit of Memory
    NetworkScore,       \* per node: 100, or 0 before its first health check
    Vcpus, Memory,      \* per VM: what its configuration asks for
    U32, U64,
    MaxDrift            \* bound: how far vm_count may run below zero

Node == Range(Nodes)

ASSUME SchedulerConstants ==
    /\ Nodes \in Seq(Node) /\ Local \in Node /\ Nil \notin Node
    /\ Threads \in [Node -> Nat] /\ MemTotal \in [Node -> Nat]
    /\ MemUsed \in [Node -> Nat] /\ NetworkScore \in [Node -> {0, 100}]
    /\ Vcpus \in [VM -> Nat] /\ Memory \in [VM -> Nat]
    /\ U32 \in Nat \ {0} /\ U64 \in Nat \ {0}
    /\ MaxDrift \in Nat
    /\ IsFiniteSet(VM) /\ Cardinality(VM) < U32
    /\ Nil \notin {"CREATED", "RUNNING", "PAUSED", "STOPPED"}

\* The drift within the bound, and all VMs on top of it, are small beside 2^32.
ASSUME DriftIsSmall == 2 * (MaxDrift + 2 * Cardinality(VM) + 2) <= U32

VARIABLES
    vms,            \* the manager's list, last created first
    vm_state,
    host,           \* host_node of each VM
    running_count,
    vm_count,       \* per node: the workload the scheduler reads
    online          \* the nodes in state ONLINE

vars == <<vms, vm_state, host, running_count, vm_count, online>>

Active(s) == s \in {"RUNNING", "PAUSED"}
Known == Range(vms)
Dec(n) == (n + U32 - 1) % U32
Inc(n) == (n + 1) % U32

-----------------------------------------------------------------------------
(* Life cycle. *)

Init ==
    /\ vms = << >>
    /\ vm_state = [v \in VM |-> Nil]
    /\ host = [v \in VM |-> Nil]
    /\ running_count = 0
    /\ vm_count = [n \in Node |-> 0]
    /\ online = Node

virt_vm_create(v) ==
    /\ v \notin Known
    /\ vms' = <<v>> \o vms
    /\ vm_state' = [vm_state EXCEPT ![v] = "CREATED"]
    /\ host' = [host EXCEPT ![v] = Local]
    /\ UNCHANGED <<running_count, vm_count, online>>

\* A VM that is active is forced to stop; the counts of the local node are
\* the ones adjusted, wherever the VM runs.
virt_vm_destroy_listed(v) ==
    /\ v \in Known
    /\ vm_state' = [vm_state EXCEPT ![v] = Nil]
    /\ host' = [host EXCEPT ![v] = Nil]
    /\ running_count' = IF Active(vm_state[v]) THEN Dec(running_count)
                                               ELSE running_count
    /\ UNCHANGED <<vms, vm_count, online>>
virt_vm_destroy(v) ==
    /\ v \in Known
    /\ vms' = RemoveFirst(vms, v)
    /\ vm_state' = [vm_state EXCEPT ![v] = Nil]
    /\ host' = [host EXCEPT ![v] = Nil]
    /\ IF Active(vm_state[v])
         THEN /\ running_count' = Dec(running_count)
              /\ vm_count' = [vm_count EXCEPT ![Local] = Dec(@)]
         ELSE UNCHANGED <<running_count, vm_count>>
    /\ UNCHANGED online

virt_vm_start(v) ==
    /\ vm_state[v] \in {"CREATED", "STOPPED"}
    /\ vm_state' = [vm_state EXCEPT ![v] = "RUNNING"]
    /\ running_count' = Inc(running_count)
    /\ vm_count' = [vm_count EXCEPT ![Local] = Inc(@)]
    /\ UNCHANGED <<vms, host, online>>

\* virt_vm_stop; virt_vm_force_stop does the same to an active VM, and to no
\* other that exists between steps.
virt_vm_stop(v) ==
    /\ Active(vm_state[v])
    /\ vm_state' = [vm_state EXCEPT ![v] = "STOPPED"]
    /\ running_count' = Dec(running_count)
    /\ vm_count' = [vm_count EXCEPT ![Local] = Dec(@)]
    /\ UNCHANGED <<vms, host, online>>

virt_vm_pause(v) ==
    /\ vm_state[v] = "RUNNING"
    /\ vm_state' = [vm_state EXCEPT ![v] = "PAUSED"]
    /\ UNCHANGED <<vms, host, running_count, vm_count, online>>

virt_vm_resume(v) ==
    /\ vm_state[v] = "PAUSED"
    /\ vm_state' = [vm_state EXCEPT ![v] = "RUNNING"]
    /\ UNCHANGED <<vms, host, running_count, vm_count, online>>

\* Stop, when there is something to stop, then start: an active VM is taken
\* off and put back on the local count.
virt_vm_restart(v) ==
    /\ v \in Known
    /\ vm_state' = [vm_state EXCEPT ![v] = "RUNNING"]
    /\ IF Active(vm_state[v])
         THEN /\ running_count' = Inc(Dec(running_count))
              /\ vm_count' = [vm_count EXCEPT ![Local] = Inc(Dec(@))]
         ELSE /\ running_count' = Inc(running_count)
              /\ vm_count' = [vm_count EXCEPT ![Local] = Inc(@)]
    /\ UNCHANGED <<vms, host, online>>

-----------------------------------------------------------------------------
(* Migration, as a change of placement p = [host, vm_count]. *)

virt_vm_can_migrate(v) == Active(vm_state[v])

migrate_keeps_source(p, v, target) ==
    IF virt_vm_can_migrate(v) /\ p.host[v] # target
      THEN [host |-> [p.host EXCEPT ![v] = target],
            vm_count |-> [p.vm_count EXCEPT ![target] = Inc(@)]]
      ELSE p
migrate(p, v, target) ==
    IF virt_vm_can_migrate(v) /\ p.host[v] # target
      THEN [host |-> [p.host EXCEPT ![v] = target],
            vm_count |-> [p.vm_count EXCEPT ![p.host[v]] = Dec(@), ![target] = Inc(@)]]
      ELSE p

Placement == [host |-> host, vm_count |-> vm_count]
Place(p) ==
    /\ host' = p.host
    /\ vm_count' = p.vm_count
    /\ UNCHANGED <<vms, vm_state, running_count, online>>

virt_vm_migrate(v, target) ==
    /\ v \in Known
    /\ Place(migrate(Placement, v, target))

-----------------------------------------------------------------------------
(* Scheduling. *)

\* node_is_feasible with the default 2:1 and 1.5:1 overcommitment.  A node of
\* the request's forbidden list is never feasible.
available_vcpus(count, n) ==
    (((Threads[n] * 200) \div 100) - ((count[n] * 2) % U32)) % U64
available_mem(n) == (((MemTotal[n] * 150) \div 100) - MemUsed[n]) % U64

node_is_feasible(count, n, v, forbidden) ==
    /\ n \in online
    /\ n \notin forbidden
    /\ Vcpus[v] <= available_vcpus(count, n)
    /\ Memory[v] <= available_mem(n)

\* scheduler_score_node under the SPREAD policy, the one evacuation uses.  No
\* code sets the storage totals, so storage_score is 100.
cpu_score(count, n) ==
    IF Threads[n] = 0 THEN 0
    ELSE (((((Threads[n] - ((count[n] * 2) % U32)) % U64) * 100) % U64)
            \div Threads[n]) % U32
memory_score(n) ==
    IF MemTotal[n] = 0 THEN 0 ELSE ((MemTotal[n] - MemUsed[n]) * 100) \div MemTotal[n]
score_node(count, n) ==
    ((cpu_score(count, n) * 40 + memory_score(n) * 40 + 100 * 10
        + NetworkScore[n] * 10) % U32) \div 100

\* scheduler_schedule: the first of the best feasible nodes, in list order.
scheduler_schedule(count, v, forbidden) ==
    LET feasible == {i \in DOMAIN Nodes : node_is_feasible(count, Nodes[i], v, forbidden)}
        best == {i \in feasible : \A k \in feasible :
                    score_node(count, Nodes[k]) <= score_node(count, Nodes[i])}
    IN  IF best = {} THEN Nil ELSE Nodes[Min(best)]

\* The first node of the list with the most VMs, the first with the fewest.
\* A node of no VMs is never overloaded, an online node of 2^32 - 1 never
\* underloaded.
OnlineAt == {i \in DOMAIN Nodes : Nodes[i] \in online}
Extreme(better(_, _)) ==
    Nodes[Min({i \in OnlineAt : \A k \in OnlineAt :
                  ~better(vm_count[Nodes[k]], vm_count[Nodes[i]])})]
Overloaded == Extreme(LAMBDA x, y : x > y)
Underloaded == Extreme(LAMBDA x, y : x < y)

Imbalanced ==
    /\ vm_count[Underloaded] < U32 - 1
    /\ vm_count[Overloaded] > (vm_count[Underloaded] + 2) % U32
Imbalanced_by_one == vm_count[Overloaded] > vm_count[Underloaded]
scheduler_rebalance_eager ==
    /\ OnlineAt # {}
    /\ Imbalanced_by_one
    /\ \E i \in DOMAIN vms :
         /\ host[vms[i]] = Overloaded
         /\ virt_vm_can_migrate(vms[i])
         /\ Place(migrate(Placement, vms[i], Underloaded))
scheduler_rebalance ==
    /\ OnlineAt # {}
    /\ Imbalanced
    /\ LET movable == {i \in DOMAIN vms : /\ host[vms[i]] = Overloaded
                                          /\ virt_vm_can_migrate(vms[i])}
       IN  /\ movable # {}
           /\ Place(migrate(Placement, vms[Min(movable)], Underloaded))

\* Every VM on the node, stopped ones included, is scheduled elsewhere and
\* migrated there, if it can be.
scheduler_evacuate_node(n) ==
    LET leave(p, v) ==
            LET target == scheduler_schedule(p.vm_count, v, {n})
            IN  IF p.host[v] = n /\ target # Nil THEN migrate(p, v, target) ELSE p
    IN  Place(FoldLeft(leave, Placement, vms))

\* A node is failed or brought back by the cluster layer.
node_set_state(n) ==
    /\ online' = IF n \in online THEN online \ {n} ELSE online \cup {n}
    /\ UNCHANGED <<vms, vm_state, host, running_count, vm_count>>

-----------------------------------------------------------------------------
Start == \E v \in VM : virt_vm_create(v) \/ virt_vm_start(v) \/ virt_vm_pause(v)
                       \/ virt_vm_resume(v)
Stop == \E v \in VM : virt_vm_stop(v) \/ virt_vm_restart(v) \/ virt_vm_destroy(v)
Move ==
    \/ \E v \in VM, n \in Node : virt_vm_migrate(v, n)
    \/ scheduler_rebalance
    \/ \E n \in Node : scheduler_evacuate_node(n)
    \/ \E n \in Node : node_set_state(n)

\* Stopping VMs that were migrated away drives vm_count[Local] below zero,
\* without end: the model stops moving VMs after MaxDrift of them.
DriftBounded == vm_count[Local] < U32 \div 2 \/ vm_count[Local] > U32 - MaxDrift

Next == Start \/ Stop \/ (DriftBounded /\ Move)

Spec == Init /\ [][Next]_vars

-----------------------------------------------------------------------------
(* Properties. *)

\* Every field keeps its type; a VM the manager knows has a state and a host.
TypeOK ==
    /\ vms \in Seq(VM)
    /\ \A v \in VM :
         /\ vm_state[v] \in {Nil, "CREATED", "RUNNING", "PAUSED", "STOPPED"}
         /\ host[v] \in Node \cup {Nil}
         /\ v \in Known <=> vm_state[v] # Nil
         /\ v \in Known <=> host[v] # Nil
    /\ running_count \in 0 .. U32 - 1
    /\ vm_count \in [Node -> 0 .. U32 - 1]
    /\ online \subseteq Node

\* running_count is the number of active VMs after any sequence of start,
\* stop, pause, resume, restart, migrate and destroy.
RunningCountExact ==
    running_count = Cardinality({v \in Known : Active(vm_state[v])})

\* running_count is exact, and the workload counters of all nodes add up to it, in
\* unsigned arithmetic, although start and stop charge the local node and
\* migrate charges the host.
TotalOf(count) == FoldSet(LAMBDA n, sum : count[n] + sum, 0, Node)
CountsBalance == RunningCountExact /\ TotalOf(vm_count) % U32 = running_count

\* Rebalancing never overshoots: the node that gave a VM away still has at
\* least as many as the one that got it, so a second rebalance cannot move
\* it back.
RebalanceSettles ==
    [][scheduler_rebalance =>
         \A v \in Known : host'[v] # host[v] =>
             vm_count'[host[v]] >= vm_count'[host'[v]]]_vars
=============================================================================
