---------------------------- MODULE MCManagement -----------------------------
(***************************************************************************)
(* The three parts of the management layer, one to a behaviour: which one  *)
(* runs is chosen at the start and the others stand still.                 *)
(*                                                                         *)
(*   "vms"      the VM manager and the scheduler: three VMs on three nodes *)
(*   "api"      the API over the same manager, with its VMs on two nodes   *)
(*   "cluster"  membership: five nodes for four places, the local one with *)
(*              neither the lowest nor the highest id                      *)
(***************************************************************************)
EXTENDS Api, Cluster

CONSTANTS
    n1, n2, n3, w1, w2, w3,
    ApiHosts            \* bound of part "api": the hosts of its VMs

ThreeNodes == <<n3, n2, n1>>
FourThreads == [n \in Node |-> 4]
Memory8 == [n \in Node |-> 8]
Memory2 == [n \in Node |-> 2]
Healthy == [n \in Node |-> 100]
TwoVcpus == [v \in VM |-> 2]
OneUnit == [v \in VM |-> 1]
Numbered == [v \in VM |-> CASE v = w1 -> 1 [] v = w2 -> 12 [] OTHER -> 13]
NodesNumbered == [n \in Node |-> CASE n = n1 -> 1 [] n = n2 -> 2 [] OTHER -> 3]
\* "", "1", "1a", "a", and 2^32 + 12 as U32 stands for 2^32.
Segments == {<< >>, <<1>>, <<1, 49>>, <<49>>, <<1, 6, 3, 9, 6>>}

VARIABLE part

MCInit ==
    /\ part \in {"vms", "api", "cluster"}
    /\ ApiInit /\ ClusterInit
    /\ part # "api" => ctx = CHOOSE c \in Contexts : TRUE

\* Without requests the history of the API follows the VMs.
VmStep ==
    /\ part = "vms"
    /\ Next
    /\ before' = vm_state'
    /\ UNCHANGED <<part, ctx, req, resp, cluster_vars>>
ApiStep ==
    /\ part = "api"
    /\ ApiNext
    /\ \A v \in Known' : host'[v] \in ApiHosts
    /\ UNCHANGED <<part, cluster_vars>>
ClusterStep == part = "cluster" /\ ClusterNext /\ UNCHANGED <<part, all_vars>>

MCSpec == MCInit /\ [][VmStep \/ ApiStep \/ ClusterStep]_<<part, all_vars, cluster_vars>>

\* Only the variables of the part that runs change.  Part "vms" does not tell
\* VMs apart, so that their places in the list stand for them; in part "api" the
\* ids do, and of the last request and its response, which the next one does not
\* read, all that matters is whether the answer was right.
Distinct ==
    CASE part = "vms" -> <<part, [i \in DOMAIN vms |-> <<vm_state[vms[i]], host[vms[i]]>>],
                           running_count, vm_count, online, TypeOK /\ CountsBalance>>
      [] part = "api" -> <<part, vars, ctx, AnsweredAsAsked>>
      [] part = "cluster" -> <<part, cluster_vars>>
=============================================================================
