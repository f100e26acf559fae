------------------------------- MODULE Cluster -------------------------------
(***************************************************************************)
(* Cluster membership, failure detection and the management leader         *)
(* (src/cluster/node.c).  The model starts where the boot code of          *)
(* src/kernel/main.c leaves the cluster: one local node, elected, with     *)
(* quorum.                                                                 *)
(*                                                                         *)
(* Nothing in the repository refreshes last_heartbeat, so which remote     *)
(* nodes a tick finds silent for longer than HEALTH_TIMEOUT_MS is an input *)
(* of the tick.                                                            *)
(***************************************************************************)
EXTENDS Naturals, SequencesExt

CONSTANTS
    NodeId,             \* node ids, positive numbers
    LocalId,            \* the node this cluster structure lives on
    CLUSTER_MAX_NODES,
    UINT32                 \* 2^32, the wrap-around of the counters

ASSUME ClusterConstants ==
    /\ NodeId \subseteq Nat \ {0} /\ IsFiniteSet(NodeId) /\ LocalId \in NodeId
    /\ CLUSTER_MAX_NODES \in Nat \ {0} /\ UINT32 \in Nat /\ UINT32 > CLUSTER_MAX_NODES

VARIABLES
    nodes,          \* the list, last joined first
    node_state,
    online_count, quorum_size, has_quorum,
    leader_id, is_leader

cluster_vars == <<nodes, node_state, online_count, quorum_size, has_quorum,
          leader_id, is_leader>>

NodeState == {"UNKNOWN", "ONLINE", "LEAVING", "FAILED"}

Members == Range(nodes)
Online(state) == {n \in Members : state[n] = "ONLINE"}

\* cluster_elect_leader: the lowest online id, or the old leader.
cluster_elect_leader_any_member(online, leader) ==
    IF Members = {} THEN leader ELSE Min(Members)
cluster_elect_leader(online, leader) ==
    IF online = {} THEN leader ELSE Min(online)

quorum_of(count) == IF count > 0 THEN count \div 2 + 1 ELSE 1

ClusterInit ==
    /\ nodes = <<LocalId>>
    /\ node_state = [n \in NodeId |-> IF n = LocalId THEN "ONLINE" ELSE "UNKNOWN"]
    /\ online_count = 1
    /\ quorum_size = 1
    /\ has_quorum = TRUE
    /\ leader_id = LocalId
    /\ is_leader = TRUE

\* The counts end as cluster_update_stats leaves them.  Neither the election
\* nor has_quorum is touched.
cluster_add_node(n) ==
    /\ n \notin Members
    /\ Len(nodes) < CLUSTER_MAX_NODES
    /\ nodes' = <<n>> \o nodes
    /\ node_state' = [node_state EXCEPT ![n] = "ONLINE"]
    /\ quorum_size' = quorum_of(Len(nodes) + 1)
    /\ online_count' = Cardinality(Online(node_state)) + 1
    /\ UNCHANGED <<has_quorum, leader_id, is_leader>>

\* A node does not remove itself from its own view of the cluster.
\* online_count is decremented for a failed node too, then recomputed.
cluster_remove_node_no_stats(n) ==
    /\ n \in Members \ {LocalId}
    /\ nodes' = RemoveFirst(nodes, n)
    /\ node_state' = [node_state EXCEPT ![n] = "LEAVING"]
    /\ quorum_size' = quorum_of(Len(nodes) - 1)
    /\ online_count' = (online_count + UINT32 - 1) % UINT32
    /\ UNCHANGED <<has_quorum, leader_id, is_leader>>
cluster_remove_node(n) ==
    /\ n \in Members \ {LocalId}
    /\ nodes' = RemoveFirst(nodes, n)
    /\ node_state' = [node_state EXCEPT ![n] = "LEAVING"]
    /\ quorum_size' = quorum_of(Len(nodes) - 1)
    /\ online_count' = Cardinality(Online(node_state) \ {n})
    /\ UNCHANGED <<has_quorum, leader_id, is_leader>>

\* A silent node is failed, counted, and followed by a quorum check and an
\* election among the nodes not failed so far.
FailNode(c, n) ==
    LET state == [c.state EXCEPT ![n] = "FAILED"]
        count == (c.count + UINT32 - 1) % UINT32
        leader == cluster_elect_leader(Online(state), c.leader)
    IN  [state |-> state, count |-> count, leader |-> leader,
         quorum |-> count >= quorum_size,
         is_leader |-> IF Online(state) = {} THEN c.is_leader ELSE leader = LocalId]

\* One pass over the list.
cluster_tick(silent) ==
    LET visit(c, n) == IF n \in silent THEN FailNode(c, n) ELSE c
        end == FoldLeft(visit,
                        [state |-> node_state, count |-> online_count,
                         leader |-> leader_id, quorum |-> has_quorum,
                         is_leader |-> is_leader],
                        nodes)
    IN  /\ silent \subseteq Online(node_state) \ {LocalId}
        /\ node_state' = end.state
        /\ online_count' = end.count
        /\ leader_id' = end.leader
        /\ has_quorum' = end.quorum
        /\ is_leader' = end.is_leader
        /\ UNCHANGED <<nodes, quorum_size>>

\* The two calls a caller may make at any time.
check_quorum ==
    /\ has_quorum' = (online_count >= quorum_size)
    /\ UNCHANGED <<nodes, node_state, online_count, quorum_size, leader_id,
                   is_leader>>
elect ==
    /\ nodes # << >>
    /\ leader_id' = cluster_elect_leader(Online(node_state), leader_id)
    /\ is_leader' = IF Online(node_state) = {} THEN is_leader
                                                ELSE leader_id' = LocalId
    /\ UNCHANGED <<nodes, node_state, online_count, quorum_size, has_quorum>>

ClusterNext ==
    \/ \E n \in NodeId : cluster_add_node(n) \/ cluster_remove_node(n)
    \/ \E silent \in SUBSET NodeId : cluster_tick(silent)
    \/ check_quorum
    \/ elect

ClusterSpec == ClusterInit /\ [][ClusterNext]_cluster_vars

-----------------------------------------------------------------------------
(* Properties. *)

\* The types, the counters without a wrap-around.
ClusterTypeOK ==
    /\ nodes \in Seq(NodeId)
    /\ node_state \in [NodeId -> NodeState]
    /\ online_count \in 0..CLUSTER_MAX_NODES
    /\ quorum_size \in 1..CLUSTER_MAX_NODES
    /\ has_quorum \in BOOLEAN /\ is_leader \in BOOLEAN
    /\ leader_id \in NodeId

\* Every field keeps its type, and the count the quorum check trusts is the number of online members, after
\* any order of joins, departures of live and of failed nodes, and ticks that
\* fail several nodes (cluster_add_node, cluster_remove_node, cluster_tick).
CountExact == online_count = Cardinality(Online(node_state))
OnlineCountExact == ClusterTypeOK /\ CountExact

\* A member that leads is online: no order of joins, failures and departures
\* leaves a failed node leading (the election after each failure in
\* cluster_tick), not even when the leader left and came back.
LeaderAlive == leader_id \in Members => node_state[leader_id] = "ONLINE"
=============================================================================
