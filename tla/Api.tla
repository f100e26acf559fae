--------------------------------- MODULE Api ---------------------------------
(***************************************************************************)
(* The management API (src/mgmt/api.c) over the VM manager: a request is   *)
(* parsed, routed to the handler of its resource, and answered; the        *)
(* actions on VMs are the manager's own.                                   *)
(*                                                                         *)
(* As in main.c every call gets a cleared request and a new response.      *)
(* Between requests the manager's other callers do what they like.  A path *)
(* is the sequence of its segments, and the segment of an id the sequence  *)
(* of its characters, each as its distance from the character '0'.  Bodies *)
(* are what they tell of VMs; the texts of errors are left out.            *)
(***************************************************************************)
EXTENDS VmScheduler

CONSTANTS
    Contexts,       \* what an api_context_t may point to: cluster, vm_manager, pool
    Id,             \* the 32-bit ids of the VMs,
    NodeNumber,     \* and of the nodes
    IdSegments,     \* the second segments of paths
    ListRoom        \* how many entries a body has room for, however long they are

ASSUME ApiConstants ==
    /\ Id \in [VM -> 0 .. U32 - 1] /\ \A v, w \in VM : Id[v] = Id[w] => v = w
    /\ NodeNumber \in [Node -> 0 .. U32 - 1]
    /\ IdSegments \subseteq Seq(Int)
    /\ ListRoom \in Nat \ {0}

VARIABLES
    ctx,            \* what this one points to
    req,            \* the request: method, path, and its parsed segments
    resp,           \* the response: status, body; NoResponse once it is freed
    before          \* history: the VMs' states when the request came

all_vars == <<vars, ctx, req, resp, before>>

Methods == {"GET", "POST"}
Actions == {"start", "stop", "pause", "resume", "reboot"}
Empty == << >>                      \* the segment of a path that has no id
Paths ==
    {<<r>> : r \in {"cluster", "nodes", "vms", "pools", "metrics"}}
    \cup {<<r, id>> : r \in {"nodes", "vms"}, id \in IdSegments}
    \cup {<<"vms", id, a>> : id \in IdSegments, a \in Actions}

NoRequest == [method |-> "GET", path |-> << >>, resource |-> Nil, id |-> Empty, action |-> Nil]
NoResponse == [status |-> "NONE", body |-> << >>]

ApiInit ==
    /\ Init
    /\ ctx \in Contexts
    /\ req = NoRequest
    /\ resp = NoResponse
    /\ before = vm_state

-----------------------------------------------------------------------------
(* Parsing: only the segments that are there are stored. *)

parse_path(r) ==
    [r EXCEPT !.resource = r.path[1],
              !.id = IF Len(r.path) > 1 THEN r.path[2] ELSE @,
              !.action = IF Len(r.path) > 2 THEN r.path[3] ELSE @]

\* The number that characters make, in 32 bits.  The handler of the nodes takes
\* every character for a digit, that of the VMs stops at the first that is none.
Number(s) == FoldLeft(LAMBDA id, c : (id * 10 + c) % U32, 0, s)
Digits(s) ==
    LET other == SelectInSeq(s, LAMBDA c : c \notin 0 .. 9)
    IN  IF other = 0 THEN s ELSE SubSeq(s, 1, other - 1)
NodeOf(s) == {n \in Node : NodeNumber[n] = Number(s)}
VmOf(s) == {v \in Known : Id[v] = Number(Digits(s))}

-----------------------------------------------------------------------------
(* The handlers. *)

api_response_error(status) == [status |-> status, body |-> << >>]
Answer(status, body) == [status |-> status, body |-> body]

json_vm_info(v) == [vm |-> v, state |-> vm_state'[v], host |-> host'[v]]
json_node_info(n) == [node |-> n, online |-> n \in online, vms |-> vm_count[n]]
json_cluster_info == [nodes |-> Len(Nodes), online |-> Cardinality(online)]

handle_cluster(r) ==
    CASE r.method # "GET" -> api_response_error("BAD_REQUEST")
      [] r.method = "GET" /\ "cluster" \notin ctx -> api_response_error("NOT_FOUND")
      [] OTHER -> Answer("OK", <<json_cluster_info>>)

\* How many of n entries a list shows: all of them, or those before the room
\* left in the body is down to 256 bytes.  The entry that is cut by the end of
\* the body is none.
Listed(n) == {n} \cup ListRoom .. n

handle_nodes(r, shown) ==
    CASE "cluster" \notin ctx -> api_response_error("NOT_FOUND")
      [] "cluster" \in ctx /\ r.method # "GET" -> api_response_error("BAD_REQUEST")
      [] "cluster" \in ctx /\ r.method = "GET" /\ r.id = Empty ->
            Answer("OK", [i \in 1 .. shown |-> json_node_info(Nodes[i])])
      [] OTHER -> IF NodeOf(r.id) # {}
                    THEN Answer("OK", <<json_node_info(CHOOSE n \in NodeOf(r.id) : TRUE)>>)
                    ELSE api_response_error("NOT_FOUND")

handle_pools(r) ==
    IF r.method = "GET" /\ "pool" \in ctx THEN Answer("OK", << >>)
                                              ELSE api_response_error("NOT_FOUND")

\* What a request to the manager does when it succeeds.
virt_vm_action(v, action) ==
    CASE action = "start" -> virt_vm_start(v)
      [] action = "stop" -> virt_vm_stop(v)
      [] action = "pause" -> virt_vm_pause(v)
      [] action = "resume" -> virt_vm_resume(v)
      [] OTHER -> FALSE

\* The states in which it succeeds.
Allowed(v, action) ==
    CASE action = "start" -> vm_state[v] \in {"CREATED", "STOPPED"}
      [] action = "stop" -> Active(vm_state[v])
      [] action = "pause" -> vm_state[v] = "RUNNING"
      [] action = "resume" -> vm_state[v] = "PAUSED"
      [] OTHER -> FALSE

handle_vms(r) ==
    LET managed == "vm_manager" \in ctx
        listing == r.method = "GET" /\ r.id = Empty
        acting == r.method = "POST" /\ r.action # Nil
    IN  \/ /\ ~managed
           /\ resp' = api_response_error("ERROR")
           /\ UNCHANGED vars
        \/ /\ managed /\ listing
           /\ UNCHANGED vars
           /\ \E shown \in Listed(Len(vms)) :
                resp' = Answer("OK", [i \in 1 .. shown |-> json_vm_info(vms[i])])
        \/ /\ managed /\ acting /\ VmOf(r.id) = {}
           /\ resp' = api_response_error("NOT_FOUND")
           /\ UNCHANGED vars
        \/ \E v \in VmOf(r.id) :
             /\ managed /\ acting
             /\ Allowed(v, r.action)
             /\ virt_vm_action(v, r.action)
             /\ resp' = Answer("ACCEPTED", <<json_vm_info(v)>>)
        \/ \E v \in VmOf(r.id) :
             /\ managed /\ acting
             /\ ~Allowed(v, r.action)
             /\ resp' = api_response_error("CONFLICT")
             /\ UNCHANGED vars
        \/ /\ managed /\ ~listing /\ ~acting
           /\ resp' = api_response_error("BAD_REQUEST")
           /\ UNCHANGED vars

NewRequest_reused(m, p) == [req EXCEPT !.method = m, !.path = p]
NewRequest(m, p) == [NoRequest EXCEPT !.method = m, !.path = p]

api_handle_request(m, p) ==
    /\ req' = parse_path(NewRequest(m, p))
    /\ before' = vm_state
    /\ UNCHANGED ctx
    /\ IF req'.resource = "vms"
       THEN handle_vms(req')
       ELSE /\ UNCHANGED vars
            /\ \E shown \in Listed(Len(Nodes)) :
                 resp' = CASE req'.resource = "cluster" -> handle_cluster(req')
                           [] req'.resource = "nodes" -> handle_nodes(req', shown)
                           [] req'.resource = "pools" -> handle_pools(req')
                           [] OTHER -> api_response_error("NOT_FOUND")

-----------------------------------------------------------------------------
(* The other callers, where there is a manager. *)

Elsewhere ==
    /\ "vm_manager" \in ctx
    /\ \/ \E v \in VM : virt_vm_create(v) \/ virt_vm_destroy(v)
       \/ DriftBounded /\ \E v \in VM, n \in Node : virt_vm_migrate(v, n)
    /\ resp' = NoResponse
    /\ before' = vm_state'
    /\ UNCHANGED <<ctx, req>>

ApiNext == (\E m \in Methods, p \in Paths : api_handle_request(m, p)) \/ Elsewhere

ApiSpec == ApiInit /\ [][ApiNext]_all_vars

-----------------------------------------------------------------------------
(* Properties. *)

Goal == [start |-> "RUNNING", stop |-> "STOPPED", pause |-> "PAUSED", resume |-> "RUNNING"]

\* A request does what its path says and the response tells what was done: when
\* it is accepted, the action on the VM that has the number read from the path,
\* with the state that VM is in now, and nothing to any other VM; nothing at all
\* when it is not accepted.  A list shows the VMs from the head of the manager's
\* list, each once and with its present state, and leaves VMs out only when it
\* shows as many as the body has room for.  Requests before it leave no trace in
\* it (parse_path, handle_vms).
AnsweredAsAsked ==
    /\ resp.status = "ACCEPTED" =>
          /\ Len(req.path) = 3 /\ req.method = "POST"
          /\ \E v \in VmOf(req.path[2]) :
                /\ vm_state[v] = Goal[req.path[3]]
                /\ resp.body = <<[vm |-> v, state |-> vm_state[v], host |-> host[v]]>>
                /\ \A w \in VM \ {v} : vm_state[w] = before[w]
    /\ resp.status # "ACCEPTED" => vm_state = before
    /\ (resp.status = "OK" /\ req.path = <<"vms">>) =>
          /\ Len(resp.body) <= Len(vms)
          /\ Len(resp.body) < Len(vms) => Len(resp.body) >= ListRoom
          /\ \A i \in DOMAIN resp.body :
                resp.body[i].vm = vms[i] /\ resp.body[i].state = vm_state[vms[i]]
=============================================================================
