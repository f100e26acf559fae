-------------------------------- MODULE Raft --------------------------------
(***************************************************************************)
(* The RAFT engine of the distributed storage layer                        *)
(* (src/storage/distributed.c, include/storage/distributed.h): one         *)
(* raft_context per node, the four message handlers, raft_tick, and the    *)
(* distributed write that feeds the log.                                   *)
(*                                                                         *)
(* Every node has been given the whole cluster, itself included, with      *)
(* raft_add_node before the first tick, as the boot code does: node_count  *)
(* is Cardinality(Node) everywhere.  raft_remove_node only clears the      *)
(* `active' flag of a peer, so it changes who is sent to, never the        *)
(* majority.                                                               *)
(*                                                                         *)
(* The transport behind the send_message callback is not in the            *)
(* repository.  It is modelled as a set of messages in flight: delivery in *)
(* any order, loss, vote messages delivered at most once, append messages  *)
(* any number of times.                                                    *)
(*                                                                         *)
(* Time is abstracted: a tick finds the election timeout or the heartbeat  *)
(* interval elapsed or not, either way.                                    *)
(***************************************************************************)
EXTENDS Naturals, Sequences, FiniteSets

CONSTANTS
    Node,           \* the node ids of the cluster
    Nil,            \* voted_for = -1, leader_id = 0, data = NULL
    Data,           \* payloads of distributed writes
    RAFT_LOG_SIZE,  \* slots of the log array (slot 0 is a zeroed sentinel)
    MaxTerm,        \* bound: no election is started beyond this term
    MaxInFlight,    \* bound: messages in flight when a tick has sent its own
    MaxRemovals     \* bound: peers deactivated with raft_remove_node

ASSUME NodeAssumption == IsFiniteSet(Node) /\ Node # {}
ASSUME NilAssumption == Nil \notin Node /\ Nil \notin Data
ASSUME BoundAssumption ==
    /\ MaxTerm \in Nat /\ MaxInFlight \in Nat /\ MaxRemovals \in Nat
    /\ RAFT_LOG_SIZE \in Nat \ {0}

VARIABLES
    state,          \* FOLLOWER, CANDIDATE or LEADER
    current_term,
    voted_for,
    votes_received,
    leader_id,
    log,            \* slots 1..last_index: the sentinel is left out
    commit_index,
    last_applied,
    next_index,     \* next_index[i][j]: nodes[j].next_index in i's context
    match_index,
    active,         \* active[i]: the peers not removed from i's list
    volume,         \* local volume content, written by apply_storage_entry
    msgs,           \* messages in flight
    elections,      \* history: <<i, t>>, node i became leader of term t
    grants,         \* history: <<v, t, c>>, v gave c its vote in term t
    counted         \* history: the voters behind votes_received

raftVars == <<state, current_term, voted_for, votes_received, leader_id>>
logVars == <<log, commit_index, last_applied, volume>>
peerVars == <<next_index, match_index, active>>
history == <<elections, grants, counted>>
vars == <<raftVars, logVars, peerVars, msgs, history>>

Role == {"FOLLOWER", "CANDIDATE", "LEADER"}

Entry == [term: Nat, data: Data \cup {Nil}]

VoteRequest ==
    [type: {"VOTE_REQ"}, from: Node, to: Node, term: Nat,
     last_log_index: Nat, last_log_term: Nat]
VoteResponse ==
    [type: {"VOTE_RESP"}, from: Node, to: Node, term: Nat, granted: BOOLEAN]
AppendRequest ==
    [type: {"APPEND_REQ"}, from: Node, to: Node, term: Nat,
     prev_log_index: Nat, prev_log_term: Nat,
     leader_commit: Nat, entry_count: Nat]
AppendResponse ==
    [type: {"APPEND_RESP"}, from: Node, to: Node, term: Nat,
     success: BOOLEAN, match_index: Nat]
Message == VoteRequest \cup VoteResponse \cup AppendRequest \cup AppendResponse

-----------------------------------------------------------------------------
(* Helpers on the log. *)

majority == Cardinality(Node) \div 2 + 1

last_index(i) == Len(log[i])

get_last_log_term(l) == IF Len(l) = 0 THEN 0 ELSE l[Len(l)].term

\* The term a heartbeat quotes for index k: slot 0 is the sentinel of term 0,
\* and 0 is also what a NULL from get_log_entry is turned into.
entry_term(l, k) == IF k \in 1..Len(l) THEN l[k].term ELSE 0

\* append_log_entry: a full array refuses the entry.  The index is advanced
\* before the payload is allocated, so a failed kmalloc leaves an entry
\* without data behind (data = Nil).
append_log_entry_no_limit(l, t, d) == Append(l, [term |-> t, data |-> d])
append_log_entry(l, t, d) ==
    IF Len(l) >= RAFT_LOG_SIZE - 1 THEN l ELSE Append(l, [term |-> t, data |-> d])

\* "Check log is up-to-date" in handle_vote_request.
up_to_date(m, l) ==
    \/ m.last_log_term > get_last_log_term(l)
    \/ /\ m.last_log_term = get_last_log_term(l)
       /\ m.last_log_index >= Len(l)

\* The vote of a node is still free, or already belongs to the candidate.
vote_free_always(vote, c) == TRUE
vote_free(vote, c) == vote \in {Nil, c}

\* "Update term if needed", the first test of every handler.
newer_term_or_same(t, current) == t >= current
newer_term_or_older(t, current) == t # current
newer_term(t, current) == t > current

\* "Check log consistency" in handle_append_request.
log_consistent(m, l) ==
    \/ m.prev_log_index = 0
    \/ /\ m.prev_log_index <= Len(l)
       /\ l[m.prev_log_index].term = m.prev_log_term

\* How many nodes hold entry n, as the leader counts them: itself and every
\* listed node whose match_index reaches n.
replica_count(i, n, match) == 1 + Cardinality({j \in Node : match[j] >= n})

-----------------------------------------------------------------------------
Init ==
    /\ state = [i \in Node |-> "FOLLOWER"]
    /\ current_term = [i \in Node |-> 0]
    /\ voted_for = [i \in Node |-> Nil]
    /\ votes_received = [i \in Node |-> 0]
    /\ leader_id = [i \in Node |-> Nil]
    /\ log = [i \in Node |-> << >>]
    /\ commit_index = [i \in Node |-> 0]
    /\ last_applied = [i \in Node |-> 0]
    /\ next_index = [i \in Node |-> [j \in Node |-> 1]]
    /\ match_index = [i \in Node |-> [j \in Node |-> 0]]
    /\ active = [i \in Node |-> Node]
    /\ volume = [i \in Node |-> Nil]
    /\ msgs = {}
    /\ elections = {}
    /\ grants = {}
    /\ counted = [i \in Node |-> {}]

-----------------------------------------------------------------------------
(* State transitions of one context. *)

\* become_follower(raft, term): the vote is forgotten, whatever the term was.
become_follower_unless_leader(i, t) ==
    IF state[i] = "LEADER"
      THEN UNCHANGED <<state, current_term, voted_for, votes_received, counted>>
      ELSE /\ state' = [state EXCEPT ![i] = "FOLLOWER"]
           /\ current_term' = [current_term EXCEPT ![i] = t]
           /\ voted_for' = [voted_for EXCEPT ![i] = Nil]
           /\ votes_received' = [votes_received EXCEPT ![i] = 0]
           /\ counted' = [counted EXCEPT ![i] = {}]
become_follower(i, t) ==
    /\ state' = [state EXCEPT ![i] = "FOLLOWER"]
    /\ current_term' = [current_term EXCEPT ![i] = t]
    /\ voted_for' = [voted_for EXCEPT ![i] = Nil]
    /\ votes_received' = [votes_received EXCEPT ![i] = 0]
    /\ counted' = [counted EXCEPT ![i] = {}]

Peers(i) == active[i] \ {i}

become_candidate(i) ==
    /\ state' = [state EXCEPT ![i] = "CANDIDATE"]
    /\ current_term' = [current_term EXCEPT ![i] = @ + 1]
    /\ voted_for' = [voted_for EXCEPT ![i] = i]
    /\ votes_received' = [votes_received EXCEPT ![i] = 1]
    /\ msgs' = msgs \cup
         {[type |-> "VOTE_REQ", from |-> i, to |-> j,
           term |-> current_term[i] + 1, last_log_index |-> last_index(i),
           last_log_term |-> get_last_log_term(log[i])] : j \in Peers(i)}
    /\ grants' = grants \cup {<<i, current_term[i] + 1, i>>}
    /\ counted' = [counted EXCEPT ![i] = {i}]

\* next_index is taken before the no-op entry is appended.
become_leader(i) ==
    /\ state' = [state EXCEPT ![i] = "LEADER"]
    /\ leader_id' = [leader_id EXCEPT ![i] = i]
    /\ next_index' = [next_index EXCEPT ![i] = [j \in Node |-> last_index(i) + 1]]
    /\ match_index' = [match_index EXCEPT ![i] = [j \in Node |-> 0]]
    /\ log' = [log EXCEPT ![i] = append_log_entry(@, current_term[i], Nil)]
    /\ elections' = elections \cup {<<i, current_term[i]>>}

-----------------------------------------------------------------------------
(* Message handlers.  `rest' is the network without, or still with, the    *)
(* message being handled.                                                  *)

handle_vote_request(i, m, rest) ==
    LET newer == newer_term(m.term, current_term[i])
        term == IF newer THEN m.term ELSE current_term[i]
        vote == IF newer THEN Nil ELSE voted_for[i]
        grant == /\ m.term >= term
                 /\ vote_free(vote, m.from)
                 /\ up_to_date(m, log[i])
    IN  /\ state' = IF newer THEN [state EXCEPT ![i] = "FOLLOWER"] ELSE state
        /\ current_term' = [current_term EXCEPT ![i] = term]
        /\ voted_for' = [voted_for EXCEPT ![i] = IF grant THEN m.from ELSE vote]
        /\ votes_received' =
             IF newer THEN [votes_received EXCEPT ![i] = 0] ELSE votes_received
        /\ counted' = IF newer THEN [counted EXCEPT ![i] = {}] ELSE counted
        /\ grants' = IF grant THEN grants \cup {<<i, term, m.from>>} ELSE grants
        /\ msgs' = rest \cup {[type |-> "VOTE_RESP", from |-> i, to |-> m.from,
                               term |-> term, granted |-> grant]}
        /\ UNCHANGED <<leader_id, logVars, peerVars, elections>>

\* A vote is counted without a look at who sent it.
handle_vote_response(i, m, rest) ==
    /\ msgs' = rest
    /\ \/ /\ newer_term(m.term, current_term[i])
          /\ become_follower(i, m.term)
          /\ UNCHANGED <<leader_id, logVars, peerVars, elections, grants>>
       \/ /\ ~newer_term(m.term, current_term[i])
          /\ \/ state[i] # "CANDIDATE"
             \/ m.term # current_term[i]
             \/ m.granted = FALSE
          /\ UNCHANGED <<raftVars, logVars, peerVars, history>>
       \/ /\ ~newer_term(m.term, current_term[i])
          /\ m.term = current_term[i]
          /\ state[i] = "CANDIDATE"
          /\ m.granted = TRUE
          /\ votes_received' = [votes_received EXCEPT ![i] = @ + 1]
          /\ counted' = [counted EXCEPT ![i] = @ \cup {m.from}]
          /\ UNCHANGED <<current_term, voted_for, commit_index, last_applied,
                         volume, active, grants>>
          /\ \/ /\ votes_received[i] + 1 >= majority
                /\ become_leader(i)
             \/ /\ votes_received[i] + 1 < majority
                /\ UNCHANGED <<state, leader_id, next_index, match_index, log,
                               elections>>

\* A request of an older term is refused.  Otherwise the sender is the
\* leader; a candidate steps down in its own term, forgetting its vote.  The
\* entries of the request are never appended ("simplified" in the source):
\* success is answered as soon as the preceding entry matches.
handle_append_request(i, m, rest) ==
    LET newer == newer_term(m.term, current_term[i])
        stale == ~newer /\ m.term < current_term[i]
        reset == newer \/ (~stale /\ state[i] = "CANDIDATE")
        ok == ~stale /\ log_consistent(m, log[i])
        commit == IF m.leader_commit <= Len(log[i]) THEN m.leader_commit
                                                    ELSE Len(log[i])
    IN  /\ IF reset THEN become_follower(i, m.term)
                    ELSE UNCHANGED <<state, current_term, voted_for,
                                     votes_received, counted>>
        /\ leader_id' = IF stale THEN leader_id
                                 ELSE [leader_id EXCEPT ![i] = m.from]
        /\ commit_index' = IF ok /\ m.leader_commit > commit_index[i]
                             THEN [commit_index EXCEPT ![i] = commit]
                             ELSE commit_index
        /\ msgs' = rest \cup
             {[type |-> "APPEND_RESP", from |-> i, to |-> m.from,
               term |-> IF newer THEN m.term ELSE current_term[i],
               success |-> ok,
               match_index |->
                 IF ok THEN m.prev_log_index + m.entry_count ELSE 0]}
        /\ UNCHANGED <<log, last_applied, volume, peerVars, elections, grants>>

\* The commit loop assigns commit_index at every index of the current term
\* that a majority holds, so the largest of them is what remains.
advance_commit(i, match) ==
    LET reached == {commit_index[i]} \cup
                   {n \in commit_index[i] + 1 .. last_index(i) :
                       /\ replica_count(i, n, match) >= majority
                       /\ log[i][n].term = current_term[i]}
    IN  \E c \in reached :
            /\ \A n \in reached : n <= c
            /\ commit_index' = [commit_index EXCEPT ![i] = c]

\* The term of a response is compared for "newer" only.
handle_append_response(i, m, rest) ==
    /\ msgs' = rest
    /\ \/ /\ newer_term(m.term, current_term[i])
          /\ become_follower(i, m.term)
          /\ UNCHANGED <<leader_id, logVars, peerVars, elections, grants>>
       \/ /\ ~newer_term(m.term, current_term[i])
          /\ state[i] # "LEADER"
          /\ UNCHANGED <<raftVars, logVars, peerVars, history>>
       \/ /\ ~newer_term(m.term, current_term[i])
          /\ state[i] = "LEADER"
          /\ m.success = TRUE
          /\ match_index' = [match_index EXCEPT ![i][m.from] = m.match_index]
          /\ next_index' = [next_index EXCEPT ![i][m.from] = m.match_index + 1]
          /\ advance_commit(i, match_index'[i])
          /\ UNCHANGED <<raftVars, log, last_applied, volume, active, history>>
       \/ /\ ~newer_term(m.term, current_term[i])
          /\ state[i] = "LEADER"
          /\ m.success = FALSE
          /\ next_index' = [next_index EXCEPT ![i][m.from] = IF @ > 1 THEN @ - 1 ELSE @]
          /\ UNCHANGED <<raftVars, logVars, match_index, active, history>>

\* raft_recv_message dispatches on the type in the header.
raft_recv_message(m, rest) ==
    \/ m.type = "VOTE_REQ" /\ handle_vote_request(m.to, m, rest)
    \/ m.type = "VOTE_RESP" /\ handle_vote_response(m.to, m, rest)
    \/ m.type = "APPEND_REQ" /\ handle_append_request(m.to, m, rest)
    \/ m.type = "APPEND_RESP" /\ handle_append_response(m.to, m, rest)

\* One delivery by the transport: the message is taken out, or, for append
\* messages, may stay and be delivered again.
IsAppend(m) == m.type \in {"APPEND_REQ", "APPEND_RESP"}

Deliver(m) == raft_recv_message(m, msgs \ {m})
Redeliver(m) ==
    /\ IsAppend(m)
    /\ raft_recv_message(m, msgs)
Lose(m) ==
    /\ msgs' = msgs \ {m}
    /\ UNCHANGED <<raftVars, logVars, peerVars, history>>

-----------------------------------------------------------------------------
(* raft_tick: apply what is committed, then act on the timers. *)

\* Entry k as apply_storage_entry sees it: a write with data changes the
\* volume, a no-op and an entry without data do not.
apply_storage_entry(i) ==
    LET writes == {k \in last_applied[i] + 1 .. commit_index[i] :
                      log[i][k].data # Nil}
    IN  /\ last_applied' = [last_applied EXCEPT ![i] =
                              IF @ < commit_index[i] THEN commit_index[i] ELSE @]
        /\ \/ writes = {} /\ volume' = volume
           \/ \E k \in writes :
                /\ \A n \in writes : n <= k
                /\ volume' = [volume EXCEPT ![i] = log[i][k].data]

Heartbeat(i, j) ==
    [type |-> "APPEND_REQ", from |-> i, to |-> j, term |-> current_term[i],
     prev_log_index |-> next_index[i][j] - 1,
     prev_log_term |-> entry_term(log[i], next_index[i][j] - 1),
     leader_commit |-> commit_index[i], entry_count |-> 0]

NetworkHasRoom(i) == Cardinality(msgs) + Cardinality(Peers(i)) <= MaxInFlight

\* A tick on a leader whose heartbeat interval has elapsed.
HeartbeatTick(i) ==
    /\ state[i] = "LEADER"
    /\ NetworkHasRoom(i)
    /\ apply_storage_entry(i)
    /\ msgs' = msgs \cup {Heartbeat(i, j) : j \in Peers(i)}
    /\ UNCHANGED <<raftVars, log, commit_index, peerVars, history>>

\* A tick on any other node whose election timeout has elapsed.
ElectionTick(i) ==
    /\ state[i] # "LEADER"
    /\ current_term[i] < MaxTerm
    /\ NetworkHasRoom(i)
    /\ apply_storage_entry(i)
    /\ become_candidate(i)
    /\ UNCHANGED <<leader_id, log, commit_index, peerVars, elections>>

\* A tick that comes before either interval has elapsed.
IdleTick(i) ==
    /\ apply_storage_entry(i)
    /\ UNCHANGED <<raftVars, log, commit_index, peerVars, msgs, history>>

raft_tick(i) == HeartbeatTick(i) \/ ElectionTick(i) \/ IdleTick(i)

-----------------------------------------------------------------------------
\* dist_storage_write on a leader: raft_submit appends in the current term.
\* With a failed allocation in append_log_entry the caller is told -1 and the
\* entry stays, without its data.
dist_storage_write(i, d) ==
    /\ state[i] = "LEADER"
    /\ \E stored \in {d, Nil} :
         log' = [log EXCEPT ![i] = append_log_entry(@, current_term[i], stored)]
    /\ UNCHANGED <<raftVars, commit_index, last_applied, volume, peerVars,
                   msgs, history>>

\* raft_remove_node: the peer is skipped from now on, node_count stays.
raft_remove_node(i, j) ==
    /\ Cardinality({p \in Node \X Node : p[2] \notin active[p[1]]}) < MaxRemovals
    /\ active' = [active EXCEPT ![i] = @ \ {j}]
    /\ UNCHANGED <<raftVars, logVars, next_index, match_index, msgs, history>>

\* A node is rebooted: raft_init starts a zeroed context and the boot code
\* adds the nodes again.  Nothing is read back from storage.
raft_init(i) ==
    /\ state' = [state EXCEPT ![i] = "FOLLOWER"]
    /\ current_term' = [current_term EXCEPT ![i] = 0]
    /\ voted_for' = [voted_for EXCEPT ![i] = Nil]
    /\ votes_received' = [votes_received EXCEPT ![i] = 0]
    /\ leader_id' = [leader_id EXCEPT ![i] = Nil]
    /\ log' = [log EXCEPT ![i] = << >>]
    /\ commit_index' = [commit_index EXCEPT ![i] = 0]
    /\ last_applied' = [last_applied EXCEPT ![i] = 0]
    /\ next_index' = [next_index EXCEPT ![i] = [j \in Node |-> 1]]
    /\ match_index' = [match_index EXCEPT ![i] = [j \in Node |-> 0]]
    /\ active' = [active EXCEPT ![i] = Node]
    /\ counted' = [counted EXCEPT ![i] = {}]
    /\ UNCHANGED <<volume, msgs, elections, grants>>

-----------------------------------------------------------------------------
Next ==
    \/ \E m \in msgs : Deliver(m) \/ Redeliver(m) \/ Lose(m)
    \/ \E i \in Node : raft_tick(i)
    \/ \E i \in Node, d \in Data : dist_storage_write(i, d)
    \/ \E i, j \in Node : raft_remove_node(i, j)

Spec == Init /\ [][Next]_vars

\* The same system when nodes may also be rebooted.
CrashSpec == Init /\ [][Next \/ \E i \in Node : raft_init(i)]_vars

\* The transport for the liveness property: vote messages may be lost, nothing
\* is repeated, every channel keeps delivering what it holds, and every
\* leader's heartbeat interval elapses again and again (raft_tick is meant to be called
\* periodically).  The room in the network is a bound of the model, not of the
\* code, so a tick that finds room again and again is taken.
HeartbeatsArrive ==
    \/ \E m \in msgs : Deliver(m) \/ (~IsAppend(m) /\ Lose(m))
    \/ \E i \in Node : raft_tick(i)
    \/ \E i \in Node, d \in Data : dist_storage_write(i, d)

Fairness ==
    /\ \A i \in Node : SF_vars(HeartbeatTick(i)) /\ WF_vars(IdleTick(i))
    /\ \A i, j \in Node, k \in {"VOTE_REQ", "VOTE_RESP",
                                "APPEND_REQ", "APPEND_RESP"} :
           WF_vars(\E m \in msgs : /\ m.from = i
                                   /\ m.to = j
                                   /\ m.type = k
                                   /\ Deliver(m))

FairSpec == Init /\ [][HeartbeatsArrive]_vars /\ Fairness

-----------------------------------------------------------------------------
(* Properties. *)

RaftTypeOK ==
    /\ state \in [Node -> Role]
    /\ current_term \in [Node -> Nat]
    /\ voted_for \in [Node -> Node \cup {Nil}]
    /\ votes_received \in [Node -> Nat]
    /\ leader_id \in [Node -> Node \cup {Nil}]
LogTypeOK ==
    /\ log \in [Node -> Seq(Entry)]
    /\ commit_index \in [Node -> Nat]
    /\ last_applied \in [Node -> Nat]
    /\ volume \in [Node -> Data \cup {Nil}]
    /\ \A i \in Node : /\ last_applied[i] <= commit_index[i]
                       /\ commit_index[i] <= Len(log[i])
                       /\ Len(log[i]) < RAFT_LOG_SIZE
PeerTypeOK ==
    /\ next_index \in [Node -> [Node -> Nat \ {0}]]
    /\ match_index \in [Node -> [Node -> Nat]]
    /\ active \in [Node -> SUBSET Node]
HistoryTypeOK ==
    /\ elections \subseteq Node \X Nat
    /\ grants \subseteq Node \X Nat \X Node
    /\ counted \in [Node -> SUBSET Node]

\* Every variable of every context keeps its type; the indexes of a context
\* stay ordered: last_applied <= commit_index <= last_index < RAFT_LOG_SIZE.
TypeOK ==
    /\ RaftTypeOK
    /\ LogTypeOK
    /\ PeerTypeOK
    /\ msgs \subseteq Message
    /\ HistoryTypeOK

\* Election safety: at most one node ever becomes leader of a term
\* (become_leader), although a candidate that steps down in its own term
\* forgets its vote (become_follower) and votes are counted without a record
\* of who sent them (handle_vote_response).
ElectionSafety ==
    \A e, f \in elections : e[2] = f[2] => e[1] = f[1]

\* A context never goes back: no handler lowers the term or rewrites or drops
\* a log entry, whatever the order of the messages.
NoRollback ==
    [][\A i \in Node :
         /\ current_term'[i] >= current_term[i]
         /\ Len(log'[i]) >= Len(log[i])
         /\ \A k \in 1..Len(log[i]) : log'[i][k] = log[i][k]]_vars

\* Within a term a vote is withdrawn or given anew only when a leader of that
\* very term already exists (the same-term become_follower in
\* handle_append_request), so a second vote can no longer elect anyone.
SecondVoteIsHarmless ==
    [][\A i \in Node :
         /\ current_term'[i] = current_term[i]
         /\ voted_for[i] # Nil
         /\ voted_for'[i] # voted_for[i]
         => \E e \in elections : e[2] = current_term[i]]_vars

\* Two leaders of different terms do not last: the one of the older term, even
\* if it never heard of the election, is told of the newer term by a heartbeat
\* or by the answer to its own (handle_append_request, handle_append_response),
\* and steps down.
Superseded(i) ==
    /\ state[i] = "LEADER"
    /\ \E j \in Node : state[j] = "LEADER" /\ current_term[j] > current_term[i]
StaleLeaderStepsDown ==
    \A i \in Node : Superseded(i) ~> ~Superseded(i)

\* What the header says of raft_submit and dist_storage_write: an entry that a
\* leader accepted reaches the log of another node, unless the leader loses its
\* office first (raft_submit, raft_tick, handle_append_request).
Holds(i, d) == \E k \in 1..Len(log[i]) : log[i][k].data = d
SubmittedIsReplicated ==
    \A i \in Node, d \in Data :
        state[i] = "LEADER" /\ Holds(i, d)
            ~> state[i] # "LEADER" \/ \E j \in Node \ {i} : Holds(j, d)

-----------------------------------------------------------------------------
(* The inductive invariants behind ElectionSafety, and of what the log     *)
(* becomes.                                                                *)

Won(t) == \E e \in elections : e[2] = t

\* The vote of w in term t is l's for good: w voted for no one else in t and,
\* as long as it stays in t, cannot be talked out of it.
Locked(w, t, l) ==
    /\ <<w, t, l>> \in grants
    /\ \A c \in Node : <<w, t, c>> \in grants => c = l
    /\ current_term[w] = t =>
         /\ voted_for[w] = l
         /\ state[w] = "CANDIDATE" => w = l

\* Votes are given in terms both sides have reached, and voted_for, a
\* candidate's own vote and the count of votes agree with the votes given.
VotesRecorded ==
    /\ \A g \in grants : g[2] <= current_term[g[1]] /\ g[2] <= current_term[g[3]]
    /\ \A i \in Node :
         /\ voted_for[i] # Nil => <<i, current_term[i], voted_for[i]>> \in grants
         /\ state[i] = "CANDIDATE" => voted_for[i] = i
         /\ \A v \in counted[i] : <<v, current_term[i], i>> \in grants
         /\ votes_received[i] = Cardinality(counted[i])

\* A vote request in flight has not been answered, and a vote in flight has
\* not been counted.
VotesInFlight ==
    \A m \in msgs :
        /\ m.type = "VOTE_REQ" =>
             /\ m.from # m.to
             /\ m.term <= current_term[m.from]
             /\ <<m.to, m.term, m.from>> \notin grants
             /\ \A n \in msgs : /\ n.type = "VOTE_REQ"
                                /\ n.from = m.from
                                /\ n.to = m.to
                                /\ n.term = m.term
                                => n = m
        /\ m.type = "VOTE_RESP" /\ m.granted = TRUE =>
             /\ <<m.from, m.term, m.to>> \in grants
             /\ m.term = current_term[m.to] => m.from \notin counted[m.to]

\* As long as a term has no leader, every vote given in it is locked.
OpenTermsLocked ==
    \A g \in grants : ~Won(g[2]) => Locked(g[1], g[2], g[3])

\* A leader was elected by a majority whose votes are locked on it.
LeadersBacked ==
    \A e \in elections :
        \E W \in SUBSET Node :
            /\ Cardinality(W) >= majority
            /\ \A w \in W : Locked(w, e[2], e[1])

\* Only a leader of the term sends append requests, calls itself leader, or
\* is called leader by others.
LeadersElected ==
    /\ \A i \in Node : state[i] = "LEADER" => <<i, current_term[i]>> \in elections
    /\ \A m \in msgs : m.type = "APPEND_REQ" =>
           m.from # m.to /\ <<m.from, m.term>> \in elections

\* The inductive invariant: what becomes of every vote handle_vote_request
\* gives, from the request through the response to the leader it elects.
ElectionInv ==
    /\ TypeOK
    /\ VotesRecorded
    /\ VotesInFlight
    /\ OpenTermsLocked
    /\ LeadersBacked
    /\ LeadersElected

\* Why SubmittedIsReplicated fails, in every cluster: log entries are written by
\* leaders in their own log and sent to nobody, a request only quotes an entry of
\* its sender, no follower ever matches one, and no index of any node is committed.
NothingReplicated ==
    /\ \A i \in Node :
         /\ \A k \in 1..Len(log[i]) : <<i, log[i][k].term>> \in elections
         /\ commit_index[i] = 0
         /\ \A j \in Node : /\ match_index[i][j] = 0
                            /\ next_index[i][j] <= Len(log[i]) + 1
    /\ \A m \in msgs :
         /\ m.type = "APPEND_REQ" =>
              /\ m.leader_commit = 0
              /\ m.entry_count = 0
              /\ m.prev_log_index > 0 =>
                   /\ m.prev_log_index <= Len(log[m.from])
                   /\ log[m.from][m.prev_log_index].term = m.prev_log_term
         /\ m.type = "APPEND_RESP" => m.from # m.to /\ m.match_index = 0
=============================================================================
