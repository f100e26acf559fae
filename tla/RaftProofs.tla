----------------------------- MODULE RaftProofs -----------------------------
(***************************************************************************)
(* Machine-checked proofs about module Raft, for every set of nodes, every *)
(* term bound and every network capacity.                                  *)
(***************************************************************************)
EXTENDS Raft, FiniteSetTheorems, TLAPS

-----------------------------------------------------------------------------
(* Facts about the operators the handlers are built from. *)

\* Two sets of at least `majority' nodes share a node.
LEMMA MajoritiesMeet ==
    ASSUME NEW V \in SUBSET Node, Cardinality(V) >= majority,
           NEW W \in SUBSET Node, Cardinality(W) >= majority
    PROVE  \E w \in Node : w \in V /\ w \in W
<1>1. IsFiniteSet(V) /\ IsFiniteSet(W)
  BY NodeAssumption, FS_Subset
<1>2. Cardinality(V) \in Nat /\ Cardinality(W) \in Nat /\ Cardinality(Node) \in Nat
  BY <1>1, NodeAssumption, FS_CardinalityType
<1>3. Cardinality(V) + Cardinality(W) > Cardinality(Node)
  BY <1>2 DEF majority
<1>4. V \cap W # {}
  BY <1>3, NodeAssumption, FS_MajoritiesIntersect
<1> QED
  BY <1>4

\* append_log_entry keeps what is in the log, adds at most one entry, of the
\* given term, and never fills the last slot of the array.
LEMMA AppendKeeps ==
    ASSUME NEW l \in Seq(Entry), Len(l) < RAFT_LOG_SIZE,
           NEW t \in Nat, NEW d \in Data \cup {Nil}
    PROVE  /\ append_log_entry(l, t, d) \in Seq(Entry)
           /\ Len(append_log_entry(l, t, d)) < RAFT_LOG_SIZE
           /\ Len(append_log_entry(l, t, d)) >= Len(l)
           /\ \A k \in 1..Len(l) : append_log_entry(l, t, d)[k] = l[k]
           /\ \A k \in 1..Len(append_log_entry(l, t, d)) :
                 k \in 1..Len(l) \/ append_log_entry(l, t, d)[k].term = t
<1> DEFINE e == [term |-> t, data |-> d]
<1>1. e \in Entry
  BY DEF Entry
<1>2. Len(l) \in Nat
  OBVIOUS
<1>3. CASE Len(l) >= RAFT_LOG_SIZE - 1
  BY <1>2, <1>3 DEF append_log_entry
<1>4. CASE ~(Len(l) >= RAFT_LOG_SIZE - 1)
  <2>1. append_log_entry(l, t, d) = Append(l, e)
    BY <1>4 DEF append_log_entry
  <2>2. /\ Append(l, e) \in Seq(Entry)
        /\ Len(Append(l, e)) = Len(l) + 1
        /\ \A k \in 1..Len(l) : Append(l, e)[k] = l[k]
        /\ Append(l, e)[Len(l) + 1] = e
    BY <1>1
  <2>3. Len(l) + 1 < RAFT_LOG_SIZE
    BY <1>2, <1>4, BoundAssumption
  <2>4. \A k \in 1..Len(l) + 1 : k \in 1..Len(l) \/ k = Len(l) + 1
    BY <1>2
  <2>5. e.term = t
    OBVIOUS
  <2> HIDE DEF e
  <2> QED
    BY <1>2, <2>1, <2>2, <2>3, <2>4, <2>5
<1> QED
  BY <1>3, <1>4

\* The part of it about old entries.
LEMMA AppendPrefix ==
    ASSUME NEW l \in Seq(Entry), Len(l) < RAFT_LOG_SIZE,
           NEW t \in Nat, NEW e \in Data \cup {Nil},
           NEW k \in 1..Len(l)
    PROVE  append_log_entry(l, t, e)[k] = l[k]
  BY AppendKeeps

\* The term get_last_log_term and the heartbeat put into a message is a
\* natural number.
LEMMA LogTerms ==
    ASSUME NEW l \in Seq(Entry)
    PROVE  /\ get_last_log_term(l) \in Nat
           /\ \A k \in Nat : entry_term(l, k) \in Nat
<1>1. \A k \in 1..Len(l) : l[k] \in Entry
  OBVIOUS
<1>2. \A k \in 1..Len(l) : l[k].term \in Nat
  BY <1>1 DEF Entry
<1>3. Len(l) \in Nat
  OBVIOUS
<1>4. Len(l) # 0 => Len(l) \in 1..Len(l)
  BY <1>3
<1> QED
  BY <1>2, <1>4 DEF get_last_log_term, entry_term

-----------------------------------------------------------------------------
(* Type correctness. *)

\* What each kind of message carries.
LEMMA MessageFields ==
    ASSUME NEW m \in Message
    PROVE  /\ m.from \in Node /\ m.to \in Node /\ m.term \in Nat
           /\ m.type \in {"VOTE_REQ", "VOTE_RESP", "APPEND_REQ", "APPEND_RESP"}
           /\ m.type = "VOTE_REQ" =>
                m.last_log_index \in Nat /\ m.last_log_term \in Nat
           /\ m.type = "VOTE_RESP" => m.granted \in BOOLEAN
           /\ m.type = "APPEND_REQ" =>
                /\ m.prev_log_index \in Nat /\ m.prev_log_term \in Nat
                /\ m.leader_commit \in Nat /\ m.entry_count \in Nat
           /\ m.type = "APPEND_RESP" =>
                m.success \in BOOLEAN /\ m.match_index \in Nat
<1>1. CASE m \in VoteRequest
  BY <1>1 DEF VoteRequest
<1>2. CASE m \in VoteResponse
  BY <1>2 DEF VoteResponse
<1>3. CASE m \in AppendRequest
  BY <1>3 DEF AppendRequest
<1>4. CASE m \in AppendResponse
  BY <1>4 DEF AppendResponse
<1> QED
  BY <1>1, <1>2, <1>3, <1>4 DEF Message

LEMMA TypeInit == Init => TypeOK
<1> SUFFICES ASSUME Init PROVE TypeOK
  OBVIOUS
<1>1. Len(<<>>) = 0 /\ << >> \in Seq(Entry)
  OBVIOUS
<1>2. 0 < RAFT_LOG_SIZE
  BY BoundAssumption
<1> QED
  BY <1>1, <1>2 DEF Init, TypeOK, Role, RaftTypeOK, LogTypeOK, PeerTypeOK,
                    HistoryTypeOK

LEMMA TypeVoteRequest ==
    ASSUME TypeOK, NEW m \in msgs, m.type = "VOTE_REQ",
           NEW rest \in SUBSET msgs, handle_vote_request(m.to, m, rest)
    PROVE  TypeOK'
<1>1. m \in Message
  BY DEF TypeOK
<1>2. m.from \in Node /\ m.to \in Node /\ m.term \in Nat
  BY <1>1, MessageFields
<1> DEFINE i == m.to
           newer == newer_term(m.term, current_term[i])
           term == IF newer THEN m.term ELSE current_term[i]
           vote == IF newer THEN Nil ELSE voted_for[i]
           grant == /\ m.term >= term
                    /\ vote_free(vote, m.from)
                    /\ up_to_date(m, log[i])
           resp == [type |-> "VOTE_RESP", from |-> i, to |-> m.from,
                    term |-> term, granted |-> grant]
<1>3. term \in Nat /\ vote \in Node \cup {Nil} /\ grant \in BOOLEAN
  BY <1>2 DEF TypeOK, RaftTypeOK, newer_term, vote_free, up_to_date
<1>4. resp \in VoteResponse
  BY <1>2, <1>3 DEF VoteResponse
<1>5. /\ state' = IF newer THEN [state EXCEPT ![i] = "FOLLOWER"] ELSE state
      /\ current_term' = [current_term EXCEPT ![i] = term]
      /\ voted_for' = [voted_for EXCEPT ![i] = IF grant THEN m.from ELSE vote]
      /\ votes_received' =
             IF newer THEN [votes_received EXCEPT ![i] = 0] ELSE votes_received
      /\ counted' = IF newer THEN [counted EXCEPT ![i] = {}] ELSE counted
      /\ grants' = IF grant THEN grants \cup {<<i, term, m.from>>} ELSE grants
      /\ msgs' = rest \cup {resp}
      /\ UNCHANGED <<leader_id, logVars, peerVars, elections>>
  BY DEF handle_vote_request
<1> HIDE DEF newer, term, vote, grant, resp
<1>6. msgs' \subseteq Message
  BY <1>4, <1>5 DEF TypeOK, Message
<1>7. RaftTypeOK'
  BY <1>2, <1>3, <1>5 DEF TypeOK, RaftTypeOK, Role
<1>8. LogTypeOK' /\ PeerTypeOK'
  BY <1>5 DEF TypeOK, LogTypeOK, PeerTypeOK, logVars, peerVars
<1>9. HistoryTypeOK'
  BY <1>2, <1>3, <1>5 DEF TypeOK, HistoryTypeOK
<1> QED
  BY <1>6, <1>7, <1>8, <1>9 DEF TypeOK

LEMMA TypeFollower ==
    ASSUME TypeOK, NEW i \in Node, NEW t \in Nat, become_follower(i, t)
    PROVE  /\ state' \in [Node -> Role] /\ current_term' \in [Node -> Nat]
           /\ voted_for' \in [Node -> Node \cup {Nil}]
           /\ votes_received' \in [Node -> Nat]
           /\ counted' \in [Node -> SUBSET Node]
BY DEF TypeOK, RaftTypeOK, HistoryTypeOK, become_follower, Role

LEMMA TypeVoteResponse ==
    ASSUME TypeOK, NEW m \in msgs, m.type = "VOTE_RESP",
           NEW rest \in SUBSET msgs, handle_vote_response(m.to, m, rest)
    PROVE  TypeOK'
<1>1. m.from \in Node /\ m.to \in Node /\ m.term \in Nat
  BY MessageFields DEF TypeOK
<1> DEFINE i == m.to
<1>2. msgs' \subseteq Message
  BY DEF TypeOK, handle_vote_response
<1>3. CASE /\ become_follower(i, m.term)
           /\ UNCHANGED <<leader_id, logVars, peerVars, elections, grants>>
  <2>1. RaftTypeOK' /\ HistoryTypeOK'
    BY <1>1, <1>3, TypeFollower DEF TypeOK, RaftTypeOK, HistoryTypeOK
  <2>2. LogTypeOK' /\ PeerTypeOK'
    BY <1>3 DEF TypeOK, LogTypeOK, PeerTypeOK, logVars, peerVars
  <2> QED
    BY <1>2, <2>1, <2>2 DEF TypeOK
<1>4. CASE UNCHANGED <<raftVars, logVars, peerVars, history>>
  BY <1>2, <1>4 DEF TypeOK, RaftTypeOK, LogTypeOK, PeerTypeOK, HistoryTypeOK,
                    raftVars, logVars, peerVars, history
<1>5. CASE /\ votes_received' = [votes_received EXCEPT ![i] = @ + 1]
           /\ counted' = [counted EXCEPT ![i] = @ \cup {m.from}]
           /\ UNCHANGED <<current_term, voted_for, commit_index, last_applied,
                          volume, active, grants>>
           /\ \/ become_leader(i)
              \/ UNCHANGED <<state, leader_id, next_index, match_index, log,
                             elections>>
  <2>1. votes_received' \in [Node -> Nat] /\ counted' \in [Node -> SUBSET Node]
    BY <1>1, <1>5 DEF TypeOK, RaftTypeOK, HistoryTypeOK
  <2>2. CASE UNCHANGED <<state, leader_id, next_index, match_index, log, elections>>
    BY <1>2, <1>5, <2>1, <2>2
       DEF TypeOK, RaftTypeOK, LogTypeOK, PeerTypeOK, HistoryTypeOK
  <2>3. CASE become_leader(i)
    <3> DEFINE l == append_log_entry(log[i], current_term[i], Nil)
    <3>1. current_term[i] \in Nat /\ log[i] \in Seq(Entry)
      BY <1>1 DEF TypeOK, RaftTypeOK, LogTypeOK
    <3>2. l \in Seq(Entry) /\ Len(l) < RAFT_LOG_SIZE /\ Len(l) >= Len(log[i])
      BY <1>1, <3>1, AppendKeeps DEF TypeOK, LogTypeOK
    <3>3. log' = [log EXCEPT ![i] = l]
      BY <2>3 DEF become_leader
    <3> HIDE DEF l
    <3>4. LogTypeOK'
      BY <1>1, <1>5, <3>1, <3>2, <3>3 DEF TypeOK, LogTypeOK
    <3>5. RaftTypeOK'
      BY <1>1, <1>5, <2>1, <2>3 DEF TypeOK, RaftTypeOK, become_leader, Role
    <3>6. PeerTypeOK'
      <4> DEFINE fresh == [j \in Node |-> last_index(i) + 1]
                 none == [j \in Node |-> 0]
      <4>1. fresh \in [Node -> Nat \ {0}] /\ none \in [Node -> Nat]
        BY <3>1 DEF last_index
      <4>2. /\ next_index' = [next_index EXCEPT ![i] = fresh]
            /\ match_index' = [match_index EXCEPT ![i] = none]
        BY <2>3 DEF become_leader
      <4> HIDE DEF fresh, none
      <4> QED
        BY <1>1, <1>5, <4>1, <4>2 DEF TypeOK, PeerTypeOK
    <3>7. HistoryTypeOK'
      BY <1>1, <1>5, <2>1, <2>3, <3>1 DEF TypeOK, HistoryTypeOK, become_leader
    <3> QED
      BY <1>2, <3>4, <3>5, <3>6, <3>7 DEF TypeOK
  <2> QED
    BY <1>5, <2>2, <2>3
<1> QED
  BY <1>3, <1>4, <1>5 DEF handle_vote_response

LEMMA TypeAppendRequest ==
    ASSUME TypeOK, NEW m \in msgs, m.type = "APPEND_REQ",
           NEW rest \in SUBSET msgs, handle_append_request(m.to, m, rest)
    PROVE  TypeOK'
<1>1. /\ m.from \in Node /\ m.to \in Node /\ m.term \in Nat
      /\ m.prev_log_index \in Nat /\ m.entry_count \in Nat
      /\ m.leader_commit \in Nat
  BY MessageFields DEF TypeOK
<1> DEFINE i == m.to
           newer == newer_term(m.term, current_term[i])
           stale == ~newer /\ m.term < current_term[i]
           ok == ~stale /\ log_consistent(m, log[i])
           commit == IF m.leader_commit <= Len(log[i]) THEN m.leader_commit
                                                       ELSE Len(log[i])
           resp == [type |-> "APPEND_RESP", from |-> i, to |-> m.from,
                    term |-> IF newer THEN m.term ELSE current_term[i],
                    success |-> ok,
                    match_index |->
                      IF ok THEN m.prev_log_index + m.entry_count ELSE 0]
<1>2. /\ \/ become_follower(i, m.term)
         \/ UNCHANGED <<state, current_term, voted_for, votes_received, counted>>
      /\ leader_id' = IF stale THEN leader_id
                               ELSE [leader_id EXCEPT ![i] = m.from]
      /\ \/ /\ m.leader_commit > commit_index[i]
            /\ commit_index' = [commit_index EXCEPT ![i] = commit]
         \/ commit_index' = commit_index
      /\ msgs' = rest \cup {resp}
      /\ UNCHANGED <<log, last_applied, volume, peerVars, elections, grants>>
  BY DEF handle_append_request
<1>3. current_term[i] \in Nat /\ Len(log[i]) \in Nat
  BY <1>1 DEF TypeOK, RaftTypeOK, LogTypeOK
<1>4. resp \in AppendResponse
  <2>1. ok \in BOOLEAN
    BY DEF log_consistent
  <2> HIDE DEF ok
  <2> QED
    BY <1>1, <1>3, <2>1 DEF AppendResponse
<1>5. commit \in Nat /\ commit <= Len(log[i])
  BY <1>1, <1>3
<1>6. m.leader_commit > commit_index[i] => commit >= commit_index[i]
  BY <1>1, <1>3 DEF TypeOK, LogTypeOK
<1> HIDE DEF newer, stale, ok, commit, resp
<1>7. msgs' \subseteq Message
  BY <1>2, <1>4 DEF TypeOK, Message
<1>8. RaftTypeOK' /\ HistoryTypeOK'
  BY <1>1, <1>2, TypeFollower DEF TypeOK, RaftTypeOK, HistoryTypeOK
<1>9. LogTypeOK'
  <2>1. CASE /\ m.leader_commit > commit_index[i]
             /\ commit_index' = [commit_index EXCEPT ![i] = commit]
    <3>1. /\ commit_index' \in [Node -> Nat]
          /\ \A j \in Node : /\ commit_index'[j] >= commit_index[j]
                             /\ commit_index'[j] <= Len(log[j])
      BY <1>1, <1>3, <1>5, <1>6, <2>1 DEF TypeOK, LogTypeOK
    <3>2. \A j \in Node : last_applied[j] <= commit_index'[j]
      BY <3>1 DEF TypeOK, LogTypeOK
    <3> QED
      BY <1>2, <3>1, <3>2 DEF TypeOK, LogTypeOK
  <2>2. CASE commit_index' = commit_index
    BY <1>2, <2>2 DEF TypeOK, LogTypeOK
  <2> QED
    BY <1>2, <2>1, <2>2
<1>10. PeerTypeOK'
  BY <1>2 DEF TypeOK, PeerTypeOK, peerVars
<1> QED
  BY <1>7, <1>8, <1>9, <1>10 DEF TypeOK

LEMMA TypeAppendResponse ==
    ASSUME TypeOK, NEW m \in msgs, m.type = "APPEND_RESP",
           NEW rest \in SUBSET msgs, handle_append_response(m.to, m, rest)
    PROVE  TypeOK'
<1>1. /\ m.from \in Node /\ m.to \in Node /\ m.term \in Nat
      /\ m.match_index \in Nat
  BY MessageFields DEF TypeOK
<1> DEFINE i == m.to
<1>2. msgs' \subseteq Message
  BY DEF TypeOK, handle_append_response
<1>3. CASE /\ become_follower(i, m.term)
           /\ UNCHANGED <<leader_id, logVars, peerVars, elections, grants>>
  <2>1. RaftTypeOK' /\ HistoryTypeOK'
    BY <1>1, <1>3, TypeFollower DEF TypeOK, RaftTypeOK, HistoryTypeOK
  <2>2. LogTypeOK' /\ PeerTypeOK'
    BY <1>3 DEF TypeOK, LogTypeOK, PeerTypeOK, logVars, peerVars
  <2> QED
    BY <1>2, <2>1, <2>2 DEF TypeOK
<1>4. CASE UNCHANGED <<raftVars, logVars, peerVars, history>>
  BY <1>2, <1>4 DEF TypeOK, RaftTypeOK, LogTypeOK, PeerTypeOK, HistoryTypeOK,
                    raftVars, logVars, peerVars, history
<1>5. CASE /\ match_index' = [match_index EXCEPT ![i][m.from] = m.match_index]
           /\ next_index' = [next_index EXCEPT ![i][m.from] = m.match_index + 1]
           /\ advance_commit(i, match_index'[i])
           /\ UNCHANGED <<raftVars, log, last_applied, volume, active, history>>
  <2>1. Len(log[i]) \in Nat /\ commit_index[i] \in Nat
    BY <1>1 DEF TypeOK, LogTypeOK
  <2>2. PICK c \in Nat : /\ c >= commit_index[i]
                         /\ c <= Len(log[i])
                         /\ commit_index' = [commit_index EXCEPT ![i] = c]
    <3> DEFINE reached == {commit_index[i]} \cup
                   {n \in commit_index[i] + 1 .. last_index(i) :
                       /\ replica_count(i, n, match_index'[i]) >= majority
                       /\ log[i][n].term = current_term[i]}
    <3>1. PICK c \in reached : /\ \A n \in reached : n <= c
                               /\ commit_index' = [commit_index EXCEPT ![i] = c]
      BY <1>5 DEF advance_commit
    <3>2. commit_index[i] <= Len(log[i])
      BY <1>1 DEF TypeOK, LogTypeOK
    <3>3. c \in Nat /\ c >= commit_index[i] /\ c <= Len(log[i])
      BY <2>1, <3>1, <3>2 DEF last_index
    <3> QED
      BY <3>1, <3>3
  <2>3. LogTypeOK'
    BY <1>1, <1>5, <2>1, <2>2 DEF TypeOK, LogTypeOK
  <2>4. PeerTypeOK'
    BY <1>1, <1>5 DEF TypeOK, PeerTypeOK
  <2> QED
    BY <1>2, <1>5, <2>3, <2>4 DEF TypeOK, RaftTypeOK, HistoryTypeOK, raftVars, history
<1>6. CASE /\ next_index' = [next_index EXCEPT ![i][m.from] = IF @ > 1 THEN @ - 1 ELSE @]
           /\ UNCHANGED <<raftVars, logVars, match_index, active, history>>
  <2>1. PeerTypeOK'
    BY <1>1, <1>6 DEF TypeOK, PeerTypeOK
  <2> QED
    BY <1>2, <1>6, <2>1 DEF TypeOK, RaftTypeOK, LogTypeOK, HistoryTypeOK,
                            raftVars, logVars, history
<1> QED
  BY <1>3, <1>4, <1>5, <1>6 DEF handle_append_response

LEMMA TypeApply ==
    ASSUME TypeOK, NEW i \in Node, apply_storage_entry(i),
           UNCHANGED <<log, commit_index>>
    PROVE  LogTypeOK'
<1> DEFINE writes == {k \in last_applied[i] + 1 .. commit_index[i] :
                         log[i][k].data # Nil}
           upto == IF last_applied[i] < commit_index[i] THEN commit_index[i]
                                                        ELSE last_applied[i]
<1>1. upto \in Nat /\ upto <= commit_index[i]
  BY DEF TypeOK, LogTypeOK
<1>2. last_applied' = [last_applied EXCEPT ![i] = upto]
  BY DEF apply_storage_entry
<1>3. volume' \in [Node -> Data \cup {Nil}]
  <2>1. CASE volume' = volume
    BY <2>1 DEF TypeOK, LogTypeOK
  <2>2. CASE \E k \in writes : volume' = [volume EXCEPT ![i] = log[i][k].data]
    <3>1. PICK k \in writes : volume' = [volume EXCEPT ![i] = log[i][k].data]
      BY <2>2
    <3>2. k \in 1..Len(log[i])
      BY <3>1 DEF TypeOK, LogTypeOK
    <3>3. log[i][k] \in Entry
      BY <3>2 DEF TypeOK, LogTypeOK
    <3>4. log[i][k].data \in Data \cup {Nil}
      BY <3>3 DEF Entry
    <3> QED
      BY <3>1, <3>4 DEF TypeOK, LogTypeOK
  <2> QED
    BY <2>1, <2>2 DEF apply_storage_entry
<1> HIDE DEF upto
<1> QED
  BY <1>1, <1>2, <1>3 DEF TypeOK, LogTypeOK

LEMMA TypeTick ==
    ASSUME TypeOK, NEW i \in Node, raft_tick(i)
    PROVE  TypeOK'
<1>1. CASE HeartbeatTick(i)
  <2>1. LogTypeOK'
    BY <1>1, TypeApply DEF HeartbeatTick
  <2>2. \A j \in Peers(i) : Heartbeat(i, j) \in AppendRequest
    <3> TAKE j \in Peers(i)
    <3>1. j \in Node
      BY DEF TypeOK, PeerTypeOK, Peers
    <3>2. next_index[i][j] - 1 \in Nat
      BY <3>1 DEF TypeOK, PeerTypeOK
    <3>3. entry_term(log[i], next_index[i][j] - 1) \in Nat
      BY <3>2, LogTerms DEF TypeOK, LogTypeOK
    <3>4. current_term[i] \in Nat /\ commit_index[i] \in Nat
      BY DEF TypeOK, RaftTypeOK, LogTypeOK
    <3> QED
      BY <3>1, <3>2, <3>3, <3>4 DEF Heartbeat, AppendRequest
  <2>3. msgs' \subseteq Message
    BY <1>1, <2>2 DEF HeartbeatTick, Message, TypeOK
  <2> QED
    BY <1>1, <2>1, <2>3 DEF TypeOK, HeartbeatTick, RaftTypeOK, PeerTypeOK,
                            HistoryTypeOK, raftVars, peerVars, history
<1>2. CASE ElectionTick(i)
  <2>1. LogTypeOK'
    BY <1>2, TypeApply DEF ElectionTick
  <2>2. current_term[i] \in Nat /\ Len(log[i]) \in Nat
        /\ get_last_log_term(log[i]) \in Nat
    BY LogTerms DEF TypeOK, RaftTypeOK, LogTypeOK
  <2>3. msgs' \subseteq Message
    <3> DEFINE req(j) == [type |-> "VOTE_REQ", from |-> i, to |-> j,
           term |-> current_term[i] + 1, last_log_index |-> last_index(i),
           last_log_term |-> get_last_log_term(log[i])]
    <3>1. \A j \in Peers(i) : req(j) \in VoteRequest
      BY <2>2 DEF VoteRequest, Peers, TypeOK, PeerTypeOK, last_index
    <3>2. msgs' = msgs \cup {req(j) : j \in Peers(i)}
      BY <1>2 DEF ElectionTick, become_candidate
    <3> HIDE DEF req
    <3> QED
      BY <3>1, <3>2 DEF TypeOK, Message
  <2>4. RaftTypeOK'
    BY <1>2, <2>2 DEF ElectionTick, become_candidate, TypeOK, RaftTypeOK, Role
  <2>5. HistoryTypeOK'
    BY <1>2, <2>2 DEF ElectionTick, become_candidate, TypeOK, HistoryTypeOK
  <2>6. PeerTypeOK'
    BY <1>2 DEF ElectionTick, TypeOK, PeerTypeOK, peerVars
  <2> QED
    BY <2>1, <2>3, <2>4, <2>5, <2>6 DEF TypeOK
<1>3. CASE IdleTick(i)
  <2>1. LogTypeOK'
    BY <1>3, TypeApply DEF IdleTick
  <2> QED
    BY <1>3, <2>1 DEF TypeOK, IdleTick, RaftTypeOK, PeerTypeOK,
                      HistoryTypeOK, raftVars, peerVars, history
<1> QED
  BY <1>1, <1>2, <1>3 DEF raft_tick

LEMMA TypeWrite ==
    ASSUME TypeOK, NEW i \in Node, NEW d \in Data, dist_storage_write(i, d)
    PROVE  TypeOK'
<1>1. PICK e \in {d, Nil} :
         log' = [log EXCEPT ![i] = append_log_entry(@, current_term[i], e)]
  BY DEF dist_storage_write
<1> DEFINE l == append_log_entry(log[i], current_term[i], e)
<1>2. current_term[i] \in Nat /\ log[i] \in Seq(Entry)
  BY DEF TypeOK, RaftTypeOK, LogTypeOK
<1>3. l \in Seq(Entry) /\ Len(l) < RAFT_LOG_SIZE /\ Len(l) >= Len(log[i])
  BY <1>2, AppendKeeps DEF TypeOK, LogTypeOK
<1>4. log' = [log EXCEPT ![i] = l]
  BY <1>1
<1> HIDE DEF l
<1>5. LogTypeOK'
  BY <1>2, <1>3, <1>4 DEF TypeOK, LogTypeOK, dist_storage_write
<1> QED
  BY <1>5 DEF TypeOK, dist_storage_write, RaftTypeOK, PeerTypeOK,
              HistoryTypeOK, raftVars, peerVars, history

\* A delivery is one of the four handlers, run on the network with or without
\* the message; a vote message is always taken out.
LEMMA DeliveryCases ==
    ASSUME TypeOK, NEW m \in msgs, Deliver(m) \/ Redeliver(m)
    PROVE  \E rest \in SUBSET msgs :
             /\ ~IsAppend(m) => rest = msgs \ {m}
             /\ \/ m.type = "VOTE_REQ" /\ handle_vote_request(m.to, m, rest)
                \/ m.type = "VOTE_RESP" /\ handle_vote_response(m.to, m, rest)
                \/ m.type = "APPEND_REQ" /\ handle_append_request(m.to, m, rest)
                \/ m.type = "APPEND_RESP" /\ handle_append_response(m.to, m, rest)
<1>1. CASE Deliver(m)
  <2>1. msgs \ {m} \in SUBSET msgs
    OBVIOUS
  <2> QED
    BY <1>1, <2>1 DEF Deliver, raft_recv_message
<1>2. CASE Redeliver(m)
  <2>1. msgs \in SUBSET msgs
    OBVIOUS
  <2> QED
    BY <1>2, <2>1 DEF Redeliver, raft_recv_message
<1> QED
  BY <1>1, <1>2

LEMMA TypeNext == TypeOK /\ [Next]_vars => TypeOK'
<1> SUFFICES ASSUME TypeOK, [Next]_vars PROVE TypeOK'
  OBVIOUS
<1>1. ASSUME NEW m \in msgs, Deliver(m) \/ Redeliver(m) PROVE TypeOK'
  BY <1>1, DeliveryCases, TypeVoteRequest, TypeVoteResponse,
     TypeAppendRequest, TypeAppendResponse
<1>2. ASSUME NEW m \in msgs, Lose(m) PROVE TypeOK'
  BY <1>2 DEF Lose, TypeOK, RaftTypeOK, LogTypeOK, PeerTypeOK, HistoryTypeOK,
              raftVars, logVars, peerVars, history
<1>3. ASSUME NEW i \in Node, raft_tick(i) PROVE TypeOK'
  BY <1>3, TypeTick
<1>4. ASSUME NEW i \in Node, NEW d \in Data, dist_storage_write(i, d) PROVE TypeOK'
  BY <1>4, TypeWrite
<1>5. ASSUME NEW i \in Node, NEW j \in Node, raft_remove_node(i, j) PROVE TypeOK'
  BY <1>5 DEF raft_remove_node, TypeOK, RaftTypeOK, LogTypeOK, PeerTypeOK,
              HistoryTypeOK, raftVars, logVars, history
<1>6. CASE UNCHANGED vars
  BY <1>6 DEF vars, TypeOK, RaftTypeOK, LogTypeOK, PeerTypeOK, HistoryTypeOK,
              raftVars, logVars, peerVars, history
<1> QED
  BY <1>1, <1>2, <1>3, <1>4, <1>5, <1>6 DEF Next

\* Every reachable state of the cluster is well typed and keeps
\* last_applied <= commit_index <= last_index < RAFT_LOG_SIZE in every context,
\* whatever the handlers are sent.
THEOREM TypeCorrect == Spec => []TypeOK
<1>1. Init => TypeOK
  BY TypeInit
<1>2. TypeOK /\ [Next]_vars => TypeOK'
  BY TypeNext
<1> QED
  BY <1>1, <1>2, PTL DEF Spec

-----------------------------------------------------------------------------
(* Contexts never go back. *)

Forward(i) ==
    /\ current_term'[i] >= current_term[i]
    /\ Len(log'[i]) >= Len(log[i])
    /\ \A k \in 1..Len(log[i]) : log'[i][k] = log[i][k]

\* A step that touches no log and lowers no term.
LEMMA LogsUntouched ==
    ASSUME TypeOK, log' = log, \A i \in Node : current_term'[i] >= current_term[i]
    PROVE  \A i \in Node : Forward(i)
<1>1. \A i \in Node : Len(log[i]) \in Nat
  BY DEF TypeOK, LogTypeOK
<1> QED
  BY <1>1 DEF Forward

LEMMA ForwardDelivery ==
    ASSUME TypeOK, NEW m \in msgs, Deliver(m) \/ Redeliver(m)
    PROVE  \A i \in Node : Forward(i)
<1>1. PICK rest \in SUBSET msgs :
             \/ m.type = "VOTE_REQ" /\ handle_vote_request(m.to, m, rest)
             \/ m.type = "VOTE_RESP" /\ handle_vote_response(m.to, m, rest)
             \/ m.type = "APPEND_REQ" /\ handle_append_request(m.to, m, rest)
             \/ m.type = "APPEND_RESP" /\ handle_append_response(m.to, m, rest)
  BY DeliveryCases
<1>2. m.to \in Node /\ m.term \in Nat
  BY MessageFields DEF TypeOK
<1>3. current_term \in [Node -> Nat]
  BY DEF TypeOK, RaftTypeOK
<1>4. ASSUME newer_term(m.term, current_term[m.to]), become_follower(m.to, m.term)
      PROVE  \A i \in Node : current_term'[i] >= current_term[i]
  BY <1>2, <1>3, <1>4 DEF newer_term, become_follower
<1>5. ASSUME current_term' = current_term
      PROVE  \A i \in Node : current_term'[i] >= current_term[i]
  BY <1>3, <1>5
<1>6. CASE handle_vote_request(m.to, m, rest)
  <2>1. log' = log
    BY <1>6 DEF handle_vote_request, logVars
  <2>2. \A i \in Node : current_term'[i] >= current_term[i]
    BY <1>2, <1>3, <1>6 DEF handle_vote_request, newer_term
  <2> QED
    BY <2>1, <2>2, LogsUntouched
<1>7. CASE handle_vote_response(m.to, m, rest)
  <2>1. CASE newer_term(m.term, current_term[m.to])
    BY <1>4, <1>7, <2>1, LogsUntouched DEF handle_vote_response, logVars
  <2>2. CASE ~newer_term(m.term, current_term[m.to])
    <3>1. current_term' = current_term
      BY <1>7, <2>2 DEF handle_vote_response, raftVars
    <3>2. CASE log' = log
      BY <1>5, <3>1, <3>2, LogsUntouched
    <3>3. CASE log' = [log EXCEPT ![m.to] =
                         append_log_entry(@, current_term[m.to], Nil)]
      <4>1. log[m.to] \in Seq(Entry) /\ Len(log[m.to]) < RAFT_LOG_SIZE
        BY <1>2 DEF TypeOK, LogTypeOK
      <4>2. Forward(m.to)
        BY <1>2, <1>3, <3>1, <3>3, <4>1, AppendKeeps DEF Forward, TypeOK, LogTypeOK
      <4>3. \A i \in Node \ {m.to} : Forward(i)
        <5>1. \A i \in Node \ {m.to} : log'[i] = log[i] /\ Len(log[i]) \in Nat
          BY <3>3 DEF TypeOK, LogTypeOK
        <5> QED
          BY <1>3, <3>1, <5>1 DEF Forward
      <4> QED
        BY <4>2, <4>3
    <3> QED
      BY <1>7, <2>2, <3>2, <3>3 DEF handle_vote_response, become_leader, logVars
  <2> QED
    BY <2>1, <2>2
<1>8. CASE handle_append_request(m.to, m, rest)
  <2>1. log' = log
    BY <1>8 DEF handle_append_request
  <2>2. \/ current_term' = current_term
        \/ /\ current_term' = [current_term EXCEPT ![m.to] = m.term]
           /\ m.term >= current_term[m.to]
    <3>1. newer_term(m.term, current_term[m.to]) => m.term >= current_term[m.to]
      BY <1>2, <1>3 DEF newer_term
    <3>2. ~(m.term < current_term[m.to]) => m.term >= current_term[m.to]
      BY <1>2, <1>3
    <3> QED
      BY <1>8, <3>1, <3>2 DEF handle_append_request, become_follower
  <2>3. \A i \in Node : current_term'[i] >= current_term[i]
    BY <1>2, <1>3, <2>2
  <2> QED
    BY <2>1, <2>3, LogsUntouched
<1>9. CASE handle_append_response(m.to, m, rest)
  <2>1. log' = log
    BY <1>9 DEF handle_append_response, logVars
  <2>2. CASE newer_term(m.term, current_term[m.to])
    BY <1>4, <1>9, <2>1, <2>2, LogsUntouched DEF handle_append_response
  <2>3. CASE ~newer_term(m.term, current_term[m.to])
    <3>1. current_term' = current_term
      BY <1>9, <2>3 DEF handle_append_response, raftVars
    <3> QED
      BY <1>5, <2>1, <3>1, LogsUntouched
  <2> QED
    BY <2>2, <2>3
<1> QED
  BY <1>1, <1>6, <1>7, <1>8, <1>9

LEMMA ForwardWrite ==
    ASSUME TypeOK, NEW j \in Node, NEW d \in Data, dist_storage_write(j, d)
    PROVE  \A i \in Node : Forward(i)
<1>1. current_term \in [Node -> Nat] /\ current_term' = current_term
  BY DEF TypeOK, RaftTypeOK, dist_storage_write, raftVars
<1>2. log[j] \in Seq(Entry) /\ Len(log[j]) < RAFT_LOG_SIZE
  BY DEF TypeOK, LogTypeOK
<1>3. PICK e \in {d, Nil} :
         log' = [log EXCEPT ![j] = append_log_entry(@, current_term[j], e)]
  BY DEF dist_storage_write
<1>4. Forward(j)
  <2> DEFINE l == append_log_entry(log[j], current_term[j], e)
  <2>0. current_term[j] \in Nat /\ e \in Data \cup {Nil}
    BY <1>1
  <2>1. /\ Len(l) >= Len(log[j])
        /\ \A k \in 1..Len(log[j]) : l[k] = log[j][k]
    <3>1. Len(l) >= Len(log[j])
      BY <1>2, <2>0, AppendKeeps
    <3>2. \A k \in 1..Len(log[j]) : l[k] = log[j][k]
      BY <1>2, <2>0, AppendPrefix
    <3> QED
      BY <3>1, <3>2
  <2>2. log'[j] = l
    BY <1>3 DEF TypeOK, LogTypeOK
  <2> HIDE DEF l
  <2>3. current_term'[j] >= current_term[j]
    BY <1>1
  <2> QED
    BY <2>1, <2>2, <2>3 DEF Forward
<1>5. \A i \in Node \ {j} : log'[i] = log[i] /\ Len(log[i]) \in Nat
  BY <1>3 DEF TypeOK, LogTypeOK
<1> QED
  BY <1>1, <1>4, <1>5 DEF Forward

\* No context ever goes back to an older term, and no log entry is rewritten
\* or dropped by any handler, tick or write.
THEOREM NeverBack == Spec => NoRollback
<1>1. TypeOK /\ [Next]_vars => \A i \in Node : Forward(i)
  <2> SUFFICES ASSUME TypeOK, [Next]_vars PROVE \A i \in Node : Forward(i)
    OBVIOUS
  <2>0. \A i \in Node : current_term[i] \in Nat
    BY DEF TypeOK, RaftTypeOK
  <2>1. ASSUME NEW m \in msgs, Deliver(m) \/ Redeliver(m)
        PROVE  \A i \in Node : Forward(i)
    BY <2>1, ForwardDelivery
  <2>2. ASSUME NEW j \in Node, NEW d \in Data, dist_storage_write(j, d)
        PROVE  \A i \in Node : Forward(i)
    BY <2>2, ForwardWrite
  <2>3. ASSUME NEW j \in Node, ElectionTick(j) PROVE \A i \in Node : Forward(i)
    <3>1. log' = log
      BY <2>3 DEF ElectionTick
    <3>2. \A i \in Node : current_term'[i] >= current_term[i]
      BY <2>0, <2>3 DEF ElectionTick, become_candidate, TypeOK, RaftTypeOK
    <3> QED
      BY <3>1, <3>2, LogsUntouched
  <2>4. ASSUME log' = log, current_term' = current_term
        PROVE  \A i \in Node : Forward(i)
    <3>1. \A i \in Node : current_term'[i] >= current_term[i]
      BY <2>0, <2>4
    <3> QED
      BY <2>4, <3>1, LogsUntouched
  <2>5. ASSUME NEW j \in Node, HeartbeatTick(j) \/ IdleTick(j)
        PROVE  \A i \in Node : Forward(i)
    BY <2>4, <2>5 DEF HeartbeatTick, IdleTick, raftVars
  <2>6. ASSUME NEW j \in Node, NEW k \in Node, raft_remove_node(j, k)
        PROVE  \A i \in Node : Forward(i)
    BY <2>4, <2>6 DEF raft_remove_node, raftVars, logVars
  <2>7. ASSUME NEW m \in msgs, Lose(m) PROVE \A i \in Node : Forward(i)
    BY <2>4, <2>7 DEF Lose, raftVars, logVars
  <2>8. CASE UNCHANGED vars
    BY <2>4, <2>8 DEF vars, raftVars, logVars
  <2> QED
    BY <2>1, <2>2, <2>3, <2>5, <2>6, <2>7, <2>8 DEF Next, raft_tick
<1>2. (\A i \in Node : Forward(i)) =>
        \A i \in Node :
          /\ current_term'[i] >= current_term[i]
          /\ Len(log'[i]) >= Len(log[i])
          /\ \A k \in 1..Len(log[i]) : log'[i][k] = log[i][k]
  BY DEF Forward
<1> QED
  BY <1>1, <1>2, TypeCorrect, PTL DEF Spec, NoRollback

-----------------------------------------------------------------------------
(* Election safety.  A step is looked at node by node: how the term, the   *)
(* vote and the role of one node may change, and with which new votes.     *)

\* The contexts of the other nodes are left alone.
Elsewhere(i) ==
    \A j \in Node \ {i} :
        /\ state'[j] = state[j]
        /\ current_term'[j] = current_term[j]
        /\ voted_for'[j] = voted_for[j]
        /\ votes_received'[j] = votes_received[j]
        /\ counted'[j] = counted[j]

\* Nothing a vote depends on changes at node w, and w gives no new vote.
Stays(w) ==
    /\ current_term'[w] = current_term[w]
    /\ voted_for'[w] = voted_for[w]
    /\ state'[w] = "CANDIDATE" => state[w] = "CANDIDATE"
    /\ \A t \in Nat, c \in Node : <<w, t, c>> \in grants' => <<w, t, c>> \in grants

\* w moves to a newer term, voting in that term only.
Moves(w) ==
    /\ current_term'[w] > current_term[w]
    /\ state'[w] = "CANDIDATE" => voted_for'[w] = w

\* w, which has no vote in its term, gives one and keeps its role.
Votes(w) ==
    /\ current_term'[w] = current_term[w]
    /\ voted_for[w] = Nil
    /\ state'[w] = state[w]

\* w is a candidate and steps down in its own term for another node that has
\* won it.
Resets(w) ==
    /\ current_term'[w] = current_term[w]
    /\ state[w] = "CANDIDATE"
    /\ state'[w] # "CANDIDATE"
    /\ voted_for'[w] = Nil
    /\ \E e \in elections : e[2] = current_term[w] /\ e[1] # w

VotesStep ==
    /\ grants \subseteq grants'
    /\ elections \subseteq elections'
    /\ \A w \in Node :
         /\ \A t \in Nat, c \in Node :
              <<w, t, c>> \in grants' \ grants =>
                  t = current_term'[w] /\ c = voted_for'[w]
         /\ Stays(w) \/ Moves(w) \/ Votes(w) \/ Resets(w)

\* Two winners of a term were both backed by a majority of locked votes, and
\* a vote is locked on one candidate only.
LEMMA BackedImpliesSafety ==
    ASSUME TypeOK, LeadersBacked
    PROVE  ElectionSafety
<1> SUFFICES ASSUME NEW e \in elections, NEW f \in elections, e[2] = f[2]
             PROVE  e[1] = f[1]
  BY DEF ElectionSafety
<1>1. PICK V \in SUBSET Node : /\ Cardinality(V) >= majority
                               /\ \A w \in V : Locked(w, e[2], e[1])
  BY DEF LeadersBacked
<1>2. PICK W \in SUBSET Node : /\ Cardinality(W) >= majority
                               /\ \A w \in W : Locked(w, f[2], f[1])
  BY DEF LeadersBacked
<1>3. PICK w \in Node : w \in V /\ w \in W
  BY <1>1, <1>2, MajoritiesMeet
<1>4. f[1] \in Node /\ e[1] \in Node
  BY DEF TypeOK, HistoryTypeOK
<1> QED
  BY <1>1, <1>2, <1>3, <1>4 DEF Locked

\* A locked vote stays locked, unless its term was won by someone else.
LEMMA LockStays ==
    ASSUME TypeOK, VotesRecorded, ElectionSafety, VotesStep,
           NEW w \in Node, NEW t \in Nat, NEW l \in Node, Locked(w, t, l),
           Won(t) => <<l, t>> \in elections
    PROVE  Locked(w, t, l)'
<1>1. <<w, t, l>> \in grants /\ <<w, t, l>> \in grants'
  BY DEF Locked, VotesStep
<1>2. t <= current_term[w]
  <2>1. <<w, t, l>>[2] <= current_term[<<w, t, l>>[1]]
    BY <1>1 DEF VotesRecorded
  <2> QED
    BY <2>1
<1>3. current_term[w] \in Nat /\ current_term'[w] = current_term'[w]
  BY DEF TypeOK, RaftTypeOK
<1>4. CASE Stays(w)
  BY <1>1, <1>4 DEF Stays, Locked
<1>5. CASE Moves(w)
  <2>1. t # current_term'[w]
    BY <1>2, <1>3, <1>5 DEF Moves
  <2> QED
    BY <1>1, <2>1 DEF VotesStep, Locked
<1>6. CASE Votes(w)
  <2>1. t # current_term[w]
    BY <1>6, NilAssumption DEF Votes, Locked
  <2>2. t # current_term'[w]
    BY <2>1, <1>6 DEF Votes
  <2> QED
    BY <1>1, <2>2 DEF VotesStep, Locked
<1>7. CASE Resets(w)
  <2>1. t # current_term[w]
    <3> SUFFICES ASSUME t = current_term[w] PROVE FALSE
      OBVIOUS
    <3>1. PICK e \in elections : e[2] = t /\ e[1] # w
      BY <1>7 DEF Resets
    <3>2. Won(t) /\ <<l, t>> \in elections
      BY <3>1 DEF Won
    <3>3. e[1] = l
      BY <3>1, <3>2 DEF ElectionSafety
    <3> QED
      BY <1>7, <3>1, <3>3 DEF Resets, Locked
  <2>2. t # current_term'[w]
    BY <2>1, <1>7 DEF Resets
  <2> QED
    BY <1>1, <2>2 DEF VotesStep, Locked
<1> QED
  BY <1>4, <1>5, <1>6, <1>7 DEF VotesStep

\* Locks survive every step of that kind, and a new vote in a term nobody has
\* won is locked from the start.
LEMMA LocksSurvive ==
    ASSUME ElectionInv, TypeOK', VotesStep
    PROVE  /\ OpenTermsLocked'
           /\ \A e \in elections :
                \E W \in SUBSET Node :
                    /\ Cardinality(W) >= majority
                    /\ \A w \in W : Locked(w, e[2], e[1])'
<1> USE DEF ElectionInv
<1>1. ElectionSafety
  BY BackedImpliesSafety
<1>2. \A e \in elections : e = <<e[1], e[2]>> /\ e[1] \in Node /\ e[2] \in Nat
  BY DEF TypeOK, HistoryTypeOK
<1>3. ASSUME NEW e \in elections
      PROVE  \E W \in SUBSET Node : /\ Cardinality(W) >= majority
                                    /\ \A w \in W : Locked(w, e[2], e[1])'
  <2>1. PICK W \in SUBSET Node : /\ Cardinality(W) >= majority
                                 /\ \A w \in W : Locked(w, e[2], e[1])
    BY DEF LeadersBacked
  <2>2. <<e[1], e[2]>> \in elections
    BY <1>2
  <2>3. \A w \in W : Locked(w, e[2], e[1])'
    BY <1>1, <1>2, <2>1, <2>2, LockStays
  <2> QED
    BY <2>1, <2>3
<1>4. ASSUME NEW g \in grants', ~Won(g[2])'
      PROVE  Locked(g[1], g[2], g[3])'
  <2>1. g = <<g[1], g[2], g[3]>> /\ g[1] \in Node /\ g[2] \in Nat /\ g[3] \in Node
    BY DEF TypeOK, HistoryTypeOK
  <2>2. ~Won(g[2])
    BY <1>4 DEF Won, VotesStep
  <2>3. CASE g \in grants
    <3>1. Locked(g[1], g[2], g[3])
      BY <2>2, <2>3 DEF OpenTermsLocked
    <3> QED
      BY <1>1, <2>1, <2>2, <3>1, LockStays
  <2>4. CASE g \notin grants
    <3> DEFINE w == g[1]
               t == g[2]
               c == g[3]
    <3> HIDE DEF w, t, c
    <3>1. w \in Node /\ t \in Nat /\ c \in Node /\ g = <<w, t, c>>
      BY <2>1 DEF w, t, c
    <3>2. t = current_term'[w] /\ c = voted_for'[w]
      BY <2>4, <3>1 DEF VotesStep
    <3>3. \A d \in Node : <<w, t, d>> \notin grants
      <4> SUFFICES ASSUME NEW d \in Node, <<w, t, d>> \in grants PROVE FALSE
        OBVIOUS
      <4>1. t <= current_term[w]
        <5>1. <<w, t, d>>[2] <= current_term[<<w, t, d>>[1]]
          BY DEF VotesRecorded
        <5> QED
          BY <5>1
      <4>2. Locked(w, t, d)
        <5>1. ~Won(<<w, t, d>>[2]) => Locked(<<w, t, d>>[1], <<w, t, d>>[2], <<w, t, d>>[3])
          BY DEF OpenTermsLocked
        <5> QED
          BY <2>2, <5>1 DEF t
      <4>3. current_term[w] \in Nat
        BY <3>1 DEF TypeOK, RaftTypeOK
      <4>4. ~Moves(w)
        BY <3>1, <3>2, <4>1, <4>3 DEF Moves
      <4>5. ~Votes(w)
        BY <3>2, <4>2, NilAssumption DEF Votes, Locked
      <4>6. ~Stays(w)
        BY <2>4, <3>1 DEF Stays
      <4>7. ~Resets(w)
        BY <3>1, <3>2, NilAssumption DEF Resets
      <4> QED
        BY <3>1, <4>4, <4>5, <4>6, <4>7 DEF VotesStep
    <3>4. \A d \in Node : <<w, t, d>> \in grants' => d = c
      BY <3>1, <3>2, <3>3 DEF VotesStep
    <3>5. state'[w] = "CANDIDATE" => w = c
      <4>1. CASE Moves(w)
        BY <3>2, <4>1 DEF Moves
      <4>2. CASE Votes(w)
        BY <3>1, <4>2, NilAssumption DEF Votes, VotesRecorded
      <4>3. ~Stays(w)
        BY <2>4, <3>1 DEF Stays
      <4>4. ~Resets(w)
        BY <3>1, <3>2, NilAssumption DEF Resets
      <4> QED
        BY <3>1, <4>1, <4>2, <4>3, <4>4 DEF VotesStep
    <3>6. Locked(w, t, c)'
      BY <3>1, <3>2, <3>4, <3>5 DEF Locked
    <3> QED
      BY <3>6 DEF w, t, c
  <2> QED
    BY <2>3, <2>4
<1> QED
  BY <1>3, <1>4 DEF OpenTermsLocked

\* The messages a step that takes part in no election may add.
NoNewVotes ==
    \A m \in msgs' :
        \/ m \in msgs
        \/ m.type = "APPEND_RESP"
        \/ /\ m.type = "APPEND_REQ"
           /\ m.from # m.to
           /\ <<m.from, m.term>> \in elections

\* Steps that change neither terms, votes nor roles.
LEMMA QuietStep ==
    ASSUME ElectionInv, TypeOK', NoNewVotes,
           UNCHANGED <<state, current_term, voted_for, votes_received,
                       counted, grants, elections>>
    PROVE  ElectionInv'
<1> USE DEF ElectionInv
<1>1. VotesStep
  BY DEF VotesStep, Stays
<1>2. OpenTermsLocked' /\ LeadersBacked'
  BY <1>1, LocksSurvive DEF LeadersBacked
<1>3. VotesRecorded'
  BY DEF VotesRecorded
<1>4. VotesInFlight'
  BY DEF VotesInFlight, NoNewVotes
<1>5. LeadersElected'
  BY DEF LeadersElected, NoNewVotes
<1> QED
  BY <1>2, <1>3, <1>4, <1>5

\* What VotesInFlight says of one vote request, and of one vote given.
LEMMA RequestInFlight ==
    ASSUME TypeOK, VotesInFlight, NEW m \in msgs, m.type = "VOTE_REQ"
    PROVE  /\ m.from \in Node /\ m.to \in Node /\ m.term \in Nat
           /\ m.from # m.to
           /\ m.term <= current_term[m.from]
           /\ <<m.to, m.term, m.from>> \notin grants
           /\ \A n \in msgs : /\ n.type = "VOTE_REQ"
                              /\ n.from = m.from
                              /\ n.to = m.to
                              /\ n.term = m.term
                              => n = m
<1>1. m.from \in Node /\ m.to \in Node /\ m.term \in Nat
  BY MessageFields DEF TypeOK
<1> QED
  BY <1>1 DEF VotesInFlight

LEMMA VoteInFlight ==
    ASSUME TypeOK, VotesInFlight,
           NEW m \in msgs, m.type = "VOTE_RESP", m.granted = TRUE
    PROVE  /\ m.from \in Node /\ m.to \in Node /\ m.term \in Nat
           /\ <<m.from, m.term, m.to>> \in grants
           /\ m.term = current_term[m.to] => m.from \notin counted[m.to]
<1>1. m.from \in Node /\ m.to \in Node /\ m.term \in Nat
  BY MessageFields DEF TypeOK
<1> QED
  BY <1>1 DEF VotesInFlight

\* Steps in which a node steps down: to a newer term, or in its own term when
\* another node has won it.
LEMMA FollowerStep ==
    ASSUME ElectionInv, TypeOK', NoNewVotes,
           NEW i \in Node, NEW t \in Nat, become_follower(i, t),
           \/ t > current_term[i]
           \/ /\ t = current_term[i]
              /\ state[i] = "CANDIDATE"
              /\ \E e \in elections : e[2] = current_term[i] /\ e[1] # i,
           UNCHANGED <<grants, elections>>
    PROVE  ElectionInv'
<1> USE DEF ElectionInv
<1>1. /\ state'[i] = "FOLLOWER" /\ current_term'[i] = t /\ voted_for'[i] = Nil
      /\ votes_received'[i] = 0 /\ counted'[i] = {}
      /\ Elsewhere(i)
  BY DEF become_follower, TypeOK, RaftTypeOK, HistoryTypeOK, Elsewhere
<1>2. current_term[i] \in Nat
  BY DEF TypeOK, RaftTypeOK
<1>3. VotesStep
  <2>1. \A w \in Node \ {i} : Stays(w)
    BY <1>1 DEF Stays, Elsewhere
  <2>2. Moves(i) \/ Resets(i)
    BY <1>1, <1>2 DEF Moves, Resets
  <2> QED
    BY <2>1, <2>2 DEF VotesStep
<1>4. OpenTermsLocked' /\ LeadersBacked'
  BY <1>3, LocksSurvive DEF LeadersBacked
<1>5. \A j \in Node : /\ current_term[j] \in Nat /\ current_term'[j] \in Nat
                      /\ current_term'[j] >= current_term[j]
  BY <1>1 DEF TypeOK, RaftTypeOK, Elsewhere
<1>6. VotesRecorded'
  <2>1. \A g \in grants : g[1] \in Node /\ g[2] \in Nat /\ g[3] \in Node
    BY DEF TypeOK, HistoryTypeOK
  <2>2. \A g \in grants : g[2] <= current_term'[g[1]] /\ g[2] <= current_term'[g[3]]
    BY <1>5, <2>1 DEF VotesRecorded
  <2>3. votes_received'[i] = Cardinality(counted'[i])
    BY <1>1, FS_EmptySet
  <2> QED
    BY <1>1, <2>2, <2>3 DEF VotesRecorded, Elsewhere
<1>7. VotesInFlight'
  <2>1. \A m \in msgs : m.from \in Node /\ m.to \in Node /\ m.term \in Nat
    BY MessageFields DEF TypeOK
  <2>2. ASSUME NEW m \in msgs', m.type = "VOTE_REQ"
        PROVE  /\ m.from # m.to
               /\ m.term <= current_term'[m.from]
               /\ <<m.to, m.term, m.from>> \notin grants'
               /\ \A n \in msgs' : /\ n.type = "VOTE_REQ"
                                   /\ n.from = m.from
                                   /\ n.to = m.to
                                   /\ n.term = m.term
                                   => n = m
    <3>1. m \in msgs /\ \A n \in msgs' : n.type = "VOTE_REQ" => n \in msgs
      BY <2>2 DEF NoNewVotes
    <3>2. m.from \in Node /\ m.term \in Nat /\ m.term <= current_term[m.from]
      BY <2>2, <3>1, RequestInFlight
    <3>3. m.term <= current_term'[m.from]
      BY <1>5, <3>2
    <3> QED
      BY <2>2, <3>1, <3>3, RequestInFlight
  <2>3. ASSUME NEW m \in msgs', m.type = "VOTE_RESP", m.granted = TRUE
        PROVE  /\ <<m.from, m.term, m.to>> \in grants'
               /\ m.term = current_term'[m.to] => m.from \notin counted'[m.to]
    <3>1. m \in msgs
      BY <2>3 DEF NoNewVotes
    <3> QED
      BY <1>1, <2>1, <2>3, <3>1, VoteInFlight DEF Elsewhere
  <2> QED
    BY <2>2, <2>3 DEF VotesInFlight
<1>8. LeadersElected'
  BY <1>1 DEF LeadersElected, NoNewVotes, Elsewhere
<1> QED
  BY <1>4, <1>6, <1>7, <1>8

\* An election is started: the node moves to a term in which it has no
\* request, no vote and no answer of its own yet.
LEMMA CandidateStep ==
    ASSUME ElectionInv, TypeOK', NEW i \in Node, become_candidate(i),
           UNCHANGED elections
    PROVE  ElectionInv'
<1> USE DEF ElectionInv
<1> DEFINE t == current_term[i] + 1
<1>1. current_term[i] \in Nat /\ t \in Nat /\ t > current_term[i]
  BY DEF TypeOK, RaftTypeOK
<1>2. /\ state'[i] = "CANDIDATE" /\ current_term'[i] = t /\ voted_for'[i] = i
      /\ votes_received'[i] = 1 /\ counted'[i] = {i}
      /\ grants' = grants \cup {<<i, t, i>>}
      /\ Elsewhere(i)
  BY DEF become_candidate, TypeOK, RaftTypeOK, HistoryTypeOK, Elsewhere
<1>3. ASSUME NEW m \in msgs', m \notin msgs
      PROVE  /\ m.type = "VOTE_REQ" /\ m.from = i /\ m.to \in Node \ {i}
             /\ m.term = t /\ m.last_log_index = last_index(i)
             /\ m.last_log_term = get_last_log_term(log[i])
             /\ m = [type |-> "VOTE_REQ", from |-> i, to |-> m.to,
                     term |-> t, last_log_index |-> last_index(i),
                     last_log_term |-> get_last_log_term(log[i])]
  BY <1>3 DEF become_candidate, Peers, TypeOK, PeerTypeOK
<1> HIDE DEF t
<1>4. \A g \in grants : g[1] \in Node /\ g[2] \in Nat /\ g[3] \in Node
                        /\ g = <<g[1], g[2], g[3]>>
  BY DEF TypeOK, HistoryTypeOK
<1>5. \A v \in Node : <<v, t, i>> \notin grants
  <2> SUFFICES ASSUME NEW v \in Node, <<v, t, i>> \in grants PROVE FALSE
    OBVIOUS
  <2>1. <<v, t, i>>[2] <= current_term[<<v, t, i>>[3]]
    BY DEF VotesRecorded
  <2> QED
    BY <1>1, <2>1
<1>6. VotesStep
  <2>1. \A w \in Node \ {i} : Stays(w)
    BY <1>2 DEF Stays, Elsewhere
  <2>2. Moves(i)
    BY <1>1, <1>2 DEF Moves
  <2> QED
    BY <1>2, <2>1, <2>2 DEF VotesStep
<1>7. OpenTermsLocked' /\ LeadersBacked'
  BY <1>6, LocksSurvive DEF LeadersBacked
<1>8. \A j \in Node : /\ current_term[j] \in Nat /\ current_term'[j] \in Nat
                      /\ current_term'[j] >= current_term[j]
  BY <1>1, <1>2 DEF TypeOK, RaftTypeOK, Elsewhere
<1>9. VotesRecorded'
  <2>1. \A g \in grants : g[2] <= current_term'[g[1]] /\ g[2] <= current_term'[g[3]]
    BY <1>4, <1>8 DEF VotesRecorded
  <2>2. \A g \in grants' : g[2] <= current_term'[g[1]] /\ g[2] <= current_term'[g[3]]
    BY <1>1, <1>2, <2>1
  <2>3. votes_received'[i] = Cardinality(counted'[i])
    BY <1>2, FS_Singleton
  <2> QED
    BY <1>2, <2>2, <2>3 DEF VotesRecorded, Elsewhere
<1>10. VotesInFlight'
  <2>1. \A m \in msgs : m.from \in Node /\ m.to \in Node /\ m.term \in Nat
    BY MessageFields DEF TypeOK
  <2>2. \A m \in msgs : m.type = "VOTE_REQ" /\ m.from = i => m.term # t
    <3> SUFFICES ASSUME NEW m \in msgs, m.type = "VOTE_REQ", m.from = i
                 PROVE  m.term # t
      OBVIOUS
    <3>1. m.term \in Nat /\ m.term <= current_term[i]
      BY RequestInFlight
    <3> QED
      BY <1>1, <3>1
  <2>3. ASSUME NEW m \in msgs', m.type = "VOTE_REQ"
        PROVE  /\ m.from # m.to
               /\ m.term <= current_term'[m.from]
               /\ <<m.to, m.term, m.from>> \notin grants'
               /\ \A n \in msgs' : /\ n.type = "VOTE_REQ"
                                   /\ n.from = m.from
                                   /\ n.to = m.to
                                   /\ n.term = m.term
                                   => n = m
    <3>1. CASE m \in msgs
      <4>1. \A n \in msgs' \ msgs : ~(n.from = m.from /\ n.term = m.term)
        BY <1>3, <2>2, <2>3, <3>1
      <4>2. <<m.to, m.term, m.from>> # <<i, t, i>>
        BY <2>3, <3>1, RequestInFlight
      <4>3. m.from \in Node /\ m.term \in Nat /\ m.term <= current_term[m.from]
        BY <2>3, <3>1, RequestInFlight
      <4>4. m.term <= current_term'[m.from]
        BY <1>8, <4>3
      <4>5. \A n \in msgs' : /\ n.type = "VOTE_REQ"
                             /\ n.from = m.from
                             /\ n.to = m.to
                             /\ n.term = m.term
                             => n = m
        BY <2>3, <3>1, <4>1, RequestInFlight
      <4> QED
        BY <1>2, <2>3, <3>1, <4>2, <4>4, <4>5, RequestInFlight
    <3>2. CASE m \notin msgs
      <4>1. /\ m.from = i /\ m.to \in Node \ {i} /\ m.term = t
        BY <1>3, <3>2
      <4>2. <<m.to, m.term, m.from>> \notin grants'
        BY <1>2, <1>5, <4>1
      <4>3. \A n \in msgs' : /\ n.type = "VOTE_REQ"
                             /\ n.from = m.from
                             /\ n.to = m.to
                             /\ n.term = m.term
                             => n = m
        BY <1>3, <2>2, <3>2, <4>1
      <4> QED
        BY <1>1, <1>2, <4>1, <4>2, <4>3
    <3> QED
      BY <3>1, <3>2
  <2>4. ASSUME NEW m \in msgs', m.type = "VOTE_RESP", m.granted = TRUE
        PROVE  /\ <<m.from, m.term, m.to>> \in grants'
               /\ m.term = current_term'[m.to] => m.from \notin counted'[m.to]
    <3>1. m \in msgs
      BY <1>3, <2>4
    <3>2. <<m.from, m.term, m.to>> \in grants
      BY <2>4, <3>1, VoteInFlight
    <3>3. m.to = i => m.term # t
      BY <1>5, <2>1, <3>1, <3>2
    <3> QED
      BY <1>2, <2>1, <2>4, <3>1, <3>2, <3>3, VoteInFlight DEF Elsewhere
  <2> QED
    BY <2>3, <2>4 DEF VotesInFlight
<1>11. LeadersElected'
  BY <1>2, <1>3 DEF LeadersElected, Elsewhere
<1> QED
  BY <1>7, <1>9, <1>10, <1>11

\* What handle_vote_request does to the node that is asked.
LEMMA VoteRequestEffect ==
    ASSUME TypeOK, NEW m \in msgs, m.type = "VOTE_REQ",
           NEW rest \in SUBSET msgs, handle_vote_request(m.to, m, rest)
    PROVE  \E g \in BOOLEAN :
             /\ msgs' = rest \cup {[type |-> "VOTE_RESP", from |-> m.to,
                                    to |-> m.from, term |-> current_term'[m.to],
                                    granted |-> g]}
             /\ grants' = IF g = TRUE
                            THEN grants \cup {<<m.to, current_term'[m.to], m.from>>}
                            ELSE grants
             /\ g = TRUE => current_term'[m.to] = m.term
             /\ Elsewhere(m.to)
             /\ elections' = elections
             /\ \/ /\ current_term'[m.to] = m.term
                   /\ m.term > current_term[m.to]
                   /\ state'[m.to] = "FOLLOWER"
                   /\ counted'[m.to] = {}
                   /\ votes_received'[m.to] = 0
                   /\ voted_for'[m.to] = IF g = TRUE THEN m.from ELSE Nil
                \/ /\ current_term'[m.to] = current_term[m.to]
                   /\ state'[m.to] = state[m.to]
                   /\ counted'[m.to] = counted[m.to]
                   /\ votes_received'[m.to] = votes_received[m.to]
                   /\ voted_for'[m.to] = IF g = TRUE THEN m.from
                                                     ELSE voted_for[m.to]
                   /\ g = TRUE => voted_for[m.to] \in {Nil, m.from}
<1>1. m.from \in Node /\ m.to \in Node /\ m.term \in Nat
  BY MessageFields DEF TypeOK
<1> DEFINE i == m.to
           newer == newer_term(m.term, current_term[i])
           term == IF newer THEN m.term ELSE current_term[i]
           vote == IF newer THEN Nil ELSE voted_for[i]
           grant == /\ m.term >= term
                    /\ vote_free(vote, m.from)
                    /\ up_to_date(m, log[i])
<1>2. /\ state' = IF newer THEN [state EXCEPT ![i] = "FOLLOWER"] ELSE state
      /\ current_term' = [current_term EXCEPT ![i] = term]
      /\ voted_for' = [voted_for EXCEPT ![i] = IF grant THEN m.from ELSE vote]
      /\ votes_received' =
             IF newer THEN [votes_received EXCEPT ![i] = 0] ELSE votes_received
      /\ counted' = IF newer THEN [counted EXCEPT ![i] = {}] ELSE counted
      /\ grants' = IF grant THEN grants \cup {<<i, term, m.from>>} ELSE grants
      /\ msgs' = rest \cup {[type |-> "VOTE_RESP", from |-> i, to |-> m.from,
                             term |-> term, granted |-> grant]}
      /\ UNCHANGED elections
  BY DEF handle_vote_request
<1>3. grant \in BOOLEAN
  BY DEF vote_free, up_to_date
<1>4. grant => m.term >= term /\ vote \in {Nil, m.from}
  BY DEF vote_free
<1>5. newer <=> m.term > current_term[i]
  BY DEF newer_term
<1>6. current_term[i] \in Nat
  BY <1>1 DEF TypeOK, RaftTypeOK
<1>7. grant => term = m.term
  BY <1>1, <1>4, <1>5, <1>6
<1>8. Elsewhere(i) /\ current_term'[i] = term
  BY <1>1, <1>2 DEF Elsewhere, TypeOK, RaftTypeOK, HistoryTypeOK
<1> HIDE DEF grant
<1>9. CASE newer
  <2>1. /\ term = m.term
        /\ m.term > current_term[i]
        /\ state'[i] = "FOLLOWER"
        /\ counted'[i] = {}
        /\ votes_received'[i] = 0
        /\ voted_for'[i] = IF grant THEN m.from ELSE Nil
    BY <1>1, <1>2, <1>5, <1>9 DEF TypeOK, RaftTypeOK, HistoryTypeOK
  <2> HIDE DEF newer, term, vote
  <2> WITNESS grant \in BOOLEAN
  <2> QED
    BY <1>2, <1>3, <1>7, <1>8, <2>1
<1>10. CASE ~newer
  <2>1. /\ term = current_term[i]
        /\ state'[i] = state[i]
        /\ counted'[i] = counted[i]
        /\ votes_received'[i] = votes_received[i]
        /\ voted_for'[i] = IF grant THEN m.from ELSE voted_for[i]
        /\ grant => voted_for[i] \in {Nil, m.from}
    BY <1>1, <1>2, <1>4, <1>10 DEF TypeOK, RaftTypeOK, HistoryTypeOK
  <2> HIDE DEF newer, term, vote
  <2> WITNESS grant \in BOOLEAN
  <2> QED
    BY <1>2, <1>3, <1>7, <1>8, <2>1
<1> QED
  BY <1>9, <1>10

\* A node is asked for its vote: it gives it at most once per open term.
LEMMA VoteRequestStep ==
    ASSUME ElectionInv, TypeOK', NEW m \in msgs, m.type = "VOTE_REQ",
           handle_vote_request(m.to, m, msgs \ {m})
    PROVE  ElectionInv'
<1> USE DEF ElectionInv
<1> DEFINE i == m.to
           c == m.from
           resp(g) == [type |-> "VOTE_RESP", from |-> m.to, to |-> m.from,
                       term |-> current_term'[m.to], granted |-> g]
<1>1. /\ c \in Node /\ i \in Node /\ m.term \in Nat /\ c # i
      /\ m.term <= current_term[c]
      /\ <<i, m.term, c>> \notin grants
  BY RequestInFlight
<1>2. PICK g \in BOOLEAN :
         /\ msgs' = (msgs \ {m}) \cup {resp(g)}
         /\ grants' = IF g = TRUE THEN grants \cup {<<i, current_term'[i], c>>}
                                  ELSE grants
         /\ g = TRUE => current_term'[i] = m.term
         /\ Elsewhere(i)
         /\ elections' = elections
         /\ \/ /\ current_term'[i] = m.term
               /\ m.term > current_term[i]
               /\ state'[i] = "FOLLOWER"
               /\ counted'[i] = {}
               /\ votes_received'[i] = 0
               /\ voted_for'[i] = IF g = TRUE THEN c ELSE Nil
            \/ /\ current_term'[i] = current_term[i]
               /\ state'[i] = state[i]
               /\ counted'[i] = counted[i]
               /\ votes_received'[i] = votes_received[i]
               /\ voted_for'[i] = IF g = TRUE THEN c ELSE voted_for[i]
               /\ g = TRUE => voted_for[i] \in {Nil, c}
  BY VoteRequestEffect
<1>3. /\ resp(g).type = "VOTE_RESP" /\ resp(g).from = i /\ resp(g).to = c
      /\ resp(g).term = current_term'[i] /\ resp(g).granted = g
  OBVIOUS
<1> HIDE DEF resp
<1>4. \A j \in Node : current_term[j] \in Nat /\ current_term'[j] \in Nat
  BY DEF TypeOK, RaftTypeOK
<1>5. \A j \in Node : current_term'[j] >= current_term[j]
  BY <1>1, <1>2, <1>4 DEF Elsewhere
<1>6. g = TRUE /\ current_term'[i] = current_term[i] => voted_for[i] = Nil
  BY <1>1, <1>2, <1>4 DEF VotesRecorded
<1>7. grants \subseteq grants' /\ \A h \in grants' \ grants :
            g = TRUE /\ h = <<i, current_term'[i], c>>
  BY <1>2
<1>8. VotesStep
  <2>1. \A w \in Node \ {i} : Stays(w)
    BY <1>1, <1>2, <1>7 DEF Stays, Elsewhere
  <2>2. Stays(i) \/ Moves(i) \/ Votes(i)
    <3>1. CASE m.term > current_term[i] /\ current_term'[i] = m.term
               /\ state'[i] = "FOLLOWER"
      BY <3>1 DEF Moves
    <3>2. CASE /\ current_term'[i] = current_term[i] /\ state'[i] = state[i]
               /\ g = TRUE
      BY <1>6, <3>2 DEF Votes
    <3>3. CASE /\ current_term'[i] = current_term[i] /\ state'[i] = state[i]
               /\ g # TRUE /\ voted_for'[i] = voted_for[i]
      BY <1>7, <3>3 DEF Stays
    <3> QED
      BY <1>2, <3>1, <3>2, <3>3
  <2>3. \A w \in Node : \A t \in Nat, d \in Node :
              <<w, t, d>> \in grants' \ grants =>
                  t = current_term'[w] /\ d = voted_for'[w]
    BY <1>2, <1>7
  <2> QED
    BY <1>2, <1>7, <2>1, <2>2, <2>3 DEF VotesStep
<1>9. OpenTermsLocked' /\ LeadersBacked'
  BY <1>2, <1>8, LocksSurvive DEF LeadersBacked
<1>10. VotesRecorded'
  <2>1. \A h \in grants : h[1] \in Node /\ h[2] \in Nat /\ h[3] \in Node
    BY DEF TypeOK, HistoryTypeOK
  <2>2. \A h \in grants : h[2] <= current_term'[h[1]] /\ h[2] <= current_term'[h[3]]
    BY <1>4, <1>5, <2>1 DEF VotesRecorded
  <2>3. g = TRUE => current_term'[i] <= current_term'[c]
    BY <1>1, <1>2, <1>4, <1>5
  <2>4. \A h \in grants' : h[2] <= current_term'[h[1]] /\ h[2] <= current_term'[h[3]]
    BY <1>1, <1>4, <1>7, <2>2, <2>3
  <2>5. /\ voted_for'[i] # Nil => <<i, current_term'[i], voted_for'[i]>> \in grants'
        /\ state'[i] = "CANDIDATE" => voted_for'[i] = i
    BY <1>1, <1>2, <1>6, NilAssumption DEF VotesRecorded
  <2>6. /\ \A v \in counted'[i] : <<v, current_term'[i], i>> \in grants'
        /\ votes_received'[i] = Cardinality(counted'[i])
    BY <1>1, <1>2, <1>7, FS_EmptySet DEF VotesRecorded
  <2>7. \A j \in Node \ {i} :
         /\ voted_for'[j] # Nil => <<j, current_term'[j], voted_for'[j]>> \in grants'
         /\ state'[j] = "CANDIDATE" => voted_for'[j] = j
         /\ \A v \in counted'[j] : <<v, current_term'[j], j>> \in grants'
         /\ votes_received'[j] = Cardinality(counted'[j])
    BY <1>2, <1>7 DEF VotesRecorded, Elsewhere
  <2> QED
    BY <2>4, <2>5, <2>6, <2>7 DEF VotesRecorded
<1>11. VotesInFlight'
  <2>1. \A n \in msgs' : (n \in msgs /\ n # m) \/ n = resp(g)
    BY <1>2
  <2>2. ASSUME NEW n \in msgs', n.type = "VOTE_REQ"
        PROVE  /\ n.from # n.to
               /\ n.term <= current_term'[n.from]
               /\ <<n.to, n.term, n.from>> \notin grants'
               /\ \A o \in msgs' : /\ o.type = "VOTE_REQ"
                                   /\ o.from = n.from
                                   /\ o.to = n.to
                                   /\ o.term = n.term
                                   => o = n
    <3>1. n \in msgs /\ n # m
      BY <1>3, <2>1, <2>2
    <3>2. n.from \in Node /\ n.to \in Node /\ n.term \in Nat
          /\ n.from # n.to /\ n.term <= current_term[n.from]
          /\ <<n.to, n.term, n.from>> \notin grants
      BY <2>2, <3>1, RequestInFlight
    <3>3. n.term <= current_term'[n.from]
      BY <1>4, <1>5, <3>2
    <3>4. ~(n.from = c /\ n.to = i /\ n.term = m.term)
      BY <2>2, <3>1, RequestInFlight
    <3>5. <<n.to, n.term, n.from>> \notin grants'
      BY <1>2, <1>7, <3>2, <3>4
    <3>6. \A o \in msgs' : o.type = "VOTE_REQ" => o \in msgs
      BY <1>3, <2>1
    <3> QED
      BY <2>2, <3>1, <3>2, <3>3, <3>5, <3>6, RequestInFlight
  <2>3. ASSUME NEW n \in msgs', n.type = "VOTE_RESP", n.granted = TRUE
        PROVE  /\ <<n.from, n.term, n.to>> \in grants'
               /\ n.term = current_term'[n.to] => n.from \notin counted'[n.to]
    <3>1. CASE n = resp(g)
      <4>1. g = TRUE /\ n.from = i /\ n.to = c /\ n.term = m.term
        BY <1>2, <1>3, <2>3, <3>1
      <4>2. i \in counted[c] => <<i, current_term[c], c>> \in grants
        BY <1>1 DEF VotesRecorded
      <4>3. current_term'[c] = current_term[c] /\ counted'[c] = counted[c]
        BY <1>1, <1>2 DEF Elsewhere
      <4> QED
        BY <1>1, <1>2, <4>1, <4>2, <4>3
    <3>2. CASE n \in msgs
      <4>1. /\ n.from \in Node /\ n.to \in Node /\ n.term \in Nat
            /\ <<n.from, n.term, n.to>> \in grants
            /\ n.term = current_term[n.to] => n.from \notin counted[n.to]
        BY <2>3, <3>2, VoteInFlight
      <4> QED
        BY <1>2, <1>7, <4>1 DEF Elsewhere
    <3> QED
      BY <2>1, <3>1, <3>2
  <2> QED
    BY <2>2, <2>3 DEF VotesInFlight
<1>12. LeadersElected'
  <2>1. \A n \in msgs' : n.type = "APPEND_REQ" => n \in msgs
    BY <1>2, <1>3
  <2> QED
    BY <1>2, <2>1 DEF LeadersElected, Elsewhere
<1> QED
  BY <1>9, <1>10, <1>11, <1>12

\* A vote arrives at a candidate: it is a vote not counted before, and when it
\* completes a majority in a term already won, the winner is the same node.
LEMMA VoteCountedStep ==
    ASSUME ElectionInv, TypeOK', NEW m \in msgs, m.type = "VOTE_RESP",
           m.granted = TRUE, m.term = current_term[m.to],
           state[m.to] = "CANDIDATE", msgs' = msgs \ {m},
           votes_received' = [votes_received EXCEPT ![m.to] = @ + 1],
           counted' = [counted EXCEPT ![m.to] = @ \cup {m.from}],
           UNCHANGED <<current_term, voted_for, grants>>,
           \/ /\ votes_received[m.to] + 1 >= majority
              /\ become_leader(m.to)
           \/ UNCHANGED <<state, elections>>
    PROVE  ElectionInv'
<1> USE DEF ElectionInv
<1> DEFINE i == m.to
           v == m.from
           t == current_term[i]
<1>1. /\ v \in Node /\ i \in Node /\ t \in Nat
      /\ <<v, t, i>> \in grants
      /\ v \notin counted[i]
  BY VoteInFlight
<1>2. /\ counted'[i] = counted[i] \cup {v}
      /\ votes_received'[i] = votes_received[i] + 1
      /\ \A j \in Node \ {i} : /\ counted'[j] = counted[j]
                               /\ votes_received'[j] = votes_received[j]
                               /\ state'[j] = state[j]
      /\ state'[i] \in {"CANDIDATE", "LEADER"}
      /\ elections \subseteq elections'
  BY <1>1 DEF TypeOK, RaftTypeOK, HistoryTypeOK, become_leader
<1>3. VotesStep
  BY <1>1, <1>2 DEF VotesStep, Stays
<1>4. /\ OpenTermsLocked'
      /\ \A e \in elections :
            \E W \in SUBSET Node : /\ Cardinality(W) >= majority
                                   /\ \A w \in W : Locked(w, e[2], e[1])'
  BY <1>3, LocksSurvive
<1>5. /\ IsFiniteSet(counted[i])
      /\ Cardinality(counted'[i]) = Cardinality(counted[i]) + 1
  <2>1. counted[i] \in SUBSET Node
    BY <1>1 DEF TypeOK, HistoryTypeOK
  <2>2. IsFiniteSet(counted[i])
    BY <2>1, NodeAssumption, FS_Subset
  <2>3. Cardinality(counted[i] \cup {v}) = Cardinality(counted[i]) + 1
    BY <1>1, <2>2, FS_AddElement
  <2> QED
    BY <1>2, <2>2, <2>3
<1>6. \A w \in counted'[i] : <<w, t, i>> \in grants
  BY <1>1, <1>2 DEF VotesRecorded
<1>7. VotesRecorded'
  BY <1>1, <1>2, <1>5, <1>6 DEF VotesRecorded
<1>8. VotesInFlight'
  <2>1. ASSUME NEW n \in msgs', n.type = "VOTE_RESP", n.granted = TRUE
        PROVE  /\ <<n.from, n.term, n.to>> \in grants'
               /\ n.term = current_term'[n.to] => n.from \notin counted'[n.to]
    <3>1. n \in msgs /\ n # m
      OBVIOUS
    <3>2. /\ n.from \in Node /\ n.to \in Node
          /\ <<n.from, n.term, n.to>> \in grants
          /\ n.term = current_term[n.to] => n.from \notin counted[n.to]
      BY <2>1, <3>1, VoteInFlight
    <3>3. n \in VoteResponse /\ m \in VoteResponse
      BY <2>1, <3>1 DEF TypeOK, Message, VoteRequest, VoteResponse,
                        AppendRequest, AppendResponse
    <3>4. ~(n.from = v /\ n.to = i /\ n.term = t)
      BY <2>1, <3>1, <3>3 DEF VoteResponse
    <3> QED
      BY <1>1, <1>2, <3>2, <3>4
  <2>2. ASSUME NEW n \in msgs', n.type = "VOTE_REQ"
        PROVE  /\ n.from # n.to
               /\ n.term <= current_term'[n.from]
               /\ <<n.to, n.term, n.from>> \notin grants'
               /\ \A o \in msgs' : /\ o.type = "VOTE_REQ"
                                   /\ o.from = n.from
                                   /\ o.to = n.to
                                   /\ o.term = n.term
                                   => o = n
    <3>1. n \in msgs
      OBVIOUS
    <3> QED
      BY <2>2, <3>1, RequestInFlight
  <2> QED
    BY <2>1, <2>2 DEF VotesInFlight
<1>9. CASE UNCHANGED <<state, elections>>
  <2>1. LeadersElected'
    BY <1>9 DEF LeadersElected
  <2>2. LeadersBacked'
    BY <1>4, <1>9 DEF LeadersBacked
  <2> QED
    BY <1>4, <1>7, <1>8, <2>1, <2>2
<1>10. CASE votes_received[i] + 1 >= majority /\ become_leader(i)
  <2>1. elections' = elections \cup {<<i, t>>}
    BY <1>10 DEF become_leader
  <2>2. counted'[i] \in SUBSET Node /\ Cardinality(counted'[i]) >= majority
    <3>1. counted'[i] \in SUBSET Node
      BY <1>1 DEF TypeOK, HistoryTypeOK
    <3>2. votes_received[i] = Cardinality(counted[i])
      BY <1>1 DEF VotesRecorded
    <3> QED
      BY <1>5, <1>10, <3>1, <3>2
  <2>3. \E W \in SUBSET Node : /\ Cardinality(W) >= majority
                               /\ \A w \in W : Locked(w, t, i)'
    <3>1. CASE Won(t)
      <4>1. PICK e \in elections : e[2] = t
        BY <3>1 DEF Won
      <4>2. PICK W \in SUBSET Node : /\ Cardinality(W) >= majority
                                     /\ \A w \in W : Locked(w, t, e[1])
        BY <4>1 DEF LeadersBacked
      <4>3. PICK w \in Node : w \in W /\ w \in counted'[i]
        BY <2>2, <4>2, MajoritiesMeet
      <4>4. i = e[1]
        BY <1>1, <1>6, <4>2, <4>3 DEF Locked
      <4> QED
        BY <1>4, <4>1, <4>4
    <3>2. CASE ~Won(t)
      <4>1. \A w \in counted'[i] : Locked(w, t, i)
        <5> TAKE w \in counted'[i]
        <5>1. <<w, t, i>> \in grants
          BY <1>6
        <5>2. ~Won(<<w, t, i>>[2]) => Locked(<<w, t, i>>[1], <<w, t, i>>[2], <<w, t, i>>[3])
          BY <5>1 DEF OpenTermsLocked
        <5> QED
          BY <3>2, <5>2
      <4>2. ElectionSafety
        BY BackedImpliesSafety
      <4>3. \A w \in counted'[i] : Locked(w, t, i)'
        BY <1>1, <1>3, <2>2, <3>2, <4>1, <4>2, LockStays
      <4> QED
        BY <2>2, <4>3
    <3> QED
      BY <3>1, <3>2
  <2>4. LeadersBacked'
    BY <1>4, <2>1, <2>3 DEF LeadersBacked
  <2>5. LeadersElected'
    BY <1>1, <1>2, <2>1 DEF LeadersElected
  <2> QED
    BY <1>4, <1>7, <1>8, <2>4, <2>5
<1> QED
  BY <1>9, <1>10

LEMMA ElectionInit == Init => ElectionInv
<1> SUFFICES ASSUME Init PROVE ElectionInv
  OBVIOUS
<1>1. TypeOK
  BY TypeInit
<1>2. VotesRecorded
  BY FS_EmptySet DEF Init, VotesRecorded
<1> QED
  BY <1>1, <1>2 DEF Init, ElectionInv, VotesInFlight, OpenTermsLocked,
                    LeadersBacked, LeadersElected

LEMMA ElectionNext == ElectionInv /\ [Next]_vars => ElectionInv'
<1> SUFFICES ASSUME ElectionInv, [Next]_vars PROVE ElectionInv'
  OBVIOUS
<1>0. TypeOK /\ TypeOK'
  BY TypeNext DEF ElectionInv
<1> DEFINE quiet == UNCHANGED <<state, current_term, voted_for, votes_received,
                                counted, grants, elections>>
<1>1. ASSUME NEW m \in msgs, m.type = "VOTE_RESP",
             handle_vote_response(m.to, m, msgs \ {m})
      PROVE  ElectionInv'
  <2>1. msgs' = msgs \ {m}
    BY <1>1 DEF handle_vote_response
  <2>2. NoNewVotes
    BY <2>1 DEF NoNewVotes
  <2>3. m.to \in Node /\ m.term \in Nat
    BY <1>0, MessageFields DEF TypeOK
  <2>4. CASE m.term > current_term[m.to] /\ become_follower(m.to, m.term)
             /\ UNCHANGED <<grants, elections>>
    BY <1>0, <2>2, <2>3, <2>4, FollowerStep
  <2>5. CASE quiet
    BY <1>0, <2>2, <2>5, QuietStep
  <2>6. CASE /\ m.granted = TRUE /\ m.term = current_term[m.to]
             /\ state[m.to] = "CANDIDATE"
             /\ votes_received' = [votes_received EXCEPT ![m.to] = @ + 1]
             /\ counted' = [counted EXCEPT ![m.to] = @ \cup {m.from}]
             /\ UNCHANGED <<current_term, voted_for, grants>>
             /\ \/ /\ votes_received[m.to] + 1 >= majority
                   /\ become_leader(m.to)
                \/ UNCHANGED <<state, elections>>
    BY <1>0, <1>1, <2>1, <2>6, VoteCountedStep
  <2> QED
    BY <1>1, <2>4, <2>5, <2>6
       DEF handle_vote_response, newer_term, raftVars, history
<1>2. ASSUME NEW m \in msgs, m.type = "APPEND_REQ", NEW rest \in SUBSET msgs,
             handle_append_request(m.to, m, rest)
      PROVE  ElectionInv'
  <2>1. NoNewVotes
    BY <1>2 DEF handle_append_request, NoNewVotes
  <2>2. m.to \in Node /\ m.term \in Nat /\ current_term[m.to] \in Nat
    BY <1>0, MessageFields DEF TypeOK, RaftTypeOK
  <2>3. /\ <<m.from, m.term>> \in elections
        /\ m.from # m.to
    BY <1>2 DEF ElectionInv, LeadersElected
  <2>4. UNCHANGED <<grants, elections>>
    BY <1>2 DEF handle_append_request
  <2>5. CASE become_follower(m.to, m.term) /\ m.term > current_term[m.to]
    BY <1>0, <2>1, <2>2, <2>4, <2>5, FollowerStep
  <2>6. CASE /\ become_follower(m.to, m.term)
             /\ m.term = current_term[m.to]
             /\ state[m.to] = "CANDIDATE"
    <3>1. <<m.from, m.term>>[2] = current_term[m.to] /\ <<m.from, m.term>>[1] # m.to
      BY <2>3, <2>6
    <3>2. \E e \in elections : e[2] = current_term[m.to] /\ e[1] # m.to
      BY <2>3, <3>1
    <3> QED
      BY <1>0, <2>1, <2>2, <2>4, <2>6, <3>2, FollowerStep
  <2>7. CASE UNCHANGED <<state, current_term, voted_for, votes_received, counted>>
    BY <1>0, <2>1, <2>4, <2>7, QuietStep
  <2> QED
    BY <1>2, <2>2, <2>5, <2>6, <2>7 DEF handle_append_request, newer_term
<1>3. ASSUME NEW m \in msgs, m.type = "APPEND_RESP", NEW rest \in SUBSET msgs,
             handle_append_response(m.to, m, rest)
      PROVE  ElectionInv'
  <2>1. NoNewVotes
    BY <1>3 DEF handle_append_response, NoNewVotes
  <2>2. m.to \in Node /\ m.term \in Nat
    BY <1>0, MessageFields DEF TypeOK
  <2>3. CASE m.term > current_term[m.to] /\ become_follower(m.to, m.term)
             /\ UNCHANGED <<grants, elections>>
    BY <1>0, <2>1, <2>2, <2>3, FollowerStep
  <2>4. CASE quiet
    BY <1>0, <2>1, <2>4, QuietStep
  <2> QED
    BY <1>3, <2>3, <2>4 DEF handle_append_response, newer_term, raftVars, history
<1>4. ASSUME NEW m \in msgs, Deliver(m) \/ Redeliver(m) PROVE ElectionInv'
  <2>1. PICK rest \in SUBSET msgs :
             /\ ~IsAppend(m) => rest = msgs \ {m}
             /\ \/ m.type = "VOTE_REQ" /\ handle_vote_request(m.to, m, rest)
                \/ m.type = "VOTE_RESP" /\ handle_vote_response(m.to, m, rest)
                \/ m.type = "APPEND_REQ" /\ handle_append_request(m.to, m, rest)
                \/ m.type = "APPEND_RESP" /\ handle_append_response(m.to, m, rest)
    BY <1>0, <1>4, DeliveryCases
  <2>2. m.type \in {"VOTE_REQ", "VOTE_RESP"} => rest = msgs \ {m}
    BY <2>1 DEF IsAppend
  <2> QED
    BY <1>0, <1>1, <1>2, <1>3, <2>1, <2>2, VoteRequestStep
<1>5. ASSUME NEW i \in Node, ElectionTick(i) PROVE ElectionInv'
  BY <1>0, <1>5, CandidateStep DEF ElectionTick
<1>6. ASSUME NEW i \in Node, HeartbeatTick(i) PROVE ElectionInv'
  <2>1. \A j \in Peers(i) : /\ Heartbeat(i, j).type = "APPEND_REQ"
                            /\ Heartbeat(i, j).from = i /\ Heartbeat(i, j).to = j
                            /\ Heartbeat(i, j).term = current_term[i]
                            /\ i # j
    BY DEF Heartbeat, Peers
  <2>2. <<i, current_term[i]>> \in elections
    BY <1>6 DEF HeartbeatTick, ElectionInv, LeadersElected
  <2>3. NoNewVotes
    BY <1>6, <2>1, <2>2 DEF HeartbeatTick, NoNewVotes
  <2> QED
    BY <1>0, <1>6, <2>3, QuietStep DEF HeartbeatTick, raftVars, history
<1>7. ASSUME NEW i \in Node, IdleTick(i) PROVE ElectionInv'
  BY <1>0, <1>7, QuietStep DEF IdleTick, NoNewVotes, raftVars, history
<1>8. ASSUME NEW i \in Node, NEW d \in Data, dist_storage_write(i, d)
      PROVE  ElectionInv'
  BY <1>0, <1>8, QuietStep DEF dist_storage_write, NoNewVotes, raftVars, history
<1>9. ASSUME NEW i \in Node, NEW j \in Node, raft_remove_node(i, j)
      PROVE  ElectionInv'
  BY <1>0, <1>9, QuietStep DEF raft_remove_node, NoNewVotes, raftVars, history
<1>10. ASSUME NEW m \in msgs, Lose(m) PROVE ElectionInv'
  BY <1>0, <1>10, QuietStep DEF Lose, NoNewVotes, raftVars, history
<1>11. CASE UNCHANGED vars
  BY <1>0, <1>11, QuietStep DEF vars, NoNewVotes, raftVars, history
<1> QED
  BY <1>4, <1>5, <1>6, <1>7, <1>8, <1>9, <1>10, <1>11 DEF Next, raft_tick

\* The invariant of elections, conjunct by conjunct, holds in every reachable
\* state of every cluster.
THEOREM ElectionInvariant == Spec => []ElectionInv
<1>1. Init => ElectionInv
  BY ElectionInit
<1>2. ElectionInv /\ [Next]_vars => ElectionInv'
  BY ElectionNext
<1> QED
  BY <1>1, <1>2, PTL DEF Spec

\* At most one node becomes leader of a term, for every cluster size and any
\* loss and reordering of messages, provided that no node is rebooted and that
\* vote messages are not duplicated.
THEOREM ElectionSafe == Spec => []ElectionSafety
<1>1. ElectionInv => ElectionSafety
  BY BackedImpliesSafety DEF ElectionInv
<1> QED
  BY <1>1, ElectionInvariant, PTL

\* Votes given are never erased, and no vote changes in the step in which a
\* leader is elected.
LEMMA VotesOrElections ==
    ASSUME TypeOK, [Next]_vars
    PROVE  voted_for' = voted_for \/ (elections' = elections /\ grants \subseteq grants')
<1>1. ASSUME NEW m \in msgs, Deliver(m) \/ Redeliver(m)
      PROVE  voted_for' = voted_for \/ (elections' = elections /\ grants \subseteq grants')
  <2>1. PICK rest \in SUBSET msgs :
             \/ m.type = "VOTE_REQ" /\ handle_vote_request(m.to, m, rest)
             \/ m.type = "VOTE_RESP" /\ handle_vote_response(m.to, m, rest)
             \/ m.type = "APPEND_REQ" /\ handle_append_request(m.to, m, rest)
             \/ m.type = "APPEND_RESP" /\ handle_append_response(m.to, m, rest)
    BY <1>1, DeliveryCases
  <2>2. CASE handle_vote_request(m.to, m, rest)
    BY <2>2 DEF handle_vote_request
  <2>3. CASE handle_vote_response(m.to, m, rest)
    BY <2>3 DEF handle_vote_response, raftVars
  <2>4. CASE handle_append_request(m.to, m, rest)
    BY <2>4 DEF handle_append_request
  <2>5. CASE handle_append_response(m.to, m, rest)
    BY <2>5 DEF handle_append_response, raftVars
  <2> QED
    BY <2>1, <2>2, <2>3, <2>4, <2>5
<1>2. ASSUME NEW i \in Node, ElectionTick(i)
      PROVE  elections' = elections /\ grants \subseteq grants'
  BY <1>2 DEF ElectionTick, become_candidate
<1>3. ASSUME NEW i \in Node, HeartbeatTick(i) \/ IdleTick(i)
      PROVE  voted_for' = voted_for
  BY <1>3 DEF HeartbeatTick, IdleTick, raftVars
<1>4. ASSUME NEW i \in Node, NEW d \in Data, dist_storage_write(i, d)
      PROVE  voted_for' = voted_for
  BY <1>4 DEF dist_storage_write, raftVars
<1>5. ASSUME NEW i \in Node, NEW j \in Node, raft_remove_node(i, j)
      PROVE  voted_for' = voted_for
  BY <1>5 DEF raft_remove_node, raftVars
<1>6. ASSUME NEW m \in msgs, Lose(m) PROVE voted_for' = voted_for
  BY <1>6 DEF Lose, raftVars
<1>7. CASE UNCHANGED vars
  BY <1>7 DEF vars, raftVars
<1> QED
  BY <1>1, <1>2, <1>3, <1>4, <1>5, <1>6, <1>7 DEF Next, raft_tick

\* The two become_follower calls that forget a vote within its term come too
\* late to elect anyone: whenever a vote is withdrawn or changed within a term,
\* that term already has its leader.
THEOREM VoteOnceBeforeLeader == Spec => SecondVoteIsHarmless
<1> DEFINE Harmless(i) ==
             /\ current_term'[i] = current_term[i]
             /\ voted_for[i] # Nil
             /\ voted_for'[i] # voted_for[i]
             => \E e \in elections : e[2] = current_term[i]
<1>1. ElectionInv /\ ElectionInv' /\ [Next]_vars => \A i \in Node : Harmless(i)
  <2> SUFFICES ASSUME ElectionInv, ElectionInv', [Next]_vars,
                      NEW i \in Node, NEW t, t = current_term[i],
                      NEW v, v = voted_for[i], v # Nil,
                      current_term'[i] = t, voted_for'[i] # v, ~Won(t)
               PROVE  FALSE
    BY DEF Won
  <2>1. elections' = elections /\ grants \subseteq grants'
    BY VotesOrElections DEF ElectionInv
  <2>2. <<i, t, v>> \in grants'
    BY <2>1 DEF ElectionInv, VotesRecorded
  <2>3. ~Won(t)'
    BY <2>1 DEF Won
  <2>4. Locked(i, t, v)'
    BY <2>2, <2>3 DEF ElectionInv, OpenTermsLocked
  <2> QED
    BY <2>4 DEF Locked
<1>2. (\A i \in Node : Harmless(i)) =>
        \A i \in Node :
           /\ current_term'[i] = current_term[i]
           /\ voted_for[i] # Nil
           /\ voted_for'[i] # voted_for[i]
           => \E e \in elections : e[2] = current_term[i]
  OBVIOUS
<1> HIDE DEF Harmless
<1> QED
  BY <1>1, <1>2, ElectionInvariant, PTL DEF Spec, SecondVoteIsHarmless

-----------------------------------------------------------------------------
(* The logs. *)

\* Log entries and commit indexes as no step but an append or a response
\* changes them.
EntriesOwned == \A i \in Node : \A k \in 1..Len(log[i]) : <<i, log[i][k].term>> \in elections
PeersBehind ==
    \A i \in Node :
      /\ commit_index[i] = 0
      /\ \A j \in Node : match_index[i][j] = 0 /\ next_index[i][j] <= Len(log[i]) + 1
RequestsQuote(m) ==
    m.type = "APPEND_REQ" =>
      /\ m.leader_commit = 0
      /\ m.entry_count = 0
      /\ m.prev_log_index > 0 =>
           /\ m.prev_log_index <= Len(log[m.from])
           /\ log[m.from][m.prev_log_index].term = m.prev_log_term
ResponsesEmpty(m) == m.type = "APPEND_RESP" => m.from # m.to /\ m.match_index = 0

\* An entry of the log after append_log_entry is old or of the given term.
LEMMA AppendedTerm ==
    ASSUME NEW l \in Seq(Entry), Len(l) < RAFT_LOG_SIZE,
           NEW t \in Nat, NEW e \in Data \cup {Nil},
           NEW k \in 1..Len(append_log_entry(l, t, e))
    PROVE  k \in 1..Len(l) \/ append_log_entry(l, t, e)[k].term = t
  BY AppendKeeps

\* NothingReplicated, conjunct by conjunct.
LEMMA NothingReplicatedParts ==
    NothingReplicated <=> /\ EntriesOwned
                          /\ PeersBehind
                          /\ \A m \in msgs : RequestsQuote(m) /\ ResponsesEmpty(m)
BY DEF NothingReplicated, EntriesOwned, PeersBehind, RequestsQuote, ResponsesEmpty

\* A request in flight still quotes an entry of its sender after any step, for
\* logs only grow; nor do entries lose their election.
LEMMA QuotesStay ==
    ASSUME TypeOK, \A i \in Node : Forward(i), NEW m \in msgs, RequestsQuote(m)
    PROVE  RequestsQuote(m)'
<1> SUFFICES ASSUME m.type = "APPEND_REQ", m.prev_log_index > 0
             PROVE  /\ m.prev_log_index <= Len(log'[m.from])
                    /\ log'[m.from][m.prev_log_index].term = m.prev_log_term
  BY DEF RequestsQuote
<1>1. m.from \in Node /\ m.prev_log_index \in Nat
  BY MessageFields DEF TypeOK
<1>2. Len(log[m.from]) \in Nat
  BY <1>1 DEF TypeOK, LogTypeOK
<1>3. /\ Len(log'[m.from]) >= Len(log[m.from])
      /\ \A k \in 1..Len(log[m.from]) : log'[m.from][k] = log[m.from][k]
  BY <1>1 DEF Forward
<1>4. m.prev_log_index \in 1..Len(log[m.from])
  BY <1>1, <1>2 DEF RequestsQuote
<1>5. Len(log'[m.from]) \in Int
  BY <1>3, <1>1 DEF TypeOK, LogTypeOK
<1> QED
  BY <1>1, <1>2, <1>3, <1>4, <1>5 DEF RequestsQuote

\* A step that leaves the logs, the peers' indexes and the commit indexes alone
\* and sends only messages that are in order.
LEMMA LogsQuiet ==
    ASSUME TypeOK, NothingReplicated, elections \subseteq elections',
           UNCHANGED <<log, commit_index, match_index, next_index>>,
           \A m \in msgs' : m \in msgs \/ (RequestsQuote(m)' /\ ResponsesEmpty(m)')
    PROVE  NothingReplicated'
<1>1. EntriesOwned' /\ PeersBehind'
  BY NothingReplicatedParts DEF EntriesOwned, PeersBehind
<1>2. \A m \in msgs : RequestsQuote(m)' /\ ResponsesEmpty(m)'
  BY NothingReplicatedParts DEF RequestsQuote, ResponsesEmpty
<1>3. \A m \in msgs' : RequestsQuote(m)' /\ ResponsesEmpty(m)'
  BY <1>2
<1>4. NothingReplicated' <=> /\ EntriesOwned'
                            /\ PeersBehind'
                            /\ \A m \in msgs' : RequestsQuote(m)' /\ ResponsesEmpty(m)'
  BY DEF NothingReplicated, EntriesOwned, PeersBehind, RequestsQuote, ResponsesEmpty
<1> QED
  BY <1>1, <1>3, <1>4

\* A step in which one node appends an entry of a term it was elected in.
LEMMA LeaderAppends ==
    ASSUME TypeOK, TypeOK', NothingReplicated, elections \subseteq elections',
           NEW i \in Node, NEW d \in Data \cup {Nil},
           <<i, current_term[i]>> \in elections',
           log' = [log EXCEPT ![i] = append_log_entry(@, current_term[i], d)],
           \A j \in Node : Forward(j),
           UNCHANGED commit_index, msgs' \subseteq msgs,
           \A p, j \in Node : /\ match_index'[p][j] = 0
                              /\ next_index'[p][j] <= Len(log[p]) + 1
    PROVE  NothingReplicated'
<1>1. log \in [Node -> Seq(Entry)] /\ Len(log[i]) < RAFT_LOG_SIZE /\ current_term[i] \in Nat
  BY DEF TypeOK, LogTypeOK, RaftTypeOK
<1>2. /\ \A j \in Node \ {i} : log'[j] = log[j]
      /\ log'[i] = append_log_entry(log[i], current_term[i], d)
  BY <1>1
<1>3. EntriesOwned'
  <2> SUFFICES ASSUME NEW j \in Node, NEW k \in 1..Len(log'[j])
               PROVE  <<j, log'[j][k].term>> \in elections'
    BY DEF EntriesOwned
  <2>1. \A n \in 1..Len(log[j]) : <<j, log[j][n].term>> \in elections
    BY NothingReplicatedParts DEF EntriesOwned
  <2>2. CASE j # i
    BY <1>2, <2>1, <2>2
  <2>3. CASE j = i
    <3>1. k \in 1..Len(log[i]) \/ log'[i][k].term = current_term[i]
      <4>1. log[i] \in Seq(Entry) /\ k \in 1..Len(append_log_entry(log[i], current_term[i], d))
        BY <1>1, <1>2, <2>3
      <4>2. k \in 1..Len(log[i]) \/ append_log_entry(log[i], current_term[i], d)[k].term = current_term[i]
        BY <1>1, <4>1, AppendedTerm
      <4> QED
        BY <1>2, <4>2
    <3>2. CASE k \in 1..Len(log[i])
      <4>1. log'[i][k] = log[i][k]
        BY <3>2 DEF Forward
      <4> QED
        BY <2>1, <2>3, <3>2, <4>1
    <3> QED
      BY <2>3, <3>1, <3>2
  <2> QED
    BY <2>2, <2>3
<1>4. PeersBehind'
  <2>1. \A j \in Node : Len(log'[j]) >= Len(log[j]) /\ Len(log[j]) \in Nat /\ Len(log'[j]) \in Nat
    BY DEF Forward, TypeOK, LogTypeOK
  <2>2. \A p, j \in Node : next_index'[p][j] \in Nat
    BY DEF TypeOK, PeerTypeOK
  <2>3. \A j \in Node : commit_index'[j] = 0
    BY NothingReplicatedParts DEF PeersBehind
  <2> QED
    BY <2>1, <2>2, <2>3 DEF PeersBehind
<1>5. \A m \in msgs' : RequestsQuote(m)' /\ ResponsesEmpty(m)'
  <2>1. \A m \in msgs : RequestsQuote(m) /\ ResponsesEmpty(m)
    BY NothingReplicatedParts
  <2> QED
    BY <2>1, QuotesStay DEF ResponsesEmpty
<1> QED
  BY <1>3, <1>4, <1>5 DEF NothingReplicated, EntriesOwned, PeersBehind, RequestsQuote, ResponsesEmpty

\* No follower holds the entry that a request quotes: its term belongs to the
\* log of the sender.
LEMMA NeverMatches ==
    ASSUME TypeOK, ElectionSafety, LeadersElected, NothingReplicated,
           NEW m \in msgs, m.type = "APPEND_REQ", log_consistent(m, log[m.to])
    PROVE  m.prev_log_index = 0
<1> SUFFICES ASSUME m.prev_log_index # 0 PROVE FALSE
  OBVIOUS
<1>1. m.from \in Node /\ m.to \in Node /\ m.prev_log_index \in Nat
  BY MessageFields DEF TypeOK
<1>2. m.from # m.to
  BY DEF LeadersElected
<1>3. m.prev_log_index \in 1..Len(log[m.to]) /\ log[m.to][m.prev_log_index].term = m.prev_log_term
  BY <1>1 DEF log_consistent
<1>4. RequestsQuote(m)
  BY NothingReplicatedParts
<1>5. /\ m.prev_log_index \in 1..Len(log[m.from])
      /\ log[m.from][m.prev_log_index].term = m.prev_log_term
  BY <1>1, <1>4 DEF RequestsQuote
<1>6. EntriesOwned
  BY NothingReplicatedParts
<1>7. <<m.from, m.prev_log_term>> \in elections /\ <<m.to, m.prev_log_term>> \in elections
  BY <1>1, <1>3, <1>5, <1>6 DEF EntriesOwned
<1> DEFINE e == <<m.from, m.prev_log_term>>
           f == <<m.to, m.prev_log_term>>
<1>8. e[2] = f[2] => e[1] = f[1]
  BY <1>7 DEF ElectionSafety
<1> QED
  BY <1>2, <1>8

\* The commit loop of handle_append_response finds nothing to commit.
LEMMA CommitStays ==
    ASSUME TypeOK, NothingReplicated, NEW i \in Node, NEW j \in Node, i # j,
           NEW match, \A p \in Node : match[p] = 0, advance_commit(i, match)
    PROVE  commit_index' = commit_index
<1>1. commit_index \in [Node -> Nat] /\ commit_index[i] = 0 /\ Len(log[i]) \in Nat
  BY NothingReplicatedParts DEF PeersBehind, TypeOK, LogTypeOK
<1>2. majority >= 2
  <2>1. Cardinality(Node) \in Nat
    BY NodeAssumption, FS_CardinalityType
  <2>2. Cardinality({i, j}) = 2 /\ IsFiniteSet({i, j})
    <3>1. Cardinality({i}) = 1 /\ IsFiniteSet({i})
      BY FS_Singleton
    <3>2. IsFiniteSet({i} \cup {j}) /\ Cardinality({i} \cup {j}) = 1 + 1
      BY <3>1, FS_AddElement
    <3>3. {i} \cup {j} = {i, j}
      OBVIOUS
    <3> QED
      BY <3>2, <3>3
  <2>3. Cardinality({i, j}) <= Cardinality(Node)
    BY NodeAssumption, FS_Subset
  <2> QED
    BY <2>1, <2>2, <2>3 DEF majority
<1>3. \A n \in 1..Len(log[i]) : ~(replica_count(i, n, match) >= majority)
  <2> TAKE n \in 1..Len(log[i])
  <2>1. {p \in Node : match[p] >= n} = {}
    OBVIOUS
  <2>2. replica_count(i, n, match) = 1
    <3>1. Cardinality({p \in Node : match[p] >= n}) = 0
      BY <2>1, FS_EmptySet
    <3> QED
      BY <3>1 DEF replica_count
  <2>3. majority \in Nat
    BY NodeAssumption, FS_CardinalityType DEF majority
  <2> QED
    BY <1>2, <2>2, <2>3
<1> DEFINE reached == {commit_index[i]} \cup
                      {n \in commit_index[i] + 1 .. last_index(i) :
                          /\ replica_count(i, n, match) >= majority
                          /\ log[i][n].term = current_term[i]}
<1>4. reached = {0}
  BY <1>1, <1>3 DEF last_index
<1>5. PICK c \in reached : commit_index' = [commit_index EXCEPT ![i] = c]
  BY DEF advance_commit
<1>6. commit_index' = [commit_index EXCEPT ![i] = 0]
  BY <1>4, <1>5
<1> QED
  BY <1>1, <1>6

LEMMA ReplicationVoteResponse ==
    ASSUME ElectionInv, ElectionInv', NothingReplicated, \A j \in Node : Forward(j),
           NEW m \in msgs, m.type = "VOTE_RESP",
           NEW rest \in SUBSET msgs, handle_vote_response(m.to, m, rest)
    PROVE  NothingReplicated'
<1>1. TypeOK /\ TypeOK' /\ m.to \in Node
  BY MessageFields DEF ElectionInv, TypeOK
<1>2. \A n \in msgs' : n \in msgs
  BY DEF handle_vote_response
<1>3. CASE UNCHANGED <<log, commit_index, match_index, next_index, elections>>
  BY <1>1, <1>2, <1>3, LogsQuiet
<1>4. CASE /\ become_leader(m.to) /\ UNCHANGED <<commit_index, current_term>>
  <2>1. <<m.to, current_term[m.to]>> \in elections' /\ elections \subseteq elections'
    BY <1>4 DEF become_leader
  <2>2. \A p, j \in Node : match_index'[p][j] = 0 /\ next_index'[p][j] <= Len(log[p]) + 1
    <3>1. \A p, j \in Node : match_index[p][j] = 0 /\ next_index[p][j] <= Len(log[p]) + 1
      BY NothingReplicatedParts DEF PeersBehind
    <3>2. /\ next_index \in [Node -> [Node -> Nat \ {0}]]
          /\ match_index \in [Node -> [Node -> Nat]] /\ \A p \in Node : Len(log[p]) \in Nat
      BY <1>1 DEF TypeOK, PeerTypeOK, LogTypeOK
    <3> QED
      BY <1>1, <1>4, <3>1, <3>2 DEF become_leader, last_index
  <2>3. log' = [log EXCEPT ![m.to] = append_log_entry(@, current_term[m.to], Nil)]
    BY <1>4 DEF become_leader
  <2>4. msgs' \subseteq msgs
    BY <1>2
  <2> QED
    BY <1>1, <1>4, <2>1, <2>2, <2>3, <2>4, LeaderAppends
<1> QED
  BY <1>3, <1>4 DEF handle_vote_response, logVars, peerVars, history

LEMMA ReplicationAppendRequest ==
    ASSUME ElectionInv, ElectionSafety, NothingReplicated,
           NEW m \in msgs, m.type = "APPEND_REQ",
           NEW rest \in SUBSET msgs, handle_append_request(m.to, m, rest)
    PROVE  NothingReplicated'
<1>1. /\ TypeOK /\ LeadersElected /\ m.from \in Node /\ m.to \in Node
      /\ m.prev_log_index \in Nat
  BY MessageFields DEF ElectionInv, TypeOK
<1>2. RequestsQuote(m) /\ m.from # m.to
  BY <1>1, NothingReplicatedParts DEF LeadersElected
<1>3. commit_index' = commit_index
  <2>1. commit_index[m.to] = 0
    BY <1>1, NothingReplicatedParts DEF PeersBehind
  <2> QED
    BY <1>2, <2>1 DEF RequestsQuote, handle_append_request
<1> DEFINE newer == newer_term(m.term, current_term[m.to])
           stale == ~newer /\ m.term < current_term[m.to]
           ok == ~stale /\ log_consistent(m, log[m.to])
           match == IF ok THEN m.prev_log_index + m.entry_count ELSE 0
           r == [type |-> "APPEND_RESP", from |-> m.to, to |-> m.from,
                 term |-> IF newer THEN m.term ELSE current_term[m.to],
                 success |-> ok, match_index |-> match]
<1>4. msgs' = rest \cup {r}
  BY DEF handle_append_request
<1>5. match = 0
  <2>1. log_consistent(m, log[m.to]) => m.prev_log_index = 0
    BY <1>1, NeverMatches
  <2>2. m.entry_count = 0
    BY <1>2 DEF RequestsQuote
  <2> QED
    BY <2>1, <2>2
<1>6. \A n \in msgs' : n \in msgs \/ (RequestsQuote(n)' /\ ResponsesEmpty(n)')
  <2>1. /\ r.type = "APPEND_RESP" /\ r.from = m.to /\ r.to = m.from
        /\ r.match_index = 0
    BY <1>5
  <2> HIDE DEF r
  <2> QED
    BY <1>2, <1>4, <2>1 DEF RequestsQuote, ResponsesEmpty
<1>7. elections \subseteq elections' /\ UNCHANGED <<log, match_index, next_index>>
  BY DEF handle_append_request, peerVars
<1> QED
  BY <1>1, <1>3, <1>6, <1>7, LogsQuiet

LEMMA ReplicationAppendResponse ==
    ASSUME ElectionInv, NothingReplicated,
           NEW m \in msgs, m.type = "APPEND_RESP",
           NEW rest \in SUBSET msgs, handle_append_response(m.to, m, rest)
    PROVE  NothingReplicated'
<1>1. TypeOK /\ m.from \in Node /\ m.to \in Node
  BY MessageFields DEF ElectionInv, TypeOK
<1>2. m.from # m.to /\ m.match_index = 0
  BY NothingReplicatedParts DEF ResponsesEmpty
<1>3. log' = log /\ elections' = elections /\ msgs' \subseteq msgs
  BY DEF handle_append_response, logVars, history
<1>4. /\ match_index \in [Node -> [Node -> Nat]]
      /\ next_index \in [Node -> [Node -> Nat \ {0}]]
      /\ \A i \in Node : Len(log[i]) \in Nat
  BY <1>1 DEF TypeOK, PeerTypeOK, LogTypeOK
<1>5. \A i, j \in Node : match_index[i][j] = 0 /\ next_index[i][j] <= Len(log[i]) + 1
  BY NothingReplicatedParts DEF PeersBehind
<1>6. \A i, j \in Node : match_index'[i][j] = 0 /\ next_index'[i][j] <= Len(log[i]) + 1
  <2>1. CASE UNCHANGED <<match_index, next_index>>
    BY <1>5, <2>1
  <2>2. CASE /\ match_index' = [match_index EXCEPT ![m.to][m.from] = m.match_index]
             /\ next_index' = [next_index EXCEPT ![m.to][m.from] = m.match_index + 1]
    <3> SUFFICES ASSUME NEW i \in Node, NEW j \in Node
                 PROVE  match_index'[i][j] = 0 /\ next_index'[i][j] <= Len(log[i]) + 1
      OBVIOUS
    <3>1. CASE i = m.to /\ j = m.from
      BY <1>1, <1>2, <1>4, <2>2, <3>1
    <3>2. CASE ~(i = m.to /\ j = m.from)
      BY <1>1, <1>4, <1>5, <2>2, <3>2
    <3> QED
      BY <3>1, <3>2
  <2>3. CASE /\ match_index' = match_index
             /\ next_index' = [next_index EXCEPT ![m.to][m.from] = IF @ > 1 THEN @ - 1 ELSE @]
    <3> DEFINE old == next_index[m.to][m.from]
               new == IF old > 1 THEN old - 1 ELSE old
    <3>1. old \in Nat \ {0} /\ old <= Len(log[m.to]) + 1
      BY <1>1, <1>4, <1>5
    <3>2. new <= Len(log[m.to]) + 1
      <4>1. Len(log[m.to]) \in Nat
        BY <1>1, <1>4
      <4> HIDE DEF old
      <4> QED
        BY <3>1, <4>1
    <3>3. next_index' = [next_index EXCEPT ![m.to][m.from] = new]
      BY <2>3
    <3> HIDE DEF new
    <3> SUFFICES ASSUME NEW i \in Node, NEW j \in Node
                 PROVE  match_index'[i][j] = 0 /\ next_index'[i][j] <= Len(log[i]) + 1
      OBVIOUS
    <3>4. CASE i = m.to /\ j = m.from
      BY <1>1, <1>4, <1>5, <2>3, <3>2, <3>3, <3>4
    <3>5. CASE ~(i = m.to /\ j = m.from)
      BY <1>1, <1>4, <1>5, <2>3, <3>3, <3>5
    <3> QED
      BY <3>4, <3>5
  <2> QED
    BY <2>1, <2>2, <2>3 DEF handle_append_response, peerVars
<1>7. commit_index' = commit_index
  <2>1. CASE /\ match_index' = [match_index EXCEPT ![m.to][m.from] = m.match_index]
             /\ advance_commit(m.to, match_index'[m.to])
    <3> DEFINE match == match_index'[m.to]
    <3>1. advance_commit(m.to, match) /\ \A p \in Node : match[p] = 0
      BY <1>1, <1>6, <2>1
    <3> HIDE DEF match
    <3> QED
      BY <1>1, <1>2, <3>1, CommitStays
  <2> QED
    BY <2>1 DEF handle_append_response, logVars
<1>8. PeersBehind' /\ EntriesOwned'
  <2>1. \A i \in Node : commit_index[i] = 0
    BY NothingReplicatedParts DEF PeersBehind
  <2>2. EntriesOwned
    BY NothingReplicatedParts
  <2> QED
    BY <1>3, <1>6, <1>7, <2>1, <2>2 DEF PeersBehind, EntriesOwned
<1>9. \A n \in msgs' : RequestsQuote(n)' /\ ResponsesEmpty(n)'
  BY <1>3, NothingReplicatedParts DEF RequestsQuote, ResponsesEmpty
<1> QED
  BY <1>8, <1>9 DEF NothingReplicated, EntriesOwned, PeersBehind, RequestsQuote, ResponsesEmpty

LEMMA ReplicationHeartbeat ==
    ASSUME ElectionInv, NothingReplicated, NEW i \in Node, HeartbeatTick(i)
    PROVE  NothingReplicated'
<1>1. /\ TypeOK /\ Len(log[i]) \in Nat /\ log' = log
      /\ next_index \in [Node -> [Node -> Nat \ {0}]]
  BY DEF ElectionInv, TypeOK, LogTypeOK, PeerTypeOK, HeartbeatTick
<1>2. commit_index[i] = 0 /\ \A j \in Node : next_index[i][j] <= Len(log[i]) + 1
  BY NothingReplicatedParts DEF PeersBehind
<1>3. \A n \in msgs' : n \in msgs \/ (RequestsQuote(n)' /\ ResponsesEmpty(n)')
  <2> SUFFICES ASSUME NEW j \in Peers(i), NEW n, n = Heartbeat(i, j)
               PROVE  RequestsQuote(n)' /\ ResponsesEmpty(n)'
    BY DEF HeartbeatTick
  <2> DEFINE prev == next_index[i][j] - 1
  <2>1. j \in Node
    BY <1>1 DEF Peers, TypeOK, PeerTypeOK
  <2>2. prev \in Nat /\ prev <= Len(log[i])
    BY <1>1, <1>2, <2>1
  <2>3. /\ n.type = "APPEND_REQ" /\ n.from = i /\ n.prev_log_index = prev
        /\ n.prev_log_term = entry_term(log[i], prev)
        /\ n.leader_commit = 0 /\ n.entry_count = 0
    BY <1>2 DEF Heartbeat
  <2>4. prev > 0 => entry_term(log[i], prev) = log[i][prev].term
    BY <1>1, <2>2 DEF entry_term
  <2> HIDE DEF prev
  <2> QED
    BY <1>1, <2>2, <2>3, <2>4 DEF RequestsQuote, ResponsesEmpty
<1>4. elections \subseteq elections' /\ UNCHANGED <<log, commit_index, match_index, next_index>>
  BY DEF HeartbeatTick, peerVars, history
<1> QED
  BY <1>1, <1>3, <1>4, LogsQuiet

LEMMA ReplicationNext ==
    ElectionInv /\ ElectionInv' /\ NothingReplicated /\ [Next]_vars => NothingReplicated'
<1> SUFFICES ASSUME ElectionInv, ElectionInv', NothingReplicated, [Next]_vars
             PROVE  NothingReplicated'
  OBVIOUS
<1>1. TypeOK /\ TypeOK' /\ ElectionSafety
  BY BackedImpliesSafety DEF ElectionInv
<1>2. ASSUME NEW m \in msgs, Deliver(m) \/ Redeliver(m) PROVE NothingReplicated'
  <2>1. PICK rest \in SUBSET msgs :
             \/ m.type = "VOTE_REQ" /\ handle_vote_request(m.to, m, rest)
             \/ m.type = "VOTE_RESP" /\ handle_vote_response(m.to, m, rest)
             \/ m.type = "APPEND_REQ" /\ handle_append_request(m.to, m, rest)
             \/ m.type = "APPEND_RESP" /\ handle_append_response(m.to, m, rest)
    BY <1>1, <1>2, DeliveryCases
  <2>2. CASE handle_vote_request(m.to, m, rest)
    <3>1. elections \subseteq elections' /\ UNCHANGED <<log, commit_index, match_index, next_index>>
      BY <2>2 DEF handle_vote_request, logVars, peerVars
    <3>2. \A n \in msgs' : n \in msgs \/ n.type = "VOTE_RESP"
      BY <2>2 DEF handle_vote_request
    <3>3. \A n \in msgs' : n \in msgs \/ (RequestsQuote(n)' /\ ResponsesEmpty(n)')
      BY <3>2 DEF RequestsQuote, ResponsesEmpty
    <3> QED
      BY <1>1, <3>1, <3>3, LogsQuiet
  <2>3. \A j \in Node : Forward(j)
    BY <1>1, <1>2, ForwardDelivery
  <2> QED
    BY <1>1, <2>1, <2>2, <2>3, ReplicationVoteResponse, ReplicationAppendRequest,
       ReplicationAppendResponse
<1>3. ASSUME NEW i \in Node, HeartbeatTick(i) PROVE NothingReplicated'
  BY <1>3, ReplicationHeartbeat
<1>4. ASSUME NEW i \in Node, ElectionTick(i) PROVE NothingReplicated'
  <2>1. elections \subseteq elections' /\ UNCHANGED <<log, commit_index, match_index, next_index>>
    BY <1>4 DEF ElectionTick, peerVars
  <2>2. \A n \in msgs' : n \in msgs \/ n.type = "VOTE_REQ"
    BY <1>4 DEF ElectionTick, become_candidate
  <2>3. \A n \in msgs' : n \in msgs \/ (RequestsQuote(n)' /\ ResponsesEmpty(n)')
    BY <2>2 DEF RequestsQuote, ResponsesEmpty
  <2> QED
    BY <1>1, <2>1, <2>3, LogsQuiet
<1>5. ASSUME NEW i \in Node, IdleTick(i) PROVE NothingReplicated'
  BY <1>1, <1>5, LogsQuiet DEF IdleTick, peerVars, history
<1>6. ASSUME NEW i \in Node, NEW d \in Data, dist_storage_write(i, d)
      PROVE  NothingReplicated'
  <2>1. PICK e \in {d, Nil} :
           log' = [log EXCEPT ![i] = append_log_entry(@, current_term[i], e)]
    BY <1>6 DEF dist_storage_write
  <2>2. <<i, current_term[i]>> \in elections' /\ elections' = elections
    BY <1>6 DEF dist_storage_write, ElectionInv, LeadersElected, history
  <2>3. UNCHANGED <<commit_index, msgs, match_index, next_index>>
    BY <1>6 DEF dist_storage_write, peerVars
  <2>4. \A p, j \in Node : match_index'[p][j] = 0 /\ next_index'[p][j] <= Len(log[p]) + 1
    BY <2>3, NothingReplicatedParts DEF PeersBehind
  <2>5. \A j \in Node : Forward(j)
    BY <1>1, <1>6, ForwardWrite
  <2> QED
    BY <1>1, <2>1, <2>2, <2>3, <2>4, <2>5, LeaderAppends
<1>7. ASSUME NEW i \in Node, NEW j \in Node, raft_remove_node(i, j)
      PROVE  NothingReplicated'
  BY <1>1, <1>7, LogsQuiet DEF raft_remove_node, logVars, history
<1>8. ASSUME NEW m \in msgs, Lose(m) PROVE NothingReplicated'
  BY <1>1, <1>8, LogsQuiet DEF Lose, logVars, peerVars, history
<1>9. CASE UNCHANGED vars
  BY <1>1, <1>9, LogsQuiet DEF vars, logVars, peerVars, history
<1> QED
  BY <1>2, <1>3, <1>4, <1>5, <1>6, <1>7, <1>8, <1>9 DEF Next, raft_tick

\* What the logs look like in every reachable state: every entry was written by
\* its own node as an elected leader, and no follower ever matches an entry, so
\* no index is ever committed (entries are not sent, handle_append_request).
THEOREM ReplicationInvariant == Spec => []NothingReplicated
<1>1. Init => NothingReplicated
  <2> SUFFICES ASSUME Init PROVE NothingReplicated
    OBVIOUS
  <2>1. Len(<< >>) = 0
    OBVIOUS
  <2> QED
    BY <2>1 DEF Init, NothingReplicated
<1> QED
  BY <1>1, ReplicationNext, ElectionInvariant, PTL DEF Spec

=============================================================================
