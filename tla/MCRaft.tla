------------------------------- MODULE MCRaft -------------------------------
(* Three nodes, any of which may be leader: symmetric model values. *)
EXTENDS Raft, TLC

CONSTANTS n1, n2, n3

NodeSymmetry == Permutations({n1, n2, n3})
\* The histories of votes take no part in what happens next, nor in the
\* properties of the run that uses this view.
NoHistory == <<raftVars, logVars, peerVars, msgs, elections>>

=============================================================================
