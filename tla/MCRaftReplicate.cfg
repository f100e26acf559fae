CONSTANTS
    n1 = n1
    n2 = n2
    n3 = n3
    Node = {n1, n2, n3}
    Nil = Nil
    Data = {d1}
    RAFT_LOG_SIZE = 3
    MaxTerm = 1
    MaxInFlight = 2
    MaxRemovals = 0
SPECIFICATION FairSpec
PROPERTY
    SubmittedIsReplicated
