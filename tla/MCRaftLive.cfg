CONSTANTS
    n1 = n1
    n2 = n2
    n3 = n3
    Node = {n1, n2, n3}
    Nil = Nil
    Data = {}
    RAFT_LOG_SIZE = 2
    MaxTerm = 2
    MaxInFlight = 2
    MaxRemovals = 0
SPECIFICATION FairSpec
INVARIANTS
    ElectionInv
PROPERTIES
    SecondVoteIsHarmless
    StaleLeaderStepsDown
