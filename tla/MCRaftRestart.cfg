CONSTANTS
    n1 = n1
    n2 = n2
    n3 = n3
    Node = {n1, n2, n3}
    Nil = Nil
    Data = {}
    RAFT_LOG_SIZE = 3
    MaxTerm = 1
    MaxInFlight = 4
    MaxRemovals = 0
SYMMETRY NodeSymmetry
SPECIFICATION CrashSpec
INVARIANTS
    ElectionSafety
