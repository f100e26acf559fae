CONSTANTS
    n1 = n1
    n2 = n2
    n3 = n3
    w1 = w1
    w2 = w2
    w3 = w3
    ApiHosts = {n1, n2}
    VM = {w1, w2, w3}
    Nodes <- ThreeNodes
    Local = n1
    Nil = Nil
    Threads <- FourThreads
    MemTotal <- Memory8
    MemUsed <- Memory2
    NetworkScore <- Healthy
    Vcpus <- TwoVcpus
    Memory <- OneUnit
    U32 = 16384
    U64 = 16777216
    MaxDrift = 2
    NodeId = {1, 2, 3, 4, 5}
    LocalId = 2
    CLUSTER_MAX_NODES = 4
    UINT32 = 16
    Id <- Numbered
    NodeNumber <- NodesNumbered
    IdSegments <- Segments
    ListRoom = 1
    Contexts = {{"cluster", "vm_manager"}, {"pool"}}
SPECIFICATION MCSpec
VIEW Distinct
INVARIANTS
    TypeOK
    CountsBalance
    OnlineCountExact
    LeaderAlive
    AnsweredAsAsked
PROPERTIES
    RebalanceSettles
