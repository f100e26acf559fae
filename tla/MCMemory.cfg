CONSTANTS
    PageCount = 17
    PMM_MAX_ORDER = 3
    Reserved = {0, 1, 2, 3, 4, 5, 6}
    NormalStart = 8
    HighStart = 16
    HEADER_SIZE = 2
    HeapStart = 7
    InitialSize = 8
    ExpandSize = 6
    Expansions = {1, 15}
    Top = 24
    RequestSizes = {1, 2, 6}
    U64 = 4096
    Nil = Nil
SPECIFICATION MCSpec
VIEW Live
INVARIANTS
    BuddyInv
    NoFreeBuddies
    HeapInv
    RoomAsAsked
    NoFreeNeighbours
    TablesAccounted
    TlbCoherent
