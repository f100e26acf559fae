CONSTANTS
    a = a
    b = b
    Num = 6
    IDX_MODULUS = 6
    Nil = Nil
    Sectors = 2
    SECTOR_WRAP = 8
    Zero = Zero
    Id = Id
    Requests <- SomeRequests
SPECIFICATION Spec
INVARIANTS
    CompletesInOrder
    CompletionCorrect
PROPERTIES
    EveryRequestCompletes
