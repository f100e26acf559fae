CONSTANTS
    PageCount = 17
    PMM_MAX_ORDER = 3
    Reserved = {0, 1, 2, 3, 4, 5}
    NormalStart = 8
    HighStart = 16
SPECIFICATION Spec
INVARIANTS
    AllocFindsFreeRun
