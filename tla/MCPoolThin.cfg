CONSTANTS
    v1 = v1
    v2 = v2
    dev1 = dev1
    dev2 = dev2
    a = a
    b = b
    Volume = {v1, v2}
    Device = {dev1, dev2}
    Nil = Nil
    Zero = Zero
    Data = {a, b}
    DeviceExtents <- SmallPool
    BLOCKS_PER_EXTENT = 1
    POOL_MAX_DEVICES = 2
    Replications = {0, 1}
    ThinModes = {TRUE, FALSE}
    Straddle = FALSE
    SIZE_MODULUS = 16
    MaxExtents = 2
    MaxLength = 1
    MaxSnapshots = 1
    MaxRemovals = 1
SPECIFICATION FullSpec
INVARIANTS
    ReadYourWrites
