CONSTANTS
    a = a
    b = b
    h = h
    Nil = Nil
    Num = 2
    IDX_MODULUS = 4
    HDR = 1
    NET_PACKET_MAX_SIZE = 2
    CONSOLE_BUFFER_SIZE = 2
    Frames <- SomeFrames
    RxSizes <- SomeSizes
    TxChains <- SomeChains
    MaxBacklog = 2
    ALL = 255
    PciDevices = {0, 1}
    VirtioDevices = {1}
    BarNumbers = {0, 1}
    BarKinds <- SomeBars
    Values = {53, 255}
    cpu_count = 3
    Pages = {1, 2, 3, 4, 5, 6, 7, 8, 9, 10}
    Vcpu = {1, 2}
    Capabilities <- Processors
    HALF = 4
    BYTE = 2
    Inputs = {1, 5}
    GuestCrs = {"CR0", "CR3"}
    GuestMsrs = {"EFER", "APIC_BASE", "UNKNOWN"}
    ENTRIES = 2
    TablePages = {1, 2, 3, 4, 5}
    EptPages = {1, 2, 3, 4, 5}
    Guest <- SomePages
    HostBases = {4, 5}
    RunLengths = {2, 3}
    Perms <- SomePerms
SPECIFICATION MCSpec
VIEW Running
INVARIANTS
    FramesInOrder
    InputInOrder
    HostDataDoesNotWait
    InterruptNotLost
    BarFollowsGuest
    OnlineIsBacked
    LockSafe
    InterruptsRestored
    ControlsAccepted
    VcpuPagesAccounted
    GuestSeesItsProgram
    TablesSound
PROPERTY
    ImplementsGuestMap
