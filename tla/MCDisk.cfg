SPECIFICATION DiskSpec
CONSTANTS
    Procs <- MCProcs
    Native <- MCProcs
    IntTasks = {2}
    MM = 4
    SYS = 1
    HD = 2
    FS = 3
    Users = {10}
    NR_PART_PER_DRIVE = 2
    NR_SUB_PER_PART = 3
    MAX_PRIM = 5
    MINOR_hd1a = 6
    MINOR_BOOT = 9
    Layouts <- MCLayouts
    NrSects = 9
    FirstData = 6
    MaxCount = 2
    Requests <- MCRequests
    GARBAGE <- Garbage
    Bodies <- MCBodies
    HARD_INT <- MCInt
    SYSCALL_RET <- MCRet
    EMPTY <- MCEmpty
    ANY = 48
    INTERRUPT <- INTnr
    NO_TASK = 58
CHECK_DEADLOCK FALSE
INVARIANTS
    PartitionsFound
    Transferred
    DiskSound
PROPERTIES
    OnlyItsSectors
    RequestsServed
