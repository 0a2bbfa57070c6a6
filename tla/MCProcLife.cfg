SPECIFICATION FairLifeSpec
CONSTANTS
    Procs <- NoSys
    Native <- MCNative
    IntTasks = {}
    MM = 4
    FS = 3
    SYS = 1
    InitProc = 6
    Bodies <- MCBodies
    HARD_INT <- MCInt
    SYSCALL_RET <- MCRet
    EMPTY <- MCEmpty
    ANY = 48
    INTERRUPT <- INTnr
    NO_TASK = 58
    Calls = {"FORK", "EXIT", "WAIT", "KILL"}
    Shells = 1
CHECK_DEADLOCK FALSE
INVARIANTS
    FamilySound
    NeverPanics
PROPERTIES
    WaitTellsTruth
    WaitReturns
    InitGoesOnReaping
