SPECIFICATION FairLifeSpec
CONSTANTS
    Procs <- WithSys
    Native <- MCNative
    IntTasks = {}
    MM = 4
    FS = 3
    SYS = 1
    InitProc = 6
    Bodies <- MCBodies
    HARD_INT <- MCInt
    SYSCALL_RET <- MCRet
    EMPTY <- MCEmpty
    ANY = 48
    INTERRUPT <- INTnr
    NO_TASK = 58
    Calls = {"FORK", "KILL", "ASK_SYS"}
    Shells = 1
CHECK_DEADLOCK FALSE
PROPERTY ServersGoOn
