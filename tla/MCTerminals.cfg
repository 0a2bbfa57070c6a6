SPECIFICATION FairTermSpec
CONSTANTS
    Procs <- MCProcs
    Native <- MCProcs
    IntTasks = {0}
    MM = 4
    TTY = 0
    FS = 3
    Users = {10, 11}
    NR_CONSOLES = 2
    TermOf <- OwnTerm
    Chars = {"x"}
    Keys = {"x", "F2"}
    Console <- FnKeys
    Ops = {"READ", "WRITE"}
    Counts = {1}
    KB_IN_BYTES = 1
    TTY_IN_BYTES = 1
    MaxKeys = 2
    Bodies <- MCBodies
    HARD_INT <- MCInt
    SYSCALL_RET <- MCRet
    EMPTY <- MCEmpty
    ANY = 48
    INTERRUPT <- INTnr
    NO_TASK = 58
CHECK_DEADLOCK FALSE
PROPERTIES
    ReadReturns
    WriteReturns
