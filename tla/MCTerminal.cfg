SPECIFICATION FairTermSpec
CONSTANTS
    Procs <- MCProcs1
    Native <- MCProcs1
    IntTasks = {0}
    MM = 4
    TTY = 0
    FS = 3
    Users = {10}
    NR_CONSOLES = 1
    TermOf <- OwnTerm1
    Chars = {"x"}
    Keys = {"x", "n", "Backslash", "Enter", "Shift+Enter", "Backspace"}
    Console <- NoFn
    Ops = {"OPEN", "READ"}
    Counts = {2}
    KB_IN_BYTES = 2
    TTY_IN_BYTES = 2
    MaxKeys = 3
    Bodies <- MCBodies
    HARD_INT <- MCInt
    SYSCALL_RET <- MCRet
    EMPTY <- MCEmpty
    ANY = 48
    INTERRUPT <- INTnr
    NO_TASK = 58
CHECK_DEADLOCK FALSE
INVARIANTS
    TermSound
    KeysNoticed
    ReadTellsTruth
PROPERTIES
    KeysRead
