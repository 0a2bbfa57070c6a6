CONSTANTS
    mm = mm
    hd = hd
    u1 = u1
    req = req
    Procs <- MCProcs3
    Native <- MCNative
    IntTasks <- MCIntTasks
    Bodies <- MCBodies
    HARD_INT = HARD_INT
    SYSCALL_RET = SYSCALL_RET
    EMPTY = EMPTY
    MM = mm
    ANY = ANY
    INTERRUPT = INTERRUPT
    NO_TASK = NO_TASK
    NULL = NULL
SPECIFICATION Spec
CHECK_DEADLOCK FALSE
INVARIANTS ListsSound AssertionsHold
PROPERTIES ImplementsIpc
