CONSTANTS
    mm = mm
    hd = hd
    u1 = u1
    u2 = u2
    req = req
    Procs <- MCProcs
    Native <- MCNative
    IntTasks <- MCIntTasks
    Bodies <- MCBodies
    HARD_INT = HARD_INT
    SYSCALL_RET = SYSCALL_RET
    EMPTY = EMPTY
    MM = mm
    ANY = ANY
    INTERRUPT = INTERRUPT
    NO_TASK = NO_TASK
SYMMETRY Symm
SPECIFICATION Spec
CHECK_DEADLOCK FALSE
INVARIANTS Consistent NoMissedRendezvous NoWaitCycle
PROPERTIES SentMeansDelivered WokenByWhatItAwaits ImplementsRendezvous
