----------------------------- MODULE MCProcLife -----------------------------
(* Process life with the process numbers of the code and few slots.         *)
EXTENDS ProcLife

MCBodies == [type : {"SYSCALL_RET"} \cup Calls \cup {"FORK", "EXIT", "WAIT"},
             i1   : {-1, 0, 1},
             pid  : Slots \cup {0, NO_TASK}]
MCRet    == Body("SYSCALL_RET", -1, NO_TASK)   \* retval of abort_ipc is -1
MCInt    == Body("HARD_INT", 0, NO_TASK)
MCEmpty  == Body("EMPTY", 0, NO_TASK)

\* TASK_SYS 1, TASK_FS 3, TASK_MM 4, INIT 6, forked processes from 10 on.
NoSys    == {3, 4, 6, 10, 11}
WithSys  == {1, 3, 4, 6, 10, 11}
MCNative == Procs \cap 0..9

INTnr == -10
=============================================================================
