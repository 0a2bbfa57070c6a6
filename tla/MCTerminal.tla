----------------------------- MODULE MCTerminal -----------------------------
(* Two programs on two terminals, with tiny buffers and few keys.           *)
EXTENDS Terminal

MCBodies == [type : {"OPEN", "READ", "WRITE", "DEV_OPEN", "DEV_READ", "DEV_WRITE",
                     "SUSPEND_PROC", "RESUME_PROC", "SYSCALL_RET"},
             dev : Terminals, nr : Users \cup {NO_TASK}, cnt : 0..MaxCount]
MCInt    == Body("HARD_INT", 0, NO_TASK, 0)
MCRet    == Body("SYSCALL_RET", 0, NO_TASK, 0)
MCEmpty  == Body("EMPTY", 0, NO_TASK, 0)

\* TASK_TTY 0, TASK_FS 3, TASK_MM 4, forked processes from 10 on.
MCProcs1 == {0, 3, 4, 10}
MCProcs  == {0, 3, 4, 10, 11}
OwnTerm1 == (10 :> 0)
OwnTerm  == (10 :> 0) @@ (11 :> 1)
NoFn     == <<>>
FnKeys   == ("F1" :> 0) @@ ("F2" :> 1)
INTnr    == -10
=============================================================================
