------------------------------- MODULE MCDisk --------------------------------
(* A disk of a few sectors with a primary and an extended partition.         *)
EXTENDS Disk

Entry(id, s) == [sys_id |-> id, start_sect |-> s]
None         == Entry("NO_PART", 0)

\* FS's partition is the first logical one of part 2, from sector 6 on.
Chain == (0 :> <<Entry("DOS", 9), Entry("EXT_PART", 1)>>)
         @@ (1 :> <<Entry("ORANGES", 5), Entry("EXT_PART", 1)>>)
         @@ (2 :> <<Entry("DOS", 6), Entry("EXT_PART", 2)>>)
         @@ (3 :> <<Entry("DOS", 6), Entry("EXT_PART", 3)>>)
         @@ (4 :> <<Entry("DOS", 6), None>>)
Short == (0 :> <<None, Entry("EXT_PART", 1)>>)
         @@ (1 :> <<Entry("ORANGES", 5), None>>)
Empty == (0 :> <<None, None>>)

MCBodies == [type : {"DEV_OPEN", "DEV_IOCTL", "DEV_READ", "DEV_WRITE",
                     "GET_TICKS", "GET_PID"},
             req : Requests \cup {[NoReq EXCEPT !.op = o] :
                                     o \in {"none", "DEV_OPEN", "DEV_IOCTL"}}]

\* Requests of fewer sectors than the count register counts, of as many, and of
\* more: of these the command has one sector.
MCRequests == {[op |-> o, pos |-> 3 - n, cnt |-> n] :
                  o \in {"DEV_READ", "DEV_WRITE"}, n \in 1..3}
MCLayouts  == {Chain, Short, Empty}
MCInt      == Body("HARD_INT", NoReq)
MCRet      == Body("SYSCALL_RET", NoReq)
MCEmpty    == Body("EMPTY", NoReq)

\* TASK_SYS 1, TASK_HD 2, TASK_FS 3, TASK_MM 4, a program 10.
MCProcs    == {1, 2, 3, 4, 10}
INTnr      == -10
Garbage    == -1
=============================================================================
