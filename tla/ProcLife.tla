------------------------------ MODULE ProcLife ------------------------------
(***************************************************************************)
(* The life of processes: fork, exit, wait and kill as MM carries them out *)
(* (mm/main.c, mm/forkexit.c), on top of the kernel's IPC (Ipc).           *)
(*                                                                         *)
(* MM, the other servers, INIT and the forked processes are sequential     *)
(* programs that meet only in kernel calls and in proc_table, which MM     *)
(* writes directly.  `at' is where each of them is; a step runs to the     *)
(* next kernel call.  send_recv(BOTH, ...) is a SEND step and a RECEIVE    *)
(* step, between which anything may happen.                                *)
(*                                                                         *)
(* FS and SYS are reduced to what matters here: receive a request, reply.  *)
(* Logging is off, as after boot (log_enable = 0): post_log2 does nothing. *)
(***************************************************************************)
EXTENDS Ipc, Integers, FiniteSets

CONSTANTS
    InitProc,    \* INIT, the native process that adopts orphans
    FS, SYS,     \* the servers; a system without SYS has SYS \notin Procs
    Calls,       \* the system calls that forked processes make
    Shells       \* how many shells INIT forks before it waits for ever

\* The programs of the native processes are different ones; native processes
\* have the low numbers, so that 0, what fork() answers a child, is no slot.
ASSUME ProcLifeAssumption ==
    /\ Procs \subseteq Nat
    /\ {InitProc, FS} \subseteq Native
    /\ SYS \in Procs => SYS \in Native
    /\ MM \notin {InitProc, FS, SYS} /\ FS \notin {InitProc, SYS} /\ SYS # InitProc
    /\ 0 \notin Procs \ Native
    /\ Calls \subseteq {"FORK", "EXIT", "WAIT", "KILL", "ASK_FS", "ASK_SYS"}
    /\ "ASK_SYS" \in Calls => SYS \in Procs
    /\ Shells \in Nat

\* The messages of this module are among those the processes may send.
ASSUME LifeMessagesAssumption ==
    \A t \in Calls \cup {"FORK", "EXIT", "WAIT", "SYSCALL_RET"}, i1 \in {-1, 0, 1},
       pid \in (Procs \ Native) \cup {0, NO_TASK} :
          [type |-> t, i1 |-> i1, pid |-> pid] \in Bodies

VARIABLES
    p_parent, exit_status,   \* fields of proc_table that only MM uses
    at,       \* where each program is
    asked,    \* the system call each process made last
    mm,       \* the local variables of MM
    shells,   \* how many shells INIT has forked
    exited,   \* the status each process gave to exit() (a history variable)
    killed    \* the processes that were killed, zombies included (another)

ends     == <<exited, killed>>
lifeVars == <<p_parent, exit_status, at, asked, mm, shells, ends>>
allVars  == <<vars, lifeVars>>

Slots   == Procs \ Native
Servers == {FS, SYS} \cap Procs
Users   == Slots \cup {InitProc}

\* The three integer members of a MESSAGE that these calls use: STATUS and
\* RETVAL share i1, PID and KILL_PID share pid.
Body(t, i1, pid) == [type |-> t, i1 |-> i1, pid |-> pid]

MMIdle == [src |-> NO_TASK, op |-> "EXIT", pid |-> NO_TASK, status |-> 0,
           victim |-> NO_TASK, out |-> EMPTY]

\* After kernel_main: tasks and INIT run, every slot is free.
LifeInit ==
    /\ p_flags = [p \in Procs |-> IF p \in Native THEN {} ELSE {"FREE_SLOT"}]
    /\ p_msg = [p \in Procs |-> FALSE]
    /\ p_recvfrom = [p \in Procs |-> NO_TASK]
    /\ p_sendto = [p \in Procs |-> NO_TASK]
    /\ has_int_msg = [p \in Procs |-> FALSE]
    /\ q_sending = [p \in Procs |-> <<>>]
    /\ buf = [p \in Procs |-> [source |-> p, body |-> EMPTY]]
    /\ panicked = FALSE
    /\ p_parent = [p \in Procs |-> NO_TASK]
    /\ exit_status = [p \in Procs |-> 0]
    /\ at = [p \in Procs |-> IF p \in Users THEN "run" ELSE "loop"]
    /\ asked = [p \in Users |-> "EXIT"]
    /\ mm = MMIdle
    /\ shells = 0
    /\ exited = [p \in Procs |-> 0]
    /\ killed = {}

-----------------------------------------------------------------------------
Here(p, loc) == at[p] = loc /\ Runnable(p)
GoTo(p, loc) == at' = [at EXCEPT ![p] = loc]

\* send_recv(SEND, ...): a message for a free slot is dropped.
Send(p, dest, b) ==
    \/ msg_send(p, dest, b)
    \/ ~panicked /\ Runnable(p) /\ Free(dest) /\ UNCHANGED vars

\* What an assignment to p_flags alone leaves as it is.
OnlyFlags == UNCHANGED <<p_msg, p_recvfrom, p_sendto, has_int_msg, q_sending,
                         buf, panicked>>

-----------------------------------------------------------------------------
(* User processes                                                          *)

Callee(call) == CASE call = "ASK_FS"  -> FS
                  [] call = "ASK_SYS" -> SYS
                  [] OTHER            -> MM

\* fork() asserts RETVAL == 0: the process spins when the assertion fails.
Spinning(u) == asked[u] = "FORK" /\ buf[u].body.i1 # 0

\* Init() forks its shells and then waits for ever; the programs do anything.
MayCall(u, call) ==
    IF u = InitProc THEN call = (IF shells < Shells THEN "FORK" ELSE "WAIT")
                ELSE call \in Calls

\* Programs exit with 1: not the initial 0 nor the -1 of a killed process.
Status(call) == IF call = "EXIT" THEN 1 ELSE 0

\* A system call: the SEND of send_recv(BOTH, ...).
Call(u, call) ==
    /\ Here(u, "run")
    /\ ~Spinning(u)
    /\ MayCall(u, call)
    /\ \E pid \in IF call = "KILL" THEN Slots ELSE {NO_TASK} :
          msg_send(u, Callee(call), Body(call, Status(call), pid))
    /\ asked' = [asked EXCEPT ![u] = call]
    /\ GoTo(u, "sent")
    /\ shells' = IF u = InitProc /\ call = "FORK" THEN shells + 1 ELSE shells
    /\ UNCHANGED <<p_parent, exit_status, mm, ends>>

\* ... and its RECEIVE.
Await(u) ==
    /\ Here(u, "sent")
    /\ msg_receive(u, Callee(asked[u]))
    /\ GoTo(u, "run")
    /\ UNCHANGED <<p_parent, exit_status, asked, mm, shells, ends>>

-----------------------------------------------------------------------------
(* FS and SYS                                                              *)

Take(s) ==
    /\ Here(s, "loop")
    /\ msg_receive(s, ANY)
    /\ GoTo(s, "serve")
    /\ UNCHANGED <<p_parent, exit_status, asked, mm, shells, ends>>

\* The reply (SYS looks first whether the slot is free; the kernel drops the
\* message if it is, so the outcome is the same).
Reply(s) ==
    /\ Here(s, "serve")
    /\ Send(s, buf[s].source, Body("SYSCALL_RET", 0, NO_TASK))
    /\ GoTo(s, "loop")
    /\ UNCHANGED <<p_parent, exit_status, asked, mm, shells, ends>>

-----------------------------------------------------------------------------
(* MM: the main loop                                                       *)

MMTake ==
    /\ Here(MM, "loop")
    /\ msg_receive(MM, ANY)
    /\ GoTo(MM, "handle")
    /\ UNCHANGED <<p_parent, exit_status, asked, mm, shells, ends>>

\* MM handles a request of the given kind from src.
Handles(call, src) ==
    /\ Here(MM, "handle")
    /\ buf[MM].body.type = call
    /\ src = buf[MM].source

\* SEND b to dest on the way to loc.
MMSend(loc, dest, b, next) ==
    /\ Here(MM, loc)
    /\ Send(MM, dest, b)
    /\ GoTo(MM, next)

\* The answer to the caller ends the handling of a request.
MMReply ==
    /\ MMSend("reply", mm.src, mm.out, "loop")
    /\ mm' = MMIdle
    /\ UNCHANGED <<p_parent, exit_status, asked, shells, ends>>

MMAnswer(src, b) ==
    /\ mm' = [MMIdle EXCEPT !.src = src, !.out = b]
    /\ GoTo(MM, "reply")

-----------------------------------------------------------------------------
(* MM: fork                                                                *)

FreeSlots == {p \in Procs : Free(p)}
First(S)  == CHOOSE p \in S : \A q \in S : p <= q

\* do_fork without a free slot.
ForkFails(src) ==
    /\ Handles("FORK", src)
    /\ FreeSlots = {}
    /\ MMAnswer(src, Body("SYSCALL_RET", -1, NO_TASK))
    /\ UNCHANGED <<vars, p_parent, exit_status, asked, shells, ends>>

\* do_fork up to the message to FS: the slot becomes a copy of the parent's,
\* flags and kernel call included, and the image is copied.
ForkCopies(src) ==
    /\ Handles("FORK", src)
    /\ FreeSlots # {}
    /\ LET child   == First(FreeSlots)
           Copy(f) == [f EXCEPT ![child] = f[src]]
       IN  /\ p_flags' = Copy(p_flags)
           /\ p_msg' = Copy(p_msg)
           /\ p_recvfrom' = Copy(p_recvfrom)
           /\ p_sendto' = Copy(p_sendto)
           /\ has_int_msg' = Copy(has_int_msg)
           /\ q_sending' = Copy(q_sending)
           /\ buf' = [buf EXCEPT ![child] = [buf[src] EXCEPT !.source = child]]
           /\ exit_status' = Copy(exit_status)
           /\ asked' = Copy(asked)
           /\ p_parent' = [p_parent EXCEPT ![child] = src]
           /\ at' = [at EXCEPT ![child] = at[src], ![MM] = "fork"]
           /\ mm' = [MMIdle EXCEPT !.src = src, !.pid = child]
    /\ exited' = [exited EXCEPT ![First(FreeSlots)] = 0]
    /\ killed' = killed \ {First(FreeSlots)}
    /\ UNCHANGED <<panicked, shells>>

\* The SEND and RECEIVE of FORK to FS.
ForkTellsFS ==
    /\ MMSend("fork", FS, Body("FORK", 0, mm.pid), "fork_fs")
    /\ UNCHANGED <<p_parent, exit_status, asked, mm, shells, ends>>

ForkHearsFS ==
    /\ Here(MM, "fork_fs")
    /\ msg_receive(MM, FS)
    /\ GoTo(MM, "birth")
    /\ UNCHANGED <<p_parent, exit_status, asked, mm, shells, ends>>

\* The birth of the child, whose answer carries PID 0.
ForkBirth ==
    /\ MMSend("birth", mm.pid, Body("SYSCALL_RET", 0, 0), "reply")
    /\ mm' = [mm EXCEPT !.out = Body("SYSCALL_RET", 0, mm.pid)]
    /\ UNCHANGED <<p_parent, exit_status, asked, shells, ends>>

-----------------------------------------------------------------------------
(* MM: exit and kill                                                       *)

\* The process pid will not take another step: its program is gone.
Dies(src, op, pid, status) ==
    /\ abort_ipc(pid)
    /\ mm' = [MMIdle EXCEPT !.src = src, !.op = op, !.pid = pid,
                            !.status = status,
                            !.out = Body("SYSCALL_RET", 0, NO_TASK)]
    /\ at' = [at EXCEPT ![MM] = "exit", ![pid] = "gone"]
    /\ asked' = [asked EXCEPT ![pid] = "EXIT"]
    /\ UNCHANGED <<p_parent, exit_status, shells>>

Exit(src) ==
    /\ Handles("EXIT", src)
    /\ Dies(src, "EXIT", src, buf[MM].body.i1)
    /\ exited' = [exited EXCEPT ![src] = buf[MM].body.i1]
    /\ UNCHANGED killed

\* do_kill protects the native processes and the caller.
Killable(pid, caller) == pid \in Slots /\ pid # caller /\ ~Free(pid)

Kill(src) ==
    /\ Handles("KILL", src)
    /\ LET pid == buf[MM].body.pid
       IN  IF Killable(pid, src)
           THEN /\ Dies(src, "KILL", pid, -1)
                /\ killed' = killed \cup {pid}
                /\ UNCHANGED exited
           ELSE /\ MMAnswer(src, Body("SYSCALL_RET", -1, NO_TASK))
                /\ UNCHANGED <<vars, p_parent, exit_status, asked, shells, ends>>

\* The SEND and RECEIVE of EXIT to FS.
ExitTellsFS ==
    /\ MMSend("exit", FS, Body("EXIT", 0, mm.pid), "exit_fs")
    /\ UNCHANGED <<p_parent, exit_status, asked, mm, shells, ends>>

ExitHearsFS ==
    /\ Here(MM, "exit_fs")
    /\ msg_receive(MM, FS)
    /\ GoTo(MM, "reap")
    /\ UNCHANGED <<p_parent, exit_status, asked, mm, shells, ends>>

Waiting(p) == "WAITING" \in p_flags[p]
Hanging(p) == "HANGING" \in p_flags[p]

\* Mutant: the process becomes a zombie even when its parent waits.
ExitReaps_Hangs ==
    /\ Here(MM, "reap")
    /\ exit_status' = [exit_status EXCEPT ![mm.pid] = mm.status]
    /\ p_flags' = [p_flags EXCEPT ![mm.pid] = @ \cup {"HANGING"}]
    /\ GoTo(MM, "adopt")
    /\ OnlyFlags
    /\ UNCHANGED <<p_parent, asked, mm, shells, ends>>

\* do_process_exit after FS: hand the process to a parent that waits for it,
\* or leave it behind as a zombie.
ExitReaps ==
    /\ Here(MM, "reap")
    /\ exit_status' = [exit_status EXCEPT ![mm.pid] = mm.status]
    /\ LET parent == p_parent[mm.pid]
       IN  IF Waiting(parent)
           THEN /\ p_flags' = [p_flags EXCEPT ![parent] = @ \ {"WAITING"}]
                /\ mm' = [mm EXCEPT !.victim = mm.pid]
                /\ GoTo(MM, "cleanup")
           ELSE /\ p_flags' = [p_flags EXCEPT ![mm.pid] = @ \cup {"HANGING"}]
                /\ GoTo(MM, "adopt")
                /\ UNCHANGED mm
    /\ OnlyFlags
    /\ UNCHANGED <<p_parent, asked, shells, ends>>

\* Where the handling of an EXIT or a KILL continues after its last reaping.
Finish == IF mm.op = "KILL" THEN "reply" ELSE "loop"

\* Mutant: whose child it is is not looked at.
Children_Anybody(p) == {i \in Procs : p_parent[i] \in Users}

Children(p) == {i \in Procs : p_parent[i] = p}

\* Mutant: the children keep their dead parent.
ExitAdopts_Nobody ==
    /\ Here(MM, "adopt")
    /\ GoTo(MM, Finish)
    /\ mm' = IF mm.op = "KILL" THEN mm ELSE MMIdle
    /\ UNCHANGED <<vars, p_parent, exit_status, asked, shells, ends>>

\* The children go to INIT, and the first zombie among them is reaped if INIT
\* waits (INIT then waits no longer, so there is no second one).
ExitAdopts ==
    LET zombies == {i \in Children(mm.pid) : Hanging(i)}
    IN
    /\ Here(MM, "adopt")
    /\ p_parent' = [i \in Procs |-> IF p_parent[i] = mm.pid THEN InitProc
                                                            ELSE p_parent[i]]
    /\ IF Waiting(InitProc) /\ zombies # {}
       THEN /\ p_flags' = [p_flags EXCEPT ![InitProc] = @ \ {"WAITING"}]
            /\ mm' = [mm EXCEPT !.victim = First(zombies), !.pid = NO_TASK]
            /\ GoTo(MM, "cleanup")
       ELSE /\ GoTo(MM, Finish)
            /\ mm' = IF mm.op = "KILL" THEN mm ELSE MMIdle
            /\ UNCHANGED p_flags
    /\ OnlyFlags
    /\ UNCHANGED <<exit_status, asked, shells, ends>>

\* Mutant: the answer to the parent lacks the status.
CleanupTells_NoStatus ==
    /\ MMSend("cleanup", p_parent[mm.victim], Body("SYSCALL_RET", 0, mm.victim),
              "release")
    /\ UNCHANGED <<p_parent, exit_status, asked, mm, shells, ends>>

\* cleanup: the answer to the parent, then the release of the slot.
CleanupTells ==
    /\ MMSend("cleanup", p_parent[mm.victim],
              Body("SYSCALL_RET", exit_status[mm.victim], mm.victim), "release")
    /\ UNCHANGED <<p_parent, exit_status, asked, mm, shells, ends>>

CleanupReleases ==
    /\ Here(MM, "release")
    /\ p_flags' = [p_flags EXCEPT ![mm.victim] = {"FREE_SLOT"}]
    /\ IF mm.victim = mm.pid
       THEN GoTo(MM, "adopt") /\ UNCHANGED mm
       ELSE /\ GoTo(MM, Finish)
            /\ mm' = IF mm.op = "KILL" THEN mm ELSE MMIdle
    /\ OnlyFlags
    /\ UNCHANGED <<p_parent, exit_status, asked, shells, ends>>

-----------------------------------------------------------------------------
(* MM: wait                                                                *)

\* Mutant: zombies are not looked for first.
Wait_NoZombies(src) ==
    /\ Handles("WAIT", src)
    /\ \/ /\ Children(src) # {}
          /\ p_flags' = [p_flags EXCEPT ![src] = @ \cup {"WAITING"}]
          /\ GoTo(MM, "loop")
          /\ OnlyFlags
          /\ UNCHANGED mm
       \/ /\ Children(src) = {}
          /\ MMAnswer(src, Body("SYSCALL_RET", 0, NO_TASK))
          /\ UNCHANGED vars
    /\ UNCHANGED <<p_parent, exit_status, asked, shells, ends>>

\* do_wait: reap a zombie child, or wait for one, or fail for want of any.
Wait(src) ==
    LET zombies == {i \in Children(src) : Hanging(i)}
    IN
    /\ Handles("WAIT", src)
    /\ \/ /\ zombies # {}
          /\ mm' = [MMIdle EXCEPT !.victim = First(zombies)]
          /\ GoTo(MM, "cleanup")
          /\ UNCHANGED vars
       \/ /\ zombies = {} /\ Children(src) # {}
          /\ p_flags' = [p_flags EXCEPT ![src] = @ \cup {"WAITING"}]
          /\ GoTo(MM, "loop")
          /\ OnlyFlags
          /\ UNCHANGED mm
       \/ /\ Children(src) = {}
          /\ MMAnswer(src, Body("SYSCALL_RET", 0, NO_TASK))
          /\ UNCHANGED vars
    /\ UNCHANGED <<p_parent, exit_status, asked, shells, ends>>

-----------------------------------------------------------------------------
MMStep ==
    \/ MMTake \/ MMReply
    \/ \E src \in Users : ForkFails(src) \/ ForkCopies(src) \/ Exit(src)
                          \/ Kill(src) \/ Wait(src)
    \/ ForkTellsFS \/ ForkHearsFS \/ ForkBirth
    \/ ExitTellsFS \/ ExitHearsFS \/ ExitReaps \/ ExitAdopts
    \/ CleanupTells \/ CleanupReleases

LifeNext ==
    \/ \E u \in Users, call \in Calls \cup {"FORK", "WAIT"} : Call(u, call)
    \/ \E u \in Users : Await(u)
    \/ \E s \in Servers : Take(s) \/ Reply(s)
    \/ MMStep

LifeSpec == LifeInit /\ [][LifeNext]_allVars

\* schedule() gives every runnable process its turn, so a program goes on as
\* long as it can: the servers, INIT, and a program inside a system call.  A
\* program need not make another call.
Fairness ==
    /\ WF_allVars(MMStep)
    /\ \A s \in Servers : WF_allVars(Take(s) \/ Reply(s))
    /\ \A u \in Users : WF_allVars(Await(u))
    /\ WF_allVars(\E call \in {"FORK", "WAIT"} : Call(InitProc, call))

FairLifeSpec == LifeSpec /\ Fairness
-----------------------------------------------------------------------------
\* MM is between two requests: what it tells others about the process table
\* must be true here.
Quiet == at[MM] \in {"loop", "handle"}

\* Where MM, a server and a process can be.
MMLocs     == {"loop", "handle", "reply", "fork", "fork_fs", "birth", "exit",
               "exit_fs", "reap", "adopt", "cleanup", "release"}
ServerLocs == {"loop", "serve"}
UserLocs   == {"run", "sent", "gone"}
Locs       == MMLocs \cup ServerLocs \cup UserLocs

\* The variables have their types, and a process is blocked in at most one
\* kernel call, with WAITING or HANGING added by MM only to a process that is
\* between its SEND and its answer.
LifeTypeOK ==
    /\ TypeOK
    /\ p_parent \in [Procs -> Procs \cup {NO_TASK}]
    /\ exit_status \in [Procs -> {-1, 0, 1}]
    /\ at \in [Procs -> Locs]
    /\ asked \in [Users -> Calls \cup {"FORK", "WAIT", "EXIT"}]
    /\ shells \in 0..Shells
    /\ exited \in [Procs -> {-1, 0, 1}]
    /\ killed \subseteq Slots
    /\ \A p \in Procs :
          /\ Cardinality(p_flags[p] \cap {"SENDING", "RECEIVING"}) <= 1
          /\ Hanging(p) => Dead(p)
          /\ Waiting(p) => p \in Users /\ asked[p] = "WAIT" /\ ~Sending(p)

\* No order of system calls makes two servers and a program send to each other
\* in a circle, so msg_send never panics.
NeverPanics == ~panicked

\* An exited child and a parent that waits for it find each other: when MM is
\* done with a request no zombie is left whose parent is waiting (do_wait looks
\* for HANGING children, do_process_exit for a WAITING parent).
NoZombieAwaited ==
    Quiet => \A p \in Procs : Hanging(p) => ~Waiting(p_parent[p])

\* Every process and every zombie has a living parent that can still wait for
\* it: do_process_exit gives the children of the dead to INIT.
ParentsAlive ==
    Quiet => \A p \in Slots : ~Free(p) =>
                /\ p_parent[p] \in Users
                /\ ~Free(p_parent[p]) /\ ~Dead(p_parent[p])

\* fork() has returned the process number c to u.
Forked(u, c) == /\ Here(u, "run") /\ asked[u] = "FORK"
                /\ buf[u].body = Body("SYSCALL_RET", 0, c)

\* The child whose number fork() returned exists, is the caller's, and stays
\* in the table until the caller waits for it.
ForkedChildExists ==
    \A u \in Users, c \in Slots : Forked(u, c) => ~Free(c) /\ p_parent[c] = u

FamilySound == LifeTypeOK /\ NoZombieAwaited /\ ParentsAlive /\ ForkedChildExists

\* How the process c ended: -1 if it was killed.
EndOf(c) == IF c \in killed THEN -1 ELSE exited[c]

TellsTruth(u, c) ==
    asked[u] = "WAIT" /\ buf'[u] # buf[u] /\ buf'[u].source = MM
            /\ buf'[u].body.pid = c
        => Dead(c) /\ p_parent[c] = u /\ buf'[u].body.i1 = EndOf(c)

\* wait() returns a dead child of the caller, with the status that this child
\* itself gave to exit(), however long ago and whoever was its parent then, or -1
\* if it was killed.  (A child that was killed when it had exited already counts
\* as killed: the status it had given is lost, contrary to lib/wait.c.)
WaitTellsTruth == [][\A u \in Users, c \in Slots : TellsTruth(u, c)]_allVars

\* When a child of a waiting process dies, the wait() of that process returns.
WaitReturns ==
    \A u \in Users, c \in Slots :
        Dead(c) /\ p_parent[c] = u /\ Waiting(u) ~> Here(u, "run") \/ Dead(u)

\* As long as INIT has a zombie, adopted ones included, it goes on reaping.  (It
\* need not come to every zombie: do_wait takes the lowest slot first, and
\* programs that fork and exit for ever can keep the lower slots filled.)
Zombies(p)    == {c \in Children(p) : Hanging(c)}
InitGoesOnReaping ==
    []<>(\/ Zombies(InitProc) = {}
         \/ at[MM] = "release" /\ p_parent[mm.victim] = InitProc)

\* No server stays blocked for ever in a message it sends.
ServersGoOn == \A s \in Servers \cup {MM} : []<>~Sending(s)
=============================================================================
