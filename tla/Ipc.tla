-------------------------------- MODULE Ipc --------------------------------
(***************************************************************************)
(* The message passing of the kernel (kernel/proc.c), the interrupt        *)
(* notification inform_int, and the abort_ipc that MM applies to a dying   *)
(* process (mm/forkexit.c).                                                *)
(*                                                                         *)
(* One step is one complete kernel call, one complete inform_int or one    *)
(* complete abort_ipc (which disables interrupts).  The machine has one    *)
(* processor and a kernel call is never preempted by another process;      *)
(* IpcSteps opens the call up and lets interrupts in.                      *)
(*                                                                         *)
(* Any runnable process may make any call the kernel's assertions allow:   *)
(* what is true here is true whatever the servers and the programs do.     *)
(***************************************************************************)
EXTENDS Naturals, SequencesExt

CONSTANTS
    Procs,      \* indices of proc_table: tasks, native and forked processes
    Native,     \* the ones that exist from boot on; the others are slots
    IntTasks,   \* tasks notified by an interrupt handler (TTY, HD)
    MM,         \* the memory manager, the only caller of abort_ipc
    Bodies,     \* what the programs put into a MESSAGE
    HARD_INT, SYSCALL_RET, EMPTY,   \* and what the kernel and MM put there
    ANY, INTERRUPT, NO_TASK   \* the pseudo process numbers of const.h

ASSUME IpcAssumption ==
    /\ Native \subseteq Procs
    /\ IntTasks \subseteq Native
    /\ MM \in Native
    /\ {ANY, INTERRUPT, NO_TASK} \cap Procs = {}
    /\ ANY # INTERRUPT /\ ANY # NO_TASK /\ INTERRUPT # NO_TASK

VARIABLES
    p_flags,      \* the bits set in proc.p_flags
    p_msg,        \* whether proc.p_msg points to a message
    p_recvfrom, p_sendto,
    has_int_msg,
    q_sending,    \* the list from proc.q_sending through next_sending
    buf,          \* the MESSAGE of the call each process made last
    panicked      \* panic() halts the machine

vars == <<p_flags, p_msg, p_recvfrom, p_sendto, has_int_msg, q_sending, buf,
          panicked>>

-----------------------------------------------------------------------------
Flags    == {"SENDING", "RECEIVING", "WAITING", "HANGING", "FREE_SLOT"}
Sources  == Procs \cup {ANY, INTERRUPT}
Message  == [source : Procs \cup {INTERRUPT},
             body   : Bodies \cup {HARD_INT, SYSCALL_RET, EMPTY}]
IntMsg   == [source |-> INTERRUPT, body |-> HARD_INT]

Runnable(p)  == p_flags[p] = {}
Free(p)      == p_flags[p] = {"FREE_SLOT"}
Sending(p)   == "SENDING" \in p_flags[p]
Receiving(p) == "RECEIVING" \in p_flags[p]

\* d is blocked in a receive that a message of s would end.
Accepts(d, s) == Receiving(d) /\ p_recvfrom[d] \in {s, ANY}

\* d is blocked in a receive that an interrupt would end.
AcceptsInt(d) == Receiving(d) /\ p_recvfrom[d] \in {INTERRUPT, ANY}

\* Mutant: only the receiver itself is looked at, not the chain behind it.
deadlock_OneStep(src, dest) == Sending(dest) /\ p_sendto[dest] = src

\* The chain of blocked senders that starts at dest reaches src: src is in
\* every set that holds dest and is closed under "is blocked sending to".
deadlock(src, dest) ==
    \A S \in SUBSET Procs :
        (dest \in S /\ \A p \in S : Sending(p) => p_sendto[p] \in S) => src \in S

\* Mutant: the head of the queue is unlinked, whoever it is.
Without_Head(q, p) == Tail(q)

\* The sending queue q after p has been unlinked from it.
Without(q, p) == RemoveAt(q, CHOOSE i \in 1..Len(q) : q[i] = p)

\* A snapshot of the running system: the slots in `used' hold processes.
Init ==
    /\ \E used \in SUBSET (Procs \ Native) :
          p_flags = [p \in Procs |-> IF p \in Native \cup used
                                     THEN {} ELSE {"FREE_SLOT"}]
    /\ p_msg = [p \in Procs |-> FALSE]
    /\ p_recvfrom = [p \in Procs |-> NO_TASK]
    /\ p_sendto = [p \in Procs |-> NO_TASK]
    /\ has_int_msg = [p \in Procs |-> FALSE]
    /\ q_sending = [p \in Procs |-> <<>>]
    /\ buf = [p \in Procs |-> [source |-> p, body |-> EMPTY]]
    /\ panicked = FALSE

-----------------------------------------------------------------------------
\* What sys_sendrec lets through: the caller runs, the other party is not the
\* caller itself and not a free slot (else the call returns -1 and changes
\* nothing).
sys_sendrec(p, q) ==
    /\ ~panicked
    /\ Runnable(p)
    /\ q # p
    /\ q \in Procs => ~Free(q)

\* msg_send when the receiver is already waiting: the message is copied and
\* the receiver runs on.
SendDelivers(p, dest, b) ==
    /\ sys_sendrec(p, dest)
    /\ ~deadlock(p, dest)
    /\ Accepts(dest, p)
    /\ buf' = [buf EXCEPT ![p] = [source |-> p, body |-> b],
                          ![dest] = [source |-> p, body |-> b]]
    /\ p_msg' = [p_msg EXCEPT ![dest] = FALSE]
    /\ p_flags' = [p_flags EXCEPT ![dest] = @ \ {"RECEIVING"}]
    /\ p_recvfrom' = [p_recvfrom EXCEPT ![dest] = NO_TASK]
    /\ UNCHANGED <<p_sendto, has_int_msg, q_sending, panicked>>

\* msg_send otherwise: the sender blocks at the end of the receiver's queue.
SendBlocks(p, dest, b) ==
    /\ sys_sendrec(p, dest)
    /\ ~deadlock(p, dest)
    /\ ~Accepts(dest, p)
    /\ buf' = [buf EXCEPT ![p] = [source |-> p, body |-> b]]
    /\ p_flags' = [p_flags EXCEPT ![p] = @ \cup {"SENDING"}]
    /\ p_sendto' = [p_sendto EXCEPT ![p] = dest]
    /\ p_msg' = [p_msg EXCEPT ![p] = TRUE]
    /\ q_sending' = [q_sending EXCEPT ![dest] = Append(@, p)]
    /\ UNCHANGED <<p_recvfrom, has_int_msg, panicked>>

\* msg_send when the message graph would get a cycle.
SendPanics(p, dest) ==
    /\ sys_sendrec(p, dest)
    /\ deadlock(p, dest)
    /\ panicked' = TRUE
    /\ UNCHANGED <<p_flags, p_msg, p_recvfrom, p_sendto, has_int_msg,
                   q_sending, buf>>

msg_send(p, dest, b) ==
    \/ SendDelivers(p, dest, b)
    \/ SendBlocks(p, dest, b)
    \/ SendPanics(p, dest)

-----------------------------------------------------------------------------
\* An interrupt was latched while p was not ready for it.
IntReady(p, src) == has_int_msg[p] /\ src \in {ANY, INTERRUPT}

\* Mutant: only the head of the queue is looked at.
Offers_Head(p, src, from) ==
    q_sending[p] # <<>> /\ from = Head(q_sending[p]) /\ src \in {from, ANY}

\* The blocked sender whose message msg_receive(p, src) would take.
Offers(p, src, from) ==
    IF src = ANY THEN q_sending[p] # <<>> /\ from = Head(q_sending[p])
                 ELSE from = src /\ Sending(from) /\ p_sendto[from] = p

\* msg_receive of a latched interrupt.
ReceiveInt(p, src) ==
    /\ sys_sendrec(p, src)
    /\ IntReady(p, src)
    /\ buf' = [buf EXCEPT ![p] = IntMsg]
    /\ has_int_msg' = [has_int_msg EXCEPT ![p] = FALSE]
    /\ UNCHANGED <<p_flags, p_msg, p_recvfrom, p_sendto, q_sending, panicked>>

\* msg_receive when `from' is blocked sending to p: unlink it, copy its
\* message, unblock it.
ReceiveFrom(p, src, from) ==
    /\ sys_sendrec(p, src)
    /\ ~IntReady(p, src)
    /\ Offers(p, src, from)
    /\ q_sending' = [q_sending EXCEPT ![p] = Without(@, from)]
    /\ buf' = [buf EXCEPT ![p] = buf[from]]
    /\ p_msg' = [p_msg EXCEPT ![from] = FALSE]
    /\ p_sendto' = [p_sendto EXCEPT ![from] = NO_TASK]
    /\ p_flags' = [p_flags EXCEPT ![from] = @ \ {"SENDING"}]
    /\ UNCHANGED <<p_recvfrom, has_int_msg, panicked>>

\* msg_receive when nobody is sending: the receiver blocks.
ReceiveBlocks(p, src) ==
    /\ sys_sendrec(p, src)
    /\ ~IntReady(p, src)
    /\ \A from \in Procs : ~Offers(p, src, from)
    /\ p_flags' = [p_flags EXCEPT ![p] = @ \cup {"RECEIVING"}]
    /\ p_msg' = [p_msg EXCEPT ![p] = TRUE]
    /\ p_recvfrom' = [p_recvfrom EXCEPT ![p] = src]
    /\ buf' = [buf EXCEPT ![p] = [source |-> p, body |-> EMPTY]]
    /\ UNCHANGED <<p_sendto, has_int_msg, q_sending, panicked>>

msg_receive(p, src) ==
    \/ ReceiveInt(p, src)
    \/ \E from \in Procs : ReceiveFrom(p, src, from)
    \/ ReceiveBlocks(p, src)

-----------------------------------------------------------------------------
\* inform_int: end the wait of a task that is waiting for an interrupt.
InformWakes(t) ==
    /\ ~panicked
    /\ AcceptsInt(t)
    /\ buf' = [buf EXCEPT ![t] = IntMsg]
    /\ p_msg' = [p_msg EXCEPT ![t] = FALSE]
    /\ has_int_msg' = [has_int_msg EXCEPT ![t] = FALSE]
    /\ p_flags' = [p_flags EXCEPT ![t] = @ \ {"RECEIVING"}]
    /\ p_recvfrom' = [p_recvfrom EXCEPT ![t] = NO_TASK]
    /\ UNCHANGED <<p_sendto, q_sending, panicked>>

\* inform_int: remember the interrupt for a task that is not waiting for it.
InformLatches(t) ==
    /\ ~panicked
    /\ ~AcceptsInt(t)
    /\ has_int_msg' = [has_int_msg EXCEPT ![t] = TRUE]
    /\ UNCHANGED <<p_flags, p_msg, p_recvfrom, p_sendto, q_sending, buf,
                   panicked>>

inform_int(t) == InformWakes(t) \/ InformLatches(t)

-----------------------------------------------------------------------------
\* Mutants: the release of senders and receivers does not ask whom they wait
\* for.
AbortedSenders_All(target)   == {p \in Procs \ {target} : Sending(p)}
AbortedReceivers_All(target) == {p \in Procs \ {target} : Receiving(p)}

\* The processes whose send to the target is thrown away.
AbortedSenders(target) ==
    ToSet(q_sending[target])
        \cup {p \in Procs \ {target} : Sending(p) /\ p_sendto[p] = target}

\* The processes whose receive from the target is answered with an error.
AbortedReceivers(target) ==
    {p \in Procs \ {target} : Receiving(p) /\ p_recvfrom[p] = target}

\* abort_ipc: empty the target's queue, withdraw its own message, park it in
\* a receive nobody can end, and release whoever waits for it.
abort_ipc(target) ==
    LET senders   == AbortedSenders(target)
        receivers == AbortedReceivers(target)
        released  == senders \cup receivers
    IN
    /\ ~panicked
    /\ Runnable(MM)
    /\ ~Free(target)
    /\ q_sending' =
          [d \in Procs |->
              IF d = target THEN <<>>
              ELSE IF Sending(target) /\ p_sendto[target] = d
                   THEN Without(q_sending[d], target)
                   ELSE q_sending[d]]
    /\ p_flags' =
          [p \in Procs |->
              IF p = target THEN {"RECEIVING"}
              ELSE p_flags[p] \ ((IF p \in senders THEN {"SENDING"} ELSE {})
                          \cup (IF p \in receivers THEN {"RECEIVING"} ELSE {}))]
    /\ p_sendto' =
          [p \in Procs |-> IF p \in senders \cup {target} THEN NO_TASK
                                                          ELSE p_sendto[p]]
    /\ p_recvfrom' =
          [p \in Procs |-> IF p \in receivers \cup {target} THEN NO_TASK
                                                            ELSE p_recvfrom[p]]
    /\ p_msg' =
          [p \in Procs |-> IF p \in released \cup {target} THEN FALSE
                                                           ELSE p_msg[p]]
    /\ buf' =
          [p \in Procs |-> IF p \in receivers
                           THEN [buf[p] EXCEPT !.body = SYSCALL_RET]
                           ELSE buf[p]]
    /\ has_int_msg' = [has_int_msg EXCEPT ![target] = FALSE]
    /\ UNCHANGED panicked

Next ==
    \/ \E p, dest \in Procs, b \in Bodies : msg_send(p, dest, b)
    \/ \E p \in Procs, src \in Sources : msg_receive(p, src)
    \/ \E t \in IntTasks : inform_int(t)
    \/ \E target \in Procs \ Native : abort_ipc(target)

Spec == Init /\ [][Next]_vars
-----------------------------------------------------------------------------
\* Aborted: parked for good by abort_ipc.
Dead(p) == Receiving(p) /\ p_recvfrom[p] = NO_TASK

\* Every field has its type.
TypeOK ==
    /\ p_flags \in [Procs -> SUBSET Flags]
    /\ p_msg \in [Procs -> BOOLEAN]
    /\ p_recvfrom \in [Procs -> Sources \cup {NO_TASK}]
    /\ p_sendto \in [Procs -> Procs \cup {NO_TASK}]
    /\ has_int_msg \in [Procs -> BOOLEAN]
    /\ q_sending \in [Procs -> Seq(Procs)]
    /\ buf \in [Procs -> Message]
    /\ panicked \in BOOLEAN

\* The assertions of msg_send, msg_receive and inform_int about the process
\* fields can never fail: a process is blocked for at most one reason, and
\* p_msg, p_sendto and p_recvfrom are set exactly while that reason lasts.
CallFields ==
    \A p \in Procs :
        /\ Sending(p) => /\ p_flags[p] = {"SENDING"}
                         /\ p_sendto[p] \in Procs \ {p}
                         /\ p_msg[p]
        /\ Receiving(p) => p_flags[p] = {"RECEIVING"}
        /\ ~Sending(p) => p_sendto[p] = NO_TASK
        /\ ~Receiving(p) => p_recvfrom[p] = NO_TASK
        /\ p_msg[p] <=> Sending(p) \/ (Receiving(p) /\ p_recvfrom[p] # NO_TASK)

\* The queue of d holds exactly the processes blocked sending to d, each once
\* (msg_receive asserts that a sender it finds is in the queue; abort_ipc walks
\* the queue to release every sender).
Lists(q, p) == \E i \in 1..Len(q) : q[i] = p
NoRepeat(q) == \A i, j \in 1..Len(q) : q[i] = q[j] => i = j

QueueIsSenders ==
    \A d \in Procs :
        /\ NoRepeat(q_sending[d])
        /\ \A p \in Procs :
              Lists(q_sending[d], p) <=> Sending(p) /\ p_sendto[p] = d

\* The table is consistent: a process's fields only make sense together with
\* the queue that holds it.
Consistent == TypeOK /\ CallFields /\ QueueIsSenders

\* No rendezvous is missed: a sender and a receiver that fit each other are
\* never both left blocked, and no task waits for an interrupt that has come.
NoMissedRendezvous ==
    /\ \A s \in Procs : Sending(s) => ~Accepts(p_sendto[s], s)
    /\ \A t \in Procs : has_int_msg[t] => ~AcceptsInt(t)

\* Blocked senders never form a cycle (what the check deadlock() is for): in
\* every group of processes one is not blocked sending to a member.
NoWaitCycle ==
    \A S \in SUBSET Procs :
        S # {} => \E p \in S : ~(Sending(p) /\ p_sendto[p] \in S)

DeliveredOrAborted(p, d) ==
    Sending(p) /\ p_sendto[p] = d /\ ~Sending(p)' =>
        buf'[d] = buf[p] \/ Dead(p)' \/ Dead(d)'

\* A blocked sender is released only in the step that puts its message into
\* the receiver's hands, unless one of the two was aborted.
SentMeansDelivered ==
    [][\A p, d \in Procs : DeliveredOrAborted(p, d)]_vars

AnsweredOrAborted(p, src) ==
    Receiving(p) /\ p_recvfrom[p] = src /\ ~Receiving(p)' =>
        \/ buf'[p].source = src
        \/ src = ANY /\ buf'[p].source # p
        \/ src \in Procs /\ Dead(src)' /\ buf'[p].body = SYSCALL_RET

\* A blocked receiver wakes up only with a message from whom it waits for, or
\* with the error answer for a party that was aborted; an aborted process
\* never wakes up.
WokenByWhatItAwaits ==
    [][\A p \in Procs, src \in Sources \cup {NO_TASK} :
          AnsweredOrAborted(p, src)]_vars

\* The kernel implements Rendezvous.
callOf ==
    [p \in Procs |->
        IF Free(p) THEN [op |-> "unused", party |-> NO_TASK]
        ELSE IF Sending(p) THEN [op |-> "send", party |-> p_sendto[p]]
        ELSE IF Dead(p) THEN [op |-> "dead", party |-> NO_TASK]
        ELSE IF Receiving(p) THEN [op |-> "receive", party |-> p_recvfrom[p]]
        ELSE [op |-> "idle", party |-> NO_TASK]]

R == INSTANCE Rendezvous
        WITH call <- callOf, mail <- buf, pending <- has_int_msg,
             halted <- panicked

\* Each kernel call, interrupt and abort is a step of Rendezvous.
ImplementsRendezvous == R!Spec
=============================================================================
