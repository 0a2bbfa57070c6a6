------------------------------ MODULE IpcSteps ------------------------------
(***************************************************************************)
(* The statements inside msg_send and msg_receive (kernel/proc.c), with    *)
(* the queue as the code keeps it: proc.q_sending points to the first      *)
(* sender and proc.next_sending to the next one.                           *)
(*                                                                         *)
(* A kernel call is not preempted by another process, but sys_call         *)
(* (kernel/kernel.asm) enables interrupts, and the clock and disk handlers *)
(* call inform_int.  A step here is what lies between two points where     *)
(* such an interrupt makes a difference.  The code is compiled without     *)
(* optimisation, so each statement reads the fields afresh.                *)
(*                                                                         *)
(* In a system with ~nested interrupts wait until the call has ended: then *)
(* the calls are the atomic steps of Ipc.                                  *)
(***************************************************************************)
EXTENDS Naturals, FiniteSets, SequencesExt

CONSTANTS
    Procs, Native, IntTasks, MM, Bodies,
    HARD_INT, SYSCALL_RET, EMPTY, ANY, INTERRUPT, NO_TASK,   \* as in Ipc
    NULL          \* the null pointer

ASSUME IpcStepsAssumption ==
    /\ IsFiniteSet(Procs)
    /\ Native \subseteq Procs
    /\ IntTasks \subseteq Native
    /\ MM \in Native
    /\ {ANY, INTERRUPT, NO_TASK, NULL} \cap Procs = {}
    /\ ANY # INTERRUPT /\ ANY # NO_TASK /\ INTERRUPT # NO_TASK

VARIABLES
    p_flags, p_msg, p_recvfrom, p_sendto, has_int_msg, buf, panicked,
    q_sending, next_sending,
    call,     \* the kernel call in progress
    before,   \* the process table when that call began (a history variable)
    failed,   \* the assertion that failed and stopped the machine
    nested    \* whether interrupts occur inside kernel calls (never changes)

fields == <<p_flags, p_msg, p_recvfrom, p_sendto, has_int_msg, buf>>
queues == <<q_sending, next_sending>>
vars   == <<fields, queues, panicked, call, before, failed, nested>>

-----------------------------------------------------------------------------
Sources      == Procs \cup {ANY, INTERRUPT}
Runnable(p)  == p_flags[p] = {}
Free(p)      == p_flags[p] = {"FREE_SLOT"}
Sending(p)   == "SENDING" \in p_flags[p]
Receiving(p) == "RECEIVING" \in p_flags[p]
Accepts(d, s) == Receiving(d) /\ p_recvfrom[d] \in {s, ANY}
AcceptsInt(d) == Receiving(d) /\ p_recvfrom[d] \in {INTERRUPT, ANY}
IntMsg        == [source |-> INTERRUPT, body |-> HARD_INT]

NoCall == [at |-> "user", p |-> NO_TASK, party |-> NO_TASK, from |-> NO_TASK]
InUser == call = NoCall
Up     == ~panicked /\ failed = "none"

\* The k-th process on the walk that starts at x and goes on with nxt.
Walk(x, nxt) ==
    LET w[k \in 0..Cardinality(Procs)] ==
            IF k = 0 THEN x ELSE IF w[k - 1] = NULL THEN NULL ELSE nxt[w[k - 1]]
    IN  w

\* The senders on the list that starts at x.
List(x) ==
    LET w == Walk(x, next_sending)
        n == Cardinality({k \in DOMAIN w : w[k] # NULL})
    IN  [i \in 1..n |-> w[i - 1]]

QueueOf(d) == List(q_sending[d])

\* Mutant: only the receiver itself is looked at, not the chain behind it.
deadlock_OneStep(src, dest) == Sending(dest) /\ p_sendto[dest] = src

\* deadlock() follows p_sendto from dest as long as the process is sending.
deadlock(src, dest) ==
    LET w == Walk(dest, [p \in Procs |-> IF Sending(p) THEN p_sendto[p] ELSE NULL])
    IN  \E k \in DOMAIN w :
            w[k] # NULL /\ Sending(w[k]) /\ p_sendto[w[k]] = src

Init ==
    /\ \E used \in SUBSET (Procs \ Native) :
          p_flags = [p \in Procs |-> IF p \in Native \cup used
                                     THEN {} ELSE {"FREE_SLOT"}]
    /\ p_msg = [p \in Procs |-> FALSE]
    /\ p_recvfrom = [p \in Procs |-> NO_TASK]
    /\ p_sendto = [p \in Procs |-> NO_TASK]
    /\ has_int_msg = [p \in Procs |-> FALSE]
    /\ buf = [p \in Procs |-> [source |-> p, body |-> EMPTY]]
    /\ q_sending = [p \in Procs |-> NULL]
    /\ next_sending = [p \in Procs |-> NULL]
    /\ panicked = FALSE
    /\ call = NoCall
    /\ before = <<>>
    /\ failed = "none"
    /\ nested \in BOOLEAN

-----------------------------------------------------------------------------
\* The kernel call in progress is at the given point.
At(point) == Up /\ call.at = point

\* It goes on at the next point, or returns to its caller.
GoOn(point) == call' = [call EXCEPT !.at = point] /\ UNCHANGED <<before, failed>>
Return      == call' = NoCall /\ before' = <<>> /\ UNCHANGED failed

\* A false assertion in ring 0 stops the machine.
Fail(name) == failed' = name /\ UNCHANGED <<call, before>>

\* sys_sendrec: the caller's message gets its source, the call begins.
Enter(p, function, party, b) ==
    /\ Up /\ InUser
    /\ Runnable(p)
    /\ party # p
    /\ party \in Procs => ~Free(party)
    /\ buf' = [buf EXCEPT ![p] = [source |-> p, body |-> b]]
    /\ call' = [at |-> function, p |-> p, party |-> party, from |-> NO_TASK]
    /\ before' = [p_flags |-> p_flags, p_msg |-> p_msg,
                  p_recvfrom |-> p_recvfrom, p_sendto |-> p_sendto,
                  has_int_msg |-> has_int_msg, buf |-> buf,
                  q_sending |-> [d \in Procs |-> QueueOf(d)]]
    /\ UNCHANGED <<p_flags, p_msg, p_recvfrom, p_sendto, has_int_msg, queues,
                   panicked, failed>>

sys_sendrec(p) ==
    \/ \E dest \in Procs, b \in Bodies : Enter(p, "send", dest, b)
    \/ \E src \in Sources : Enter(p, "receive", src, EMPTY)

-----------------------------------------------------------------------------
(* msg_send                                                                *)

SendPanics ==
    /\ At("send")
    /\ deadlock(call.p, call.party)
    /\ panicked' = TRUE
    /\ UNCHANGED <<fields, queues, call, before, failed>>

\* The test whether the receiver waits for the sender.
SendTests ==
    /\ At("send")
    /\ ~deadlock(call.p, call.party)
    /\ GoOn(IF Accepts(call.party, call.p) THEN "check" ELSE "append")
    /\ UNCHANGED <<fields, queues, panicked>>

\* assert(p_dest->p_msg)
SendChecks ==
    /\ At("check")
    /\ IF p_msg[call.party] THEN GoOn("copy") ELSE Fail("msg_send")
    /\ UNCHANGED <<fields, queues, panicked>>

\* The copy; through a null p_msg it goes to address 0.
SendCopies ==
    /\ At("copy")
    /\ buf' = IF p_msg[call.party]
              THEN [buf EXCEPT ![call.party] = buf[call.p]] ELSE buf
    /\ GoOn("clear")
    /\ UNCHANGED <<p_flags, p_msg, p_recvfrom, p_sendto, has_int_msg, queues,
                   panicked>>

SendClearsMsg ==
    /\ At("clear")
    /\ p_msg' = [p_msg EXCEPT ![call.party] = FALSE]
    /\ GoOn("wake")
    /\ UNCHANGED <<p_flags, p_recvfrom, p_sendto, has_int_msg, buf, queues,
                   panicked>>

SendClearsFlag ==
    /\ At("wake")
    /\ p_flags' = [p_flags EXCEPT ![call.party] = @ \ {"RECEIVING"}]
    /\ GoOn("done")
    /\ UNCHANGED <<p_msg, p_recvfrom, p_sendto, has_int_msg, buf, queues,
                   panicked>>

\* p_recvfrom is reset and the fields of both parties are asserted.
SendDone ==
    /\ At("done")
    /\ p_recvfrom' = [p_recvfrom EXCEPT ![call.party] = NO_TASK]
    /\ IF /\ Runnable(call.party) /\ ~p_msg[call.party]
          /\ p_sendto[call.party] = NO_TASK
          /\ Runnable(call.p) /\ ~p_msg[call.p]
          /\ p_recvfrom[call.p] = NO_TASK /\ p_sendto[call.p] = NO_TASK
       THEN Return ELSE Fail("msg_send")
    /\ UNCHANGED <<p_flags, p_msg, p_sendto, has_int_msg, buf, queues, panicked>>

\* The sender goes to the end of the receiver's list, and its fields are asserted
\* before and after block().  (An interrupt here only latches: the sender is not
\* receiving.)
SendAppends ==
    LET p    == call.p
        dest == call.party
        last == Last(QueueOf(dest))
    IN
    /\ At("append")
    /\ p_flags' = [p_flags EXCEPT ![p] = @ \cup {"SENDING"}]
    /\ p_sendto' = [p_sendto EXCEPT ![p] = dest]
    /\ p_msg' = [p_msg EXCEPT ![p] = TRUE]
    /\ IF q_sending[dest] = NULL
       THEN /\ q_sending' = [q_sending EXCEPT ![dest] = p]
            /\ next_sending' = [next_sending EXCEPT ![p] = NULL]
       ELSE /\ next_sending' = [next_sending EXCEPT ![last] = p, ![p] = NULL]
            /\ UNCHANGED q_sending
    /\ UNCHANGED <<p_recvfrom, has_int_msg, buf, panicked>>
    /\ IF /\ p_flags'[p] = {"SENDING"} /\ p_msg'[p]
          /\ p_recvfrom'[p] = NO_TASK /\ p_sendto'[p] = dest
       THEN Return ELSE Fail("msg_send")

-----------------------------------------------------------------------------
(* msg_receive                                                             *)

ReceiveTests ==
    /\ At("receive")
    /\ GoOn(IF has_int_msg[call.p] /\ call.party \in {ANY, INTERRUPT}
            THEN "take_int" ELSE "pick")
    /\ UNCHANGED <<fields, queues, panicked>>

ReceiveInt ==
    /\ At("take_int")
    /\ buf' = [buf EXCEPT ![call.p] = IntMsg]
    /\ has_int_msg' = [has_int_msg EXCEPT ![call.p] = FALSE]
    /\ GoOn("taken")
    /\ UNCHANGED <<p_flags, p_msg, p_recvfrom, p_sendto, queues, panicked>>

\* The receiver's fields are asserted, the latch that was just reset among them.
ReceiveIntDone ==
    /\ At("taken")
    /\ IF /\ Runnable(call.p) /\ ~p_msg[call.p] /\ p_sendto[call.p] = NO_TASK
          /\ ~has_int_msg[call.p]
       THEN Return ELSE Fail("msg_receive")
    /\ UNCHANGED <<fields, queues, panicked>>

\* Mutant: whom the given process is sending to is not looked at.
p_from_AnyTarget ==
    CASE call.party = ANY      -> q_sending[call.p]
      [] call.party \in Procs -> IF Sending(call.party) THEN call.party ELSE NULL
      [] OTHER                 -> NULL

\* p_from: the first in the queue, or the given process if it is sending here.
p_from ==
    LET p == call.p IN
    CASE call.party = ANY   -> q_sending[p]
      [] call.party \in Procs ->
            IF Sending(call.party) /\ p_sendto[call.party] = p
            THEN call.party ELSE NULL
      [] OTHER              -> NULL

\* What msg_receive asserts of itself and of the sender it has found.
ReceiveAsserts ==
    LET p == call.p IN
    /\ q_sending[p] # NULL
    /\ Runnable(p) /\ ~p_msg[p]
    /\ p_recvfrom[p] = NO_TASK /\ p_sendto[p] = NO_TASK
    /\ p_flags[p_from] = {"SENDING"} /\ p_msg[p_from]
    /\ p_recvfrom[p_from] = NO_TASK /\ p_sendto[p_from] = p

ReceivePicks ==
    /\ At("pick")
    /\ IF p_from = NULL THEN GoOn("flag")
       ELSE IF ReceiveAsserts
            THEN /\ call' = [call EXCEPT !.at = "unlink", !.from = p_from]
                 /\ UNCHANGED <<before, failed>>
            ELSE Fail("msg_receive")
    /\ UNCHANGED <<fields, queues, panicked>>

\* Mutant: prev has moved on to the last of the list.
prev_Last(p, from) == Last(QueueOf(p))

\* prev: who points to the sender in the list (the loop runs to the end when
\* the sender is not in it).
prev(p, from) ==
    LET q == QueueOf(p)
        b == {i \in 1..Len(q) : q[i] # from /\ \A j \in 1..i : q[j] # from}
    IN  IF b = {} THEN NULL ELSE q[Cardinality(b)]

Unblocks(from) ==
    /\ p_msg' = [p_msg EXCEPT ![from] = FALSE]
    /\ p_sendto' = [p_sendto EXCEPT ![from] = NO_TASK]
    /\ p_flags' = [p_flags EXCEPT ![from] = @ \ {"SENDING"}]

\* Unlink the sender, copy its message, unblock it: only the first of the list
\* has no prev, the sender has a message, and unblock() asserts that nothing else
\* blocks it.  (An interrupt here only latches: neither of the two is receiving.)
ReceiveTakes ==
    LET p    == call.p
        from == call.from
    IN
    /\ At("unlink")
    /\ IF q_sending[p] = from
       THEN /\ q_sending' = [q_sending EXCEPT ![p] = next_sending[from]]
            /\ next_sending' = [next_sending EXCEPT ![from] = NULL]
       ELSE /\ next_sending' = [next_sending EXCEPT
                                    ![prev(p, from)] = next_sending[from],
                                    ![from] = NULL]
            /\ UNCHANGED q_sending
    /\ buf' = [buf EXCEPT ![p] = buf[from]]
    /\ Unblocks(from)
    /\ UNCHANGED <<p_recvfrom, has_int_msg, panicked>>
    /\ IF /\ q_sending[p] = from <=> prev(p, from) = NULL
          /\ p_msg[from]
          /\ p_flags'[from] = {}
       THEN Return ELSE Fail("msg_receive")

\* Nobody is sending: three assignments block the receiver ...
ReceiveFlags ==
    /\ At("flag")
    /\ p_flags' = [p_flags EXCEPT ![call.p] = @ \cup {"RECEIVING"}]
    /\ GoOn("msg")
    /\ UNCHANGED <<p_msg, p_recvfrom, p_sendto, has_int_msg, buf, queues,
                   panicked>>

ReceiveSetsMsg ==
    /\ At("msg")
    /\ p_msg' = [p_msg EXCEPT ![call.p] = TRUE]
    /\ GoOn("from")
    /\ UNCHANGED <<p_flags, p_recvfrom, p_sendto, has_int_msg, buf, queues,
                   panicked>>

ReceiveSetsFrom ==
    /\ At("from")
    /\ p_recvfrom' = [p_recvfrom EXCEPT ![call.p] = call.party]
    /\ GoOn("block")
    /\ UNCHANGED <<p_flags, p_msg, p_sendto, has_int_msg, buf, queues, panicked>>

\* ... and block() asserts that it is blocked.
ReceiveBlocks ==
    /\ At("block")
    /\ IF Runnable(call.p) THEN Fail("block") ELSE Return
    /\ UNCHANGED <<fields, queues, panicked>>

-----------------------------------------------------------------------------
\* inform_int, in an interrupt handler.  A null p_msg is written through (to
\* address 0) without a check; that nothing else blocks the task is asserted, by
\* inform_int and by unblock().
inform_int(t) ==
    /\ Up
    /\ InUser \/ nested
    /\ IF AcceptsInt(t)
       THEN /\ buf' = IF p_msg[t] THEN [buf EXCEPT ![t].source = INTERRUPT,
                                                   ![t].body = HARD_INT]
                                  ELSE buf
            /\ p_msg' = [p_msg EXCEPT ![t] = FALSE]
            /\ has_int_msg' = [has_int_msg EXCEPT ![t] = FALSE]
            /\ p_flags' = [p_flags EXCEPT ![t] = @ \ {"RECEIVING"}]
            /\ p_recvfrom' = [p_recvfrom EXCEPT ![t] = NO_TASK]
            /\ IF p_flags'[t] = {} /\ p_sendto[t] = NO_TASK
               THEN UNCHANGED failed ELSE failed' = "inform_int"
       ELSE /\ has_int_msg' = [has_int_msg EXCEPT ![t] = TRUE]
            /\ UNCHANGED <<p_flags, p_msg, p_recvfrom, buf, failed>>
    /\ UNCHANGED <<p_sendto, queues, panicked, call, before>>

\* abort_ipc, with interrupts disabled: release the senders along the list,
\* unlink the target from the list it is in, then look at every process.
abort_ipc(target) ==
    LET senders   == {QueueOf(target)[i] : i \in 1..Len(QueueOf(target))}
                        \cup {p \in Procs \ {target} :
                                 Sending(p) /\ p_sendto[p] = target}
        receivers == {p \in Procs \ {target} :
                         Receiving(p) /\ p_recvfrom[p] = target}
        dest      == p_sendto[target]
        linked    == Sending(target)
                        /\ \E i \in 1..Len(QueueOf(dest)) :
                              QueueOf(dest)[i] = target
    IN
    /\ Up /\ InUser
    /\ Runnable(MM)
    /\ ~Free(target)
    /\ q_sending' =
          [d \in Procs |-> IF d = target THEN NULL
                           ELSE IF linked /\ d = dest /\ q_sending[d] = target
                                THEN next_sending[target] ELSE q_sending[d]]
    /\ next_sending' =
          [p \in Procs |-> IF p \in senders \cup {target} THEN NULL
                           ELSE IF linked /\ p = prev(dest, target)
                                THEN next_sending[target] ELSE next_sending[p]]
    /\ p_flags' =
          [p \in Procs |-> IF p = target THEN {"RECEIVING"}
                           ELSE p_flags[p] \
                                  ((IF p \in senders THEN {"SENDING"} ELSE {})
                              \cup (IF p \in receivers THEN {"RECEIVING"} ELSE {}))]
    /\ p_sendto' = [p \in Procs |-> IF p \in senders \cup {target}
                                    THEN NO_TASK ELSE p_sendto[p]]
    /\ p_recvfrom' = [p \in Procs |-> IF p \in receivers \cup {target}
                                      THEN NO_TASK ELSE p_recvfrom[p]]
    /\ p_msg' = [p \in Procs |-> IF p \in senders \cup receivers \cup {target}
                                 THEN FALSE ELSE p_msg[p]]
    /\ buf' = [p \in Procs |-> IF p \in receivers /\ p_msg[p]
                               THEN [buf[p] EXCEPT !.body = SYSCALL_RET]
                               ELSE buf[p]]
    /\ has_int_msg' = [has_int_msg EXCEPT ![target] = FALSE]
    /\ UNCHANGED <<panicked, call, before, failed>>

-----------------------------------------------------------------------------
msg_send == \/ SendPanics \/ SendTests \/ SendChecks \/ SendCopies
            \/ SendClearsMsg \/ SendClearsFlag \/ SendDone \/ SendAppends

msg_receive == \/ ReceiveTests \/ ReceiveInt \/ ReceiveIntDone
               \/ ReceivePicks \/ ReceiveTakes
               \/ ReceiveFlags \/ ReceiveSetsMsg \/ ReceiveSetsFrom
               \/ ReceiveBlocks

Next ==
    /\ \/ \E p \in Procs : sys_sendrec(p)
       \/ msg_send
       \/ msg_receive
       \/ \E t \in IntTasks : inform_int(t)
       \/ \E target \in Procs \ Native : abort_ipc(target)
    /\ UNCHANGED nested

Spec == Init /\ [][Next]_vars
-----------------------------------------------------------------------------
\* The variables have their types.
TypeOK ==
    /\ p_flags \in [Procs -> SUBSET {"SENDING", "RECEIVING", "FREE_SLOT"}]
    /\ p_msg \in [Procs -> BOOLEAN]
    /\ p_recvfrom \in [Procs -> Sources \cup {NO_TASK}]
    /\ p_sendto \in [Procs -> Procs \cup {NO_TASK}]
    /\ has_int_msg \in [Procs -> BOOLEAN]
    /\ q_sending \in [Procs -> Procs \cup {NULL}]
    /\ next_sending \in [Procs -> Procs \cup {NULL}]
    /\ call.p \in Procs \cup {NO_TASK}
    /\ failed \in {"none", "msg_send", "msg_receive", "block", "inform_int"}

\* Whatever interrupts do to a kernel call, the lists stay lists: the one of d
\* holds exactly the processes blocked sending to d, once each, it ends, and no
\* process outside a list has a successor.
ListsAreQueues ==
    /\ \A d \in Procs :
          LET q == QueueOf(d) IN
          /\ Len(q) <= Cardinality(Procs)
          /\ \A i, j \in 1..Len(q) : q[i] = q[j] => i = j
          /\ {q[i] : i \in 1..Len(q)} = {p \in Procs : Sending(p) /\ p_sendto[p] = d}
    /\ \A p \in Procs : ~Sending(p) => next_sending[p] = NULL

\* A process that the scheduler may pick does not look blocked: its p_sendto
\* and p_msg are reset, whichever of the kernel and an interrupt released it.
ReleasedClean ==
    \A p \in Procs :
        Runnable(p) /\ Up /\ call.at = "user" => p_sendto[p] = NO_TASK /\ ~p_msg[p]

ListsSound == TypeOK /\ ListsAreQueues /\ ReleasedClean

\* Unless an interrupt hits a kernel call, none of the assertions about the
\* process table in msg_send, msg_receive, block, unblock and inform_int fails:
\* what they test is what all other calls, the interrupts and abort_ipc have left.
\* (The assertions about a call's arguments are the guards of Enter.)
AssertionsHold == ~nested => failed = "none"

\* A task is not left waiting for an interrupt that has come.
NoLostWakeup ==
    InUser => \A t \in IntTasks : has_int_msg[t] => ~AcceptsInt(t)

\* Without interrupts inside it, a kernel call is one step of Ipc, taken when
\* it returns: until then the process table is seen as it was before.  Of a
\* system with nested interrupts nothing is claimed: all that is seen of it is
\* that it was started.
Seen(now, then, boot) ==
    IF nested THEN boot ELSE IF InUser THEN now ELSE then

Each(x) == [p \in Procs |-> x]

A == INSTANCE Ipc WITH
        p_flags     <- Seen(p_flags, before.p_flags,
                            [p \in Procs |-> IF p \in Native THEN {}
                                             ELSE {"FREE_SLOT"}]),
        p_msg       <- Seen(p_msg, before.p_msg, Each(FALSE)),
        p_recvfrom  <- Seen(p_recvfrom, before.p_recvfrom, Each(NO_TASK)),
        p_sendto    <- Seen(p_sendto, before.p_sendto, Each(NO_TASK)),
        has_int_msg <- Seen(has_int_msg, before.has_int_msg, Each(FALSE)),
        buf         <- Seen(buf, before.buf,
                            [p \in Procs |-> [source |-> p, body |-> EMPTY]]),
        q_sending   <- Seen([d \in Procs |-> QueueOf(d)], before.q_sending,
                            Each(<<>>)),
        panicked    <- ~nested /\ panicked

ImplementsIpc == A!Spec
=============================================================================
