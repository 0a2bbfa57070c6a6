----------------------------- MODULE Rendezvous -----------------------------
(***************************************************************************)
(* What the kernel's IPC promises its callers, without flags, pointers or  *)
(* queues: a call is either pending or over, a send and a receive that fit *)
(* each other end together, and in that very step, never before and never  *)
(* twice, the message moves from one to the other.  A kernel may choose    *)
(* freely between several senders a receive fits.                          *)
(***************************************************************************)
EXTENDS Naturals

CONSTANTS Procs, Native, IntTasks, Bodies, HARD_INT, SYSCALL_RET, EMPTY,
          ANY, INTERRUPT, NO_TASK

VARIABLES
    call,      \* the call each process has pending
    mail,      \* the message each process sends, or was given last
    pending,   \* an interrupt the task has not been told of
    halted

vars == <<call, mail, pending, halted>>

Idle       == [op |-> "idle",   party |-> NO_TASK]
Unused     == [op |-> "unused", party |-> NO_TASK]
Dead       == [op |-> "dead",   party |-> NO_TASK]
SendTo(d)  == [op |-> "send",    party |-> d]
RecvFrom(s) == [op |-> "receive", party |-> s]
IntMsg     == [source |-> INTERRUPT, body |-> HARD_INT]

\* In the calls c, s sends what r waits for.
Fits(c, s, r) ==
    /\ c[s] = SendTo(r)
    /\ c[r] \in {RecvFrom(s), RecvFrom(ANY)}

\* A send of p to d would close a cycle of senders that wait for each other.
Cycle(p, d) ==
    \A S \in SUBSET Procs :
        (d \in S /\ \A s \in S : call[s].op = "send" => call[s].party \in S)
            => p \in S

Init ==
    /\ call \in [Procs -> {Idle, Unused}]
    /\ \A p \in Native : call[p] = Idle
    /\ mail = [p \in Procs |-> [source |-> p, body |-> EMPTY]]
    /\ pending = [p \in Procs |-> FALSE]
    /\ halted = FALSE

\* p makes the call c with the message m: it waits when no pending call fits,
\* else p and its partner both go on and the message has moved.
Make(p, c, m) ==
    /\ call[p] = Idle
    /\ c.party # p
    /\ c.party \in Procs => call[c.party] # Unused
    /\ \/ /\ \A s, r \in Procs : ~Fits([call EXCEPT ![p] = c], s, r)
          /\ call' = [call EXCEPT ![p] = c]
          /\ mail' = [mail EXCEPT ![p] = m]
       \/ \E s, r \in Procs :
             /\ Fits([call EXCEPT ![p] = c], s, r)
             /\ call' = [call EXCEPT ![p] = Idle, ![s] = Idle, ![r] = Idle]
             /\ mail' = [mail EXCEPT ![p] = m, ![r] = IF s = p THEN m ELSE mail[s]]

Send(p, d, b) ==
    /\ ~Cycle(p, d)
    /\ Make(p, SendTo(d), [source |-> p, body |-> b])
    /\ UNCHANGED <<pending, halted>>

Receive(p, s) ==
    /\ ~(pending[p] /\ s \in {ANY, INTERRUPT})
    /\ Make(p, RecvFrom(s), [source |-> p, body |-> EMPTY])
    /\ UNCHANGED <<pending, halted>>

\* A receive that finds an interrupt of which the task was not told yet.
Collect(p) ==
    /\ call[p] = Idle
    /\ pending[p]
    /\ mail' = [mail EXCEPT ![p] = IntMsg]
    /\ pending' = [pending EXCEPT ![p] = FALSE]
    /\ UNCHANGED <<call, halted>>

Interrupt(t) ==
    /\ IF call[t] \in {RecvFrom(INTERRUPT), RecvFrom(ANY)}
       THEN /\ call' = [call EXCEPT ![t] = Idle]
            /\ mail' = [mail EXCEPT ![t] = IntMsg]
            /\ pending' = [pending EXCEPT ![t] = FALSE]
       ELSE /\ pending' = [pending EXCEPT ![t] = TRUE]
            /\ UNCHANGED <<call, mail>>
    /\ UNCHANGED halted

\* The process d dies: its own call is withdrawn for good, every call that
\* waits for it ends, a receive with the answer SYSCALL_RET.
Abort(d) ==
    /\ call[d] # Unused
    /\ call' = [p \in Procs |->
                   IF p = d THEN Dead
                   ELSE IF call[p] \in {SendTo(d), RecvFrom(d)} THEN Idle
                   ELSE call[p]]
    /\ mail' = [p \in Procs |->
                   IF p # d /\ call[p] = RecvFrom(d)
                   THEN [mail[p] EXCEPT !.body = SYSCALL_RET]
                   ELSE mail[p]]
    /\ pending' = [pending EXCEPT ![d] = FALSE]
    /\ UNCHANGED halted

\* The one call that is refused: the machine stops instead.
Refuse(p, d) ==
    /\ call[p] = Idle
    /\ Cycle(p, d)
    /\ halted' = TRUE
    /\ UNCHANGED <<call, mail, pending>>

Next ==
    /\ ~halted
    /\ \/ \E p, d \in Procs, b \in Bodies : Send(p, d, b)
       \/ \E p, d \in Procs : Refuse(p, d)
       \/ \E p \in Procs, s \in Procs \cup {ANY, INTERRUPT} : Receive(p, s)
       \/ \E p \in Procs : Collect(p)
       \/ \E t \in IntTasks : Interrupt(t)
       \/ \E d \in Procs \ Native : Abort(d)

Spec == Init /\ [][Next]_vars
=============================================================================
