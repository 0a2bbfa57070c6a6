--------------------------- MODULE ProcLifeProofs ----------------------------
(***************************************************************************)
(* The life of processes, for any number of processes and slots: no order  *)
(* of system calls stops the machine, zombies and parents find each other, *)
(* and wait() tells the truth.                                             *)
(***************************************************************************)
EXTENDS ProcLife, IpcProofs

-----------------------------------------------------------------------------
(* The invariant                                                           *)

\* Programs do not both kill and call SYS.  (With both, SYS is left sending
\* to the slot of a dead process, and the next process in that slot closes a
\* circle with it: what is proved here is then false.)
KillsApart == ~({"KILL", "ASK_SYS"} \subseteq Calls)

\* The fields of proc_table that the kernel uses.  MM adds WAITING and
\* HANGING to p_flags, so that Ipc's CallFields does not hold as it stands.
FieldsOf(p) ==
    /\ Sending(p) => ~Receiving(p) /\ p_sendto[p] \in Procs \ {p} /\ p_msg[p]
    /\ ~Sending(p) => p_sendto[p] = NO_TASK
    /\ ~Receiving(p) => p_recvfrom[p] = NO_TASK
    /\ p_msg[p] <=> Sending(p) \/ (Receiving(p) /\ p_recvfrom[p] # NO_TASK)
    /\ "FREE_SLOT" \in p_flags[p] => Free(p)
    /\ ~has_int_msg[p]

Fields == \A p \in Procs : FieldsOf(p)

Linked == TypeOK /\ Fields /\ QueueIsSenders

AllCalls == Calls \cup {"FORK", "WAIT", "EXIT"}

Typed ==
    /\ p_parent \in [Procs -> Procs \cup {NO_TASK}]
    /\ exit_status \in [Procs -> {-1, 0, 1}]
    /\ at \in [Procs -> Locs]
    /\ asked \in [Users -> AllCalls]
    /\ shells \in 0..Shells
    /\ mm \in [src : Users \cup {NO_TASK}, op : {"EXIT", "KILL"},
               pid : Slots \cup {NO_TASK}, status : {-1, 0, 1},
               victim : Slots \cup {NO_TASK}, out : Bodies \cup {EMPTY}]

\* The server s, or MM, has the call of u and has not answered it.
Served(s, u) == /\ Callee(asked[u]) = s
                /\ \/ at[u] = "sent" /\ ~Sending(u)
                   \/ at[u] = "run" /\ Receiving(u)

\* MM has that call of u, and is to answer it before it takes another one.
ServedFor(u, call) == Served(MM, u) /\ asked[u] = call /\ ~Waiting(u)

Alive(p) == ~Free(p) /\ ~Dead(p)

\* Why a process is blocked.
SendsFor(p) ==
    /\ buf[p].source = p
    /\ \/ /\ p \in Users /\ at[p] = "sent" /\ p_sendto[p] = Callee(asked[p])
          /\ buf[p].body.type = asked[p] /\ buf[p].body.i1 = Status(asked[p])
       \/ p \in Servers /\ at[p] = "loop" /\ p_sendto[p] \in Users \cup {MM}
       \/ p = MM /\ at[p] \in {"fork_fs", "exit_fs"} /\ p_sendto[p] = FS
       \/ p = MM /\ at[p] \in {"reply", "release", "loop"} /\ p_sendto[p] \in Users

ReceivesFor(p) ==
    \/ p \in Users /\ at[p] = "run" /\ p_recvfrom[p] = Callee(asked[p])
    \/ p \in Slots /\ at[p] = "gone" /\ p_recvfrom[p] = NO_TASK
    \/ p \in Servers /\ at[p] = "serve" /\ p_recvfrom[p] = ANY
    \/ p = MM /\ at[p] = "handle" /\ p_recvfrom[p] = ANY
    \/ p = MM /\ at[p] \in {"birth", "reap"} /\ p_recvfrom[p] = FS

BlockedFor == \A p \in Procs : /\ Sending(p) => SendsFor(p)
                               /\ Receiving(p) => ReceivesFor(p)

\* Where everybody is, and whose slot is in use.
Placed ==
    /\ at[MM] \in MMLocs
    /\ \A s \in Servers : at[s] \in ServerLocs
    /\ \A u \in Users : /\ at[u] \in UserLocs
                        /\ at[u] = "sent" => ~Free(u)
    /\ asked[InitProc] = "EXIT" => at[InitProc] = "run" /\ ~Receiving(InitProc)
    /\ \A p \in Native : ~Free(p)
    /\ \A p \in Procs : Waiting(p) => p \in Users /\ Served(MM, p) /\ asked[p] = "WAIT"

\* MM is ending u and has not got through to FS.  MM waits for FS.
MMKilling(u) == mm.pid = u /\ (at[MM] = "exit" \/ (at[MM] = "exit_fs" /\ Sending(MM)))
MMAwaits     == \/ at[MM] \in {"fork_fs", "exit_fs"} /\ ~Sending(MM)
                \/ at[MM] \in {"birth", "reap"} /\ Receiving(MM)

\* The server s has the request of p, or is answering it.
Has(s, p) == \/ at[s] = "serve" /\ ~Receiving(s) /\ buf[s].source = p
             \/ Sending(s) /\ p_sendto[s] = p

\* Whom a server works for waits for it; the one exception is a process that
\* MM kills while FS works for it: MM then never gets through to FS.
Service ==
    \A s \in Servers :
        /\ at[s] = "serve" /\ ~Receiving(s) => buf[s].source \in Users \cup {MM}
        /\ Has(s, MM) => s = FS /\ MMAwaits
        /\ \A u \in Users :
              Has(s, u) => Served(s, u) \/ (s = FS /\ Dead(u) /\ MMKilling(u))

\* The request MM has taken.
Handling ==
    at[MM] = "handle" /\ ~Receiving(MM) =>
        /\ buf[MM].source \in Users
        /\ ServedFor(buf[MM].source, buf[MM].body.type)
        /\ buf[MM].body.i1 = Status(buf[MM].body.type)

\* Parent and child both wait for the answer to fork().
Forking ==
    at[MM] \in {"fork", "fork_fs", "birth"} =>
        /\ mm.src \in Users /\ mm.pid \in Slots /\ mm.src # mm.pid
        /\ ServedFor(mm.src, "FORK") /\ ServedFor(mm.pid, "FORK")

Ret(i1, pid) == Body("SYSCALL_RET", i1, pid)

\* MM is going to answer its caller, and may still be sending the birth of a
\* child.
Replying ==
    at[MM] = "reply" =>
        /\ mm.src \in Users /\ mm.out \in Bodies
        /\ \E call \in {"FORK", "KILL", "WAIT"} : ServedFor(mm.src, call)
        /\ asked[mm.src] = "WAIT" => mm.out.pid = NO_TASK
        /\ Sending(MM) => /\ p_sendto[MM] # mm.src
                          /\ ServedFor(p_sendto[MM], "FORK")
                          /\ buf[MM].body = Ret(0, 0)

\* MM is answering its caller.
Replied ==
    at[MM] = "loop" /\ Sending(MM) =>
        /\ \E call \in {"FORK", "KILL", "WAIT"} : ServedFor(p_sendto[MM], call)
        /\ asked[p_sendto[MM]] = "WAIT" => buf[MM].body.pid = NO_TASK

\* MM is ending the process mm.pid, perhaps for a caller that waits.
Ending ==
    at[MM] \in {"exit", "exit_fs", "reap", "adopt", "cleanup", "release"} =>
        /\ mm.op = "KILL" => /\ mm.src \in Users /\ ServedFor(mm.src, "KILL")
                             /\ mm.out = Ret(0, NO_TASK)
        /\ at[MM] \in {"exit", "exit_fs", "reap"} => mm.pid \in Slots /\ Dead(mm.pid)
        /\ at[MM] = "adopt" => mm.pid \in Slots /\ (Free(mm.pid) \/ Dead(mm.pid))

\* MM is handing a dead child over to its parent.
Reaping ==
    at[MM] \in {"cleanup", "release"} =>
        /\ mm.victim \in Slots /\ Dead(mm.victim)
        /\ at[MM] = "cleanup" => /\ p_parent[mm.victim] \in Users
                                 /\ ServedFor(p_parent[mm.victim], "WAIT")
        /\ Sending(MM) => /\ p_sendto[MM] = p_parent[mm.victim]
                          /\ ServedFor(p_sendto[MM], "WAIT")
                          /\ buf[MM].body = Ret(exit_status[mm.victim], mm.victim)

\* The process that is ending still has its children.
Dying(p) ==
    /\ p = mm.pid
    /\ \/ at[MM] \in {"exit", "exit_fs", "reap", "adopt"}
       \/ at[MM] \in {"cleanup", "release"} /\ mm.victim = mm.pid

Parents ==
    \A p \in Slots : ~Free(p) => /\ p_parent[p] \in Users \ {p}
                                 /\ Alive(p_parent[p]) \/ Dying(p_parent[p])

ZombiesUnawaited ==
    \A p \in Procs : Hanging(p) => p \in Slots /\ Dead(p) /\ ~Waiting(p_parent[p])

\* fork() has returned c to u, or is going to.
Told(u, c) ==
    /\ asked[u] = "FORK"
    /\ \/ /\ at[u] = "run" /\ ~Receiving(u) /\ ~Free(u)
          /\ buf[u].body.type = "SYSCALL_RET" /\ buf[u].body.pid = c
       \/ Sending(MM) /\ p_sendto[MM] = u /\ buf[MM].body.pid = c
       \/ at[MM] = "reply" /\ mm.src = u /\ mm.out.pid = c
       \/ at[MM] \in {"fork", "fork_fs", "birth"} /\ mm.src = u /\ mm.pid = c

ToldChildStays ==
    \A u \in Users, c \in Slots : Told(u, c) =>
        /\ ~Free(c) /\ p_parent[c] = u
        /\ ~(at[MM] \in {"cleanup", "release"} /\ mm.victim = c)

LifeInv == /\ Linked /\ Typed /\ BlockedFor /\ Placed /\ Service /\ Handling
           /\ Forking /\ Replying /\ Replied /\ Ending /\ Reaping
           /\ Parents /\ ZombiesUnawaited /\ ToldChildStays /\ ~panicked

-----------------------------------------------------------------------------
(* Who is who                                                              *)

LEMMA Names ==
    /\ MM \in Native /\ FS \in Native /\ InitProc \in Native
    /\ MM \in Procs /\ FS \in Procs /\ InitProc \in Procs /\ FS \in Servers
    /\ MM # FS /\ MM # InitProc /\ FS # InitProc /\ MM # SYS /\ FS # SYS
    /\ \A u \in Users : /\ u \in Procs /\ u # MM /\ u # FS /\ u # SYS
                        /\ u # NO_TASK /\ u # ANY /\ u \notin Servers
    /\ \A u \in Slots : u \in Users /\ u \in Procs /\ u \notin Native /\ u # InitProc /\ u # 0
    /\ \A s \in Servers : /\ s \in Procs /\ s \in Native /\ s # MM /\ s \in {FS, SYS}
                          /\ s \notin Users /\ s # NO_TASK /\ s # ANY /\ s \notin Slots
    /\ ANY \notin Procs /\ NO_TASK \notin Procs /\ ANY # NO_TASK
    /\ InitProc \in Users /\ InitProc \notin Slots /\ Procs \subseteq Nat
BY IpcAssumption, ProcLifeAssumption DEF Users, Slots, Servers

LEMMA CalleeIs ==
    ASSUME NEW call \in AllCalls
    PROVE  /\ call \in {"FORK", "EXIT", "WAIT", "KILL", "ASK_FS", "ASK_SYS"}
           /\ call \in {"FORK", "EXIT", "WAIT", "KILL"} => Callee(call) = MM
           /\ call = "ASK_FS" => Callee(call) = FS
           /\ call = "ASK_SYS" => Callee(call) = SYS
           /\ Callee(call) \in Servers \cup {MM}
<1>1. call \in {"FORK", "EXIT", "WAIT", "KILL", "ASK_FS", "ASK_SYS"}
  BY ProcLifeAssumption DEF AllCalls
<1>2. call = "ASK_SYS" => SYS \in Procs
  BY ProcLifeAssumption DEF AllCalls
<1>. QED  BY <1>1, <1>2, Names DEF Callee, Servers

\* The messages fit, and their members are what they were made of.
LEMMA Fits ==
    ASSUME NEW t \in AllCalls \cup {"SYSCALL_RET"}, NEW i1 \in {-1, 0, 1},
           NEW pid \in Slots \cup {0, NO_TASK}
    PROVE  /\ Body(t, i1, pid) \in Bodies
           /\ Body(t, i1, pid).type = t /\ Body(t, i1, pid).i1 = i1
           /\ Body(t, i1, pid).pid = pid
BY LifeMessagesAssumption DEF AllCalls, Slots, Body

LEMMA FlagNames ==
    ASSUME TypeOK, Fields, NEW p \in Procs
    PROVE  /\ p_flags[p] \subseteq Flags
           /\ Free(p) => ~Sending(p) /\ ~Receiving(p) /\ ~Waiting(p) /\ ~Hanging(p)
           /\ Runnable(p) <=> /\ ~Sending(p) /\ ~Receiving(p) /\ ~Waiting(p)
                              /\ ~Hanging(p) /\ ~Free(p)
<1>1. p_flags[p] \subseteq Flags /\ ("FREE_SLOT" \in p_flags[p] => Free(p))
  BY DEF TypeOK, Fields, FieldsOf
<1>. QED
  BY <1>1 DEF Flags, Free, Runnable, Sending, Receiving, Waiting, Hanging

-----------------------------------------------------------------------------
(* What a kernel call does to the table, WAITING and HANGING included      *)

\* The marks that MM sets, and the dead, are left alone.
Unmarked ==
    \A x \in Procs : /\ Waiting(x)' <=> Waiting(x)
                     /\ Hanging(x)' <=> Hanging(x)
                     /\ Free(x)' <=> Free(x)
                     /\ Dead(x)' <=> Dead(x)

LEMMA SendDeliversLinked ==
    ASSUME Linked, NEW p \in Procs, NEW d \in Procs, NEW b \in Bodies,
           SendDelivers(p, d, b)
    PROVE  Linked' /\ Unmarked /\ Delivered(p, d, b)
<1>1. /\ TypeOK /\ Fields /\ QueueIsSenders
      /\ p # d /\ Runnable(p) /\ ~Free(d) /\ ~panicked /\ ~panicked'
      /\ Accepts(d, p) /\ Receiving(d) /\ p_recvfrom[d] \in {p, ANY}
  BY DEF Linked, SendDelivers, sys_sendrec, Accepts
<1>2. ~Sending(p) /\ ~Receiving(p) /\ ~Sending(d) /\ "FREE_SLOT" \notin p_flags[d]
      /\ p_recvfrom[d] # NO_TASK
  BY <1>1, FlagNames, IpcAssumption DEF Fields, FieldsOf
<1>3. ASSUME NEW x \in Procs
      PROVE  /\ p_flags'[x] = IF x = d THEN p_flags[d] \ {"RECEIVING"} ELSE p_flags[x]
             /\ p_recvfrom'[x] = IF x = d THEN NO_TASK ELSE p_recvfrom[x]
             /\ p_msg'[x] <=> p_msg[x] /\ x # d
             /\ buf'[x] = IF x \in {p, d} THEN [source |-> p, body |-> b] ELSE buf[x]
             /\ p_sendto' = p_sendto /\ has_int_msg' = has_int_msg /\ q_sending' = q_sending
  BY <1>1 DEF SendDelivers, TypeOK
<1>4. ASSUME NEW x \in Procs
      PROVE  /\ Sending(x)' <=> Sending(x)
             /\ Receiving(x)' <=> Receiving(x) /\ x # d
             /\ Waiting(x)' <=> Waiting(x)
             /\ Hanging(x)' <=> Hanging(x)
             /\ "FREE_SLOT" \in p_flags'[x] <=> "FREE_SLOT" \in p_flags[x]
             /\ Free(x)' <=> Free(x)
             /\ x # d => p_flags'[x] = p_flags[x]
  BY <1>1, <1>2, <1>3 DEF Sending, Receiving, Waiting, Hanging, Free
<1>5. TypeOK'
  BY <1>1 DEF SendDelivers, TypeOK, Message
<1>6. Fields'
  <2>. SUFFICES ASSUME NEW x \in Procs  PROVE FieldsOf(x)'
    BY DEF Fields
  <2>1. FieldsOf(x)
    BY <1>1 DEF Fields
  <2>. QED  BY <1>1, <1>2, <1>3, <1>4, <2>1 DEF FieldsOf
<1>7. QueueIsSenders'
  <2>. SUFFICES ASSUME NEW e \in Procs
                PROVE  /\ NoRepeat(q_sending'[e])
                       /\ \A x \in Procs : Lists(q_sending'[e], x)
                                              <=> Sending(x)' /\ p_sendto'[x] = e
    BY DEF QueueIsSenders
  <2>. QED  BY <1>1, <1>3, <1>4 DEF QueueIsSenders
<1>8. Unmarked
  BY <1>1, <1>2, <1>3, <1>4 DEF Unmarked, Dead
<1>9. Delivered(p, d, b)
  BY <1>1, <1>3, <1>4 DEF Delivered, SendDelivers
<1>. QED  BY <1>5, <1>6, <1>7, <1>8, <1>9 DEF Linked

LEMMA SendBlocksLinked ==
    ASSUME Linked, NEW p \in Procs, NEW d \in Procs, NEW b \in Bodies,
           SendBlocks(p, d, b)
    PROVE  Linked' /\ Unmarked /\ Queued(p, d, b)
<1>1. /\ TypeOK /\ Fields /\ QueueIsSenders
      /\ p # d /\ Runnable(p) /\ ~Free(d) /\ ~panicked /\ ~panicked' /\ ~Accepts(d, p)
  BY DEF Linked, SendBlocks, sys_sendrec
<1>2. p_flags[p] = {} /\ ~Sending(p) /\ ~Receiving(p) /\ ~Free(p) /\ p_sendto[p] = NO_TASK
  BY <1>1, FlagNames DEF Fields, FieldsOf, Runnable
<1>3. ASSUME NEW x \in Procs
      PROVE  /\ p_flags'[x] = IF x = p THEN p_flags[p] \cup {"SENDING"} ELSE p_flags[x]
             /\ p_sendto'[x] = IF x = p THEN d ELSE p_sendto[x]
             /\ p_msg'[x] <=> p_msg[x] \/ x = p
             /\ buf'[x] = IF x = p THEN [source |-> p, body |-> b] ELSE buf[x]
             /\ q_sending'[x] = IF x = d THEN Append(q_sending[d], p) ELSE q_sending[x]
             /\ p_recvfrom' = p_recvfrom /\ has_int_msg' = has_int_msg
  BY <1>1 DEF SendBlocks, TypeOK
<1>4. ASSUME NEW x \in Procs
      PROVE  /\ Sending(x)' <=> Sending(x) \/ x = p
             /\ Receiving(x)' <=> Receiving(x)
             /\ Waiting(x)' <=> Waiting(x)
             /\ Hanging(x)' <=> Hanging(x)
             /\ "FREE_SLOT" \in p_flags'[x] <=> "FREE_SLOT" \in p_flags[x]
             /\ Free(x)' <=> Free(x)
  BY <1>1, <1>2, <1>3 DEF Sending, Receiving, Waiting, Hanging, Free
<1>5. /\ Append(q_sending[d], p) \in Seq(Procs)
      /\ NoRepeat(Append(q_sending[d], p))
      /\ \A y : Lists(Append(q_sending[d], p), y) <=> y = p \/ Lists(q_sending[d], y)
  <2>1. ~Lists(q_sending[d], p) /\ NoRepeat(q_sending[d]) /\ q_sending[d] \in Seq(Procs)
    BY <1>1, <1>2 DEF TypeOK, QueueIsSenders
  <2>. QED  BY <2>1, AppendMembers
<1>6. TypeOK'
  BY <1>1, <1>5 DEF SendBlocks, TypeOK, Message, Flags
<1>7. Fields'
  <2>. SUFFICES ASSUME NEW x \in Procs  PROVE FieldsOf(x)'
    BY DEF Fields
  <2>1. FieldsOf(x)
    BY <1>1 DEF Fields
  <2>. QED  BY <1>1, <1>2, <1>3, <1>4, <2>1 DEF FieldsOf
<1>8. QueueIsSenders'
  <2>. SUFFICES ASSUME NEW e \in Procs
                PROVE  /\ NoRepeat(q_sending'[e])
                       /\ \A x \in Procs : Lists(q_sending'[e], x)
                                              <=> Sending(x)' /\ p_sendto'[x] = e
    BY DEF QueueIsSenders
  <2>. QED  BY <1>1, <1>2, <1>3, <1>4, <1>5 DEF QueueIsSenders
<1>9. Unmarked
  BY <1>1, <1>2, <1>3, <1>4 DEF Unmarked, Dead
<1>10. Queued(p, d, b)
  BY <1>1, <1>3, <1>4 DEF Queued, SendBlocks
<1>. QED  BY <1>6, <1>7, <1>8, <1>9, <1>10 DEF Linked

LEMMA SendLinked ==
    ASSUME Linked, NEW p \in Procs, NEW d \in Procs, NEW b \in Bodies,
           msg_send(p, d, b), ~deadlock(p, d)
    PROVE  /\ Linked' /\ Unmarked /\ ~panicked' /\ p # d
           /\ ~Sending(p) /\ ~Receiving(p)
           /\ Delivered(p, d, b) \/ Queued(p, d, b)
<1>1. SendDelivers(p, d, b) \/ SendBlocks(p, d, b)
  BY DEF msg_send, SendPanics
<1>2. Linked' /\ Unmarked /\ (Delivered(p, d, b) \/ Queued(p, d, b))
  BY <1>1, SendDeliversLinked, SendBlocksLinked
<1>3. Runnable(p) /\ p # d
  BY <1>1 DEF SendDelivers, SendBlocks, sys_sendrec
<1>. QED  BY <1>2, <1>3 DEF Delivered, Queued, Runnable, Sending, Receiving

LEMMA ReceiveFromLinked ==
    ASSUME Linked, NEW p \in Procs, NEW src \in Procs \cup {ANY},
           NEW from \in Procs, ReceiveFrom(p, src, from)
    PROVE  Linked' /\ Unmarked /\ Took(p, src, from) /\ p # from
<1>1. /\ TypeOK /\ Fields /\ QueueIsSenders
      /\ Runnable(p) /\ ~panicked /\ ~panicked' /\ Offers(p, src, from)
  BY DEF Linked, ReceiveFrom, sys_sendrec
<1>2. Lists(q_sending[p], from) /\ src \in {ANY, from}
  <2>1. q_sending[p] \in Seq(Procs)
    BY <1>1 DEF TypeOK
  <2>. QED  BY <1>1, <2>1 DEF Offers, Lists, QueueIsSenders
<1>3. Sending(from) /\ p_sendto[from] = p /\ p # from /\ ~Receiving(from)
      /\ "FREE_SLOT" \notin p_flags[from]
  <2>1. Sending(from) /\ p_sendto[from] = p
    BY <1>1, <1>2 DEF QueueIsSenders
  <2>. QED  BY <1>1, <2>1, FlagNames DEF Fields, FieldsOf, Runnable, Sending
<1>4. ASSUME NEW x \in Procs
      PROVE  /\ p_flags'[x] = IF x = from THEN p_flags[from] \ {"SENDING"} ELSE p_flags[x]
             /\ p_sendto'[x] = IF x = from THEN NO_TASK ELSE p_sendto[x]
             /\ p_msg'[x] <=> p_msg[x] /\ x # from
             /\ buf'[x] = IF x = p THEN buf[from] ELSE buf[x]
             /\ q_sending'[x] = IF x = p THEN Without(q_sending[p], from) ELSE q_sending[x]
             /\ p_recvfrom' = p_recvfrom /\ has_int_msg' = has_int_msg
  BY <1>1 DEF ReceiveFrom, TypeOK
<1>5. ASSUME NEW x \in Procs
      PROVE  /\ Sending(x)' <=> Sending(x) /\ x # from
             /\ Receiving(x)' <=> Receiving(x)
             /\ Waiting(x)' <=> Waiting(x)
             /\ Hanging(x)' <=> Hanging(x)
             /\ "FREE_SLOT" \in p_flags'[x] <=> "FREE_SLOT" \in p_flags[x]
             /\ Free(x)' <=> Free(x)
  BY <1>1, <1>3, <1>4 DEF Sending, Receiving, Waiting, Hanging, Free
<1>6. /\ Without(q_sending[p], from) \in Seq(Procs)
      /\ NoRepeat(Without(q_sending[p], from))
      /\ \A y : Lists(Without(q_sending[p], from), y) <=> y # from /\ Lists(q_sending[p], y)
  <2>1. q_sending[p] \in Seq(Procs) /\ NoRepeat(q_sending[p])
    BY <1>1 DEF TypeOK, QueueIsSenders
  <2>. QED  BY <1>2, <2>1, WithoutMembers
<1>7. TypeOK'
  BY <1>1, <1>6 DEF ReceiveFrom, TypeOK
<1>8. Fields'
  <2>. SUFFICES ASSUME NEW x \in Procs  PROVE FieldsOf(x)'
    BY DEF Fields
  <2>1. FieldsOf(x)
    BY <1>1 DEF Fields
  <2>. QED  BY <1>1, <1>3, <1>4, <1>5, <2>1 DEF FieldsOf
<1>9. QueueIsSenders'
  <2>. SUFFICES ASSUME NEW e \in Procs
                PROVE  /\ NoRepeat(q_sending'[e])
                       /\ \A x \in Procs : Lists(q_sending'[e], x)
                                              <=> Sending(x)' /\ p_sendto'[x] = e
    BY DEF QueueIsSenders
  <2>. QED  BY <1>1, <1>3, <1>4, <1>5, <1>6, IpcAssumption DEF QueueIsSenders
<1>10. Unmarked
  BY <1>1, <1>4, <1>5 DEF Unmarked, Dead
<1>11. Took(p, src, from)
  BY <1>1, <1>2, <1>3, <1>4, <1>5 DEF Took
<1>. QED  BY <1>3, <1>7, <1>8, <1>9, <1>10, <1>11 DEF Linked

LEMMA ReceiveBlocksLinked ==
    ASSUME Linked, NEW p \in Procs, NEW src \in Procs \cup {ANY}, ReceiveBlocks(p, src)
    PROVE  Linked' /\ Unmarked /\ Waits(p, src)
<1>1. /\ TypeOK /\ Fields /\ QueueIsSenders /\ Runnable(p) /\ ~panicked /\ ~panicked'
      /\ \A from \in Procs : ~Offers(p, src, from)
  BY DEF Linked, ReceiveBlocks, sys_sendrec
<1>2. p_flags[p] = {} /\ ~Sending(p) /\ ~Receiving(p) /\ ~Free(p) /\ src # NO_TASK
      /\ p_recvfrom[p] = NO_TASK
  BY <1>1, FlagNames, IpcAssumption DEF Fields, FieldsOf, Runnable
<1>3. ASSUME NEW x \in Procs
      PROVE  /\ p_flags'[x] = IF x = p THEN p_flags[p] \cup {"RECEIVING"} ELSE p_flags[x]
             /\ p_recvfrom'[x] = IF x = p THEN src ELSE p_recvfrom[x]
             /\ p_msg'[x] <=> p_msg[x] \/ x = p
             /\ buf'[x] = IF x = p THEN [source |-> p, body |-> EMPTY] ELSE buf[x]
             /\ p_sendto' = p_sendto /\ has_int_msg' = has_int_msg /\ q_sending' = q_sending
  BY <1>1 DEF ReceiveBlocks, TypeOK
<1>4. ASSUME NEW x \in Procs
      PROVE  /\ Sending(x)' <=> Sending(x)
             /\ Receiving(x)' <=> Receiving(x) \/ x = p
             /\ Waiting(x)' <=> Waiting(x)
             /\ Hanging(x)' <=> Hanging(x)
             /\ "FREE_SLOT" \in p_flags'[x] <=> "FREE_SLOT" \in p_flags[x]
             /\ Free(x)' <=> Free(x)
  BY <1>1, <1>2, <1>3 DEF Sending, Receiving, Waiting, Hanging, Free
<1>5. TypeOK'
  BY <1>1 DEF ReceiveBlocks, TypeOK, Message, Flags, Sources
<1>6. Fields'
  <2>. SUFFICES ASSUME NEW x \in Procs  PROVE FieldsOf(x)'
    BY DEF Fields
  <2>1. FieldsOf(x)
    BY <1>1 DEF Fields
  <2>. QED  BY <1>1, <1>2, <1>3, <1>4, <2>1 DEF FieldsOf
<1>7. QueueIsSenders'
  <2>. SUFFICES ASSUME NEW e \in Procs
                PROVE  /\ NoRepeat(q_sending'[e])
                       /\ \A x \in Procs : Lists(q_sending'[e], x)
                                              <=> Sending(x)' /\ p_sendto'[x] = e
    BY DEF QueueIsSenders
  <2>. QED  BY <1>1, <1>3, <1>4 DEF QueueIsSenders
<1>8. Unmarked
  BY <1>1, <1>2, <1>3, <1>4 DEF Unmarked, Dead
<1>9. ASSUME NEW from \in Procs, src \in {ANY, from}, Sending(from), p_sendto[from] = p
      PROVE  FALSE
  <2>1. CASE src # ANY
    BY <1>1, <1>9, <2>1 DEF Offers
  <2>2. CASE src = ANY
    <3>1. Lists(q_sending[p], from) /\ q_sending[p] \in Seq(Procs)
      BY <1>1, <1>9 DEF QueueIsSenders, TypeOK
    <3>2. q_sending[p] # <<>> /\ Head(q_sending[p]) \in Procs
      BY <3>1 DEF Lists
    <3>. QED  BY <1>1, <2>2, <3>2 DEF Offers
  <2>. QED  BY <2>1, <2>2
<1>10. Waits(p, src)
  BY <1>3, <1>4, <1>9 DEF Waits
<1>. QED  BY <1>5, <1>6, <1>7, <1>8, <1>10 DEF Linked

LEMMA ReceiveLinked ==
    ASSUME Linked, NEW p \in Procs, NEW src \in Procs \cup {ANY}, msg_receive(p, src)
    PROVE  /\ Linked' /\ Unmarked /\ ~panicked' /\ p # src
           /\ ~Sending(p) /\ ~Receiving(p)
           /\ Waits(p, src) \/ \E from \in Procs : from # p /\ Took(p, src, from)
<1>1. ~ReceiveInt(p, src)
  BY DEF ReceiveInt, IntReady, Linked, Fields, FieldsOf
<1>2. \/ \E from \in Procs : ReceiveFrom(p, src, from)
      \/ ReceiveBlocks(p, src)
  BY <1>1 DEF msg_receive
<1>3. sys_sendrec(p, src) /\ ~panicked'
  BY <1>2 DEF ReceiveFrom, ReceiveBlocks, sys_sendrec
<1>4. ~Sending(p) /\ ~Receiving(p) /\ p # src
  BY <1>3 DEF sys_sendrec, Runnable, Sending, Receiving
<1>5. CASE ReceiveBlocks(p, src)
  BY <1>3, <1>4, <1>5, ReceiveBlocksLinked
<1>6. CASE \E from \in Procs : ReceiveFrom(p, src, from)
  BY <1>3, <1>4, <1>6, ReceiveFromLinked
<1>. QED  BY <1>2, <1>5, <1>6

\* Nobody waits for the target, so abort_ipc releases only its senders.
LEMMA AbortLinked ==
    ASSUME Linked, NEW target \in Procs, abort_ipc(target),
           \A x \in Procs : ~(Receiving(x) /\ p_recvfrom[x] = target)
    PROVE  /\ Linked' /\ ~panicked' /\ buf' = buf /\ ~Free(target)
           /\ \A x \in Procs :
                 /\ Sending(x)' <=> Sending(x) /\ x # target /\ p_sendto[x] # target
                 /\ Sending(x)' => p_sendto'[x] = p_sendto[x]
                 /\ Receiving(x)' <=> Receiving(x) \/ x = target
                 /\ p_recvfrom'[x] = IF x = target THEN NO_TASK ELSE p_recvfrom[x]
                 /\ Waiting(x)' <=> Waiting(x) /\ x # target
                 /\ Hanging(x)' <=> Hanging(x) /\ x # target
                 /\ Free(x)' <=> Free(x)
                 /\ Dead(x)' <=> Dead(x) \/ x = target
<1>. DEFINE senders == {x \in Procs : Sending(x) /\ p_sendto[x] = target}
<1>1. TypeOK /\ Fields /\ QueueIsSenders /\ ~panicked' /\ ~Free(target)
  BY DEF Linked, abort_ipc
<1>2. AbortedReceivers(target) = {}
  BY DEF AbortedReceivers
<1>3. AbortedSenders(target) = senders /\ target \notin senders
  <2>1. /\ q_sending[target] \in Seq(Procs)
        /\ DOMAIN q_sending[target] = 1..Len(q_sending[target])
    BY <1>1 DEF TypeOK
  <2>2. \A x : x \in ToSet(q_sending[target]) <=> Lists(q_sending[target], x)
    BY <2>1 DEF ToSet, Lists
  <2>3. \A x : Lists(q_sending[target], x) => x \in Procs
    BY <2>1 DEF Lists
  <2>4. ToSet(q_sending[target]) = senders
    BY <1>1, <2>2, <2>3 DEF QueueIsSenders
  <2>. QED  BY <1>1, <2>4 DEF AbortedSenders, Fields, FieldsOf
<1>11. \A x \in Procs : x \in senders <=> Sending(x) /\ p_sendto[x] = target
  OBVIOUS
<1>. HIDE DEF senders
<1>4. ASSUME NEW x \in Procs
      PROVE  /\ p_flags'[x] = IF x = target THEN {"RECEIVING"}
                              ELSE IF x \in senders THEN p_flags[x] \ {"SENDING"}
                              ELSE p_flags[x]
             /\ p_sendto'[x] = IF x \in senders \cup {target} THEN NO_TASK ELSE p_sendto[x]
             /\ p_recvfrom'[x] = IF x = target THEN NO_TASK ELSE p_recvfrom[x]
             /\ p_msg'[x] <=> p_msg[x] /\ x \notin senders \cup {target}
             /\ has_int_msg'[x] => has_int_msg[x]
             /\ buf'[x] = buf[x]
             /\ q_sending'[x] = IF x = target THEN <<>>
                                ELSE IF Sending(target) /\ p_sendto[target] = x
                                     THEN Without(q_sending[x], target)
                                     ELSE q_sending[x]
  <2>1. p_flags'[x] = IF x = target THEN {"RECEIVING"}
                      ELSE IF x \in senders THEN p_flags[x] \ {"SENDING"}
                      ELSE p_flags[x]
    <3>1. p_flags'[x] = IF x = target THEN {"RECEIVING"}
                        ELSE p_flags[x] \ ((IF x \in senders THEN {"SENDING"} ELSE {}) \cup {})
      BY <1>2, <1>3 DEF abort_ipc
    <3>. QED  BY <3>1
  <2>2. p_msg'[x] = IF x \in senders \cup {} \cup {target} THEN FALSE ELSE p_msg[x]
    BY <1>2, <1>3 DEF abort_ipc
  <2>3. p_msg[x] \in BOOLEAN /\ has_int_msg \in [Procs -> BOOLEAN]
    BY <1>1 DEF TypeOK
  <2>4. p_msg'[x] <=> p_msg[x] /\ x \notin senders \cup {target}
    BY <2>2, <2>3
  <2>5. has_int_msg'[x] => has_int_msg[x]
    BY <2>3 DEF abort_ipc
  <2>. QED  BY <1>2, <1>3, <2>1, <2>4, <2>5 DEF abort_ipc
<1>5. ASSUME NEW x \in Procs
      PROVE  /\ Sending(x)' <=> Sending(x) /\ x # target /\ p_sendto[x] # target
             /\ Receiving(x)' <=> Receiving(x) \/ x = target
             /\ Waiting(x)' <=> Waiting(x) /\ x # target
             /\ Hanging(x)' <=> Hanging(x) /\ x # target
             /\ "FREE_SLOT" \in p_flags'[x] <=> "FREE_SLOT" \in p_flags[x] /\ x # target
             /\ Free(x)' <=> Free(x)
  <2>1. x \in senders => "FREE_SLOT" \notin p_flags[x]
    BY <1>1, <1>11 DEF Fields, FieldsOf, Free, Sending
  <2>2. CASE x = target
    <3>1. p_flags'[x] = {"RECEIVING"}
      BY <1>4, <2>2
    <3>2. ~Free(x)' /\ ~Free(x)
      BY <1>1, <2>2, <3>1 DEF Free
    <3>. QED  BY <2>2, <3>1, <3>2 DEF Sending, Receiving, Waiting, Hanging
  <2>3. CASE x # target
    <3>1. p_flags'[x] = IF x \in senders THEN p_flags[x] \ {"SENDING"} ELSE p_flags[x]
      BY <1>4, <2>3
    <3>2. x \in senders <=> Sending(x) /\ p_sendto[x] = target
      BY <1>11
    <3>. QED  BY <2>1, <2>3, <3>1, <3>2 DEF Sending, Receiving, Waiting, Hanging, Free
  <2>. QED  BY <2>2, <2>3
<1>6. ASSUME Sending(target)
      PROVE  LET q == q_sending[p_sendto[target]]
             IN  /\ p_sendto[target] \in Procs \ {target}
                 /\ Without(q, target) \in Seq(Procs)
                 /\ NoRepeat(Without(q, target))
                 /\ \A y : Lists(Without(q, target), y) <=> y # target /\ Lists(q, y)
  <2>1. /\ p_sendto[target] \in Procs \ {target}
        /\ q_sending[p_sendto[target]] \in Seq(Procs)
        /\ Lists(q_sending[p_sendto[target]], target)
        /\ NoRepeat(q_sending[p_sendto[target]])
    BY <1>1, <1>6 DEF TypeOK, Fields, FieldsOf, QueueIsSenders
  <2>. QED  BY <2>1, WithoutMembers
<1>8. buf' = buf
  <2>1. buf' = [x \in Procs |-> buf'[x]]
    BY DEF abort_ipc
  <2>2. buf = [x \in Procs |-> buf[x]]
    BY <1>1 DEF TypeOK
  <2>3. \A x \in Procs : buf'[x] = buf[x]
    BY <1>4
  <2>4. [x \in Procs |-> buf'[x]] = [x \in Procs |-> buf[x]]
    BY ONLY <2>3
  <2>. QED  BY ONLY <2>1, <2>2, <2>4
<1>7. TypeOK'
  <2>1. p_flags' \in [Procs -> SUBSET Flags]
    <3>1. DOMAIN p_flags' = Procs /\ p_flags' = [x \in Procs |-> p_flags'[x]]
      BY DEF abort_ipc
    <3>2. ASSUME NEW x \in Procs  PROVE p_flags'[x] \in SUBSET Flags
      <4>1. p_flags[x] \in SUBSET Flags /\ {"RECEIVING"} \in SUBSET Flags
        BY <1>1 DEF TypeOK, Flags
      <4>2. p_flags'[x] \in {{"RECEIVING"}, p_flags[x], p_flags[x] \ {"SENDING"}}
        BY <1>4
      <4>. QED  BY <4>1, <4>2
    <3>. QED  BY ONLY <3>1, <3>2
  <2>2. q_sending' \in [Procs -> Seq(Procs)]
    <3>1. q_sending' = [x \in Procs |-> q_sending'[x]]
      BY DEF abort_ipc
    <3>2. ASSUME NEW x \in Procs  PROVE q_sending'[x] \in Seq(Procs)
      <4>1. CASE x = target
        <5>1. q_sending'[x] = <<>>
          BY <1>4, <4>1
        <5>. QED  BY <5>1, EmptySeq
      <4>2. CASE x # target /\ Sending(target) /\ p_sendto[target] = x
        <5>1. q_sending'[x] = Without(q_sending[x], target)
          BY <1>4, <4>2
        <5>. QED  BY <1>6, <4>2, <5>1
      <4>3. CASE x # target /\ ~(Sending(target) /\ p_sendto[target] = x)
        <5>1. q_sending'[x] = q_sending[x]
          BY <1>4, <4>3
        <5>. QED  BY <1>1, <5>1 DEF TypeOK
      <4>. QED  BY <4>1, <4>2, <4>3
    <3>. QED  BY ONLY <3>1, <3>2
  <2>3. buf' \in [Procs -> Message]
    BY <1>1, <1>8 DEF TypeOK
  <2>. QED  BY <1>1, <2>1, <2>2, <2>3 DEF abort_ipc, TypeOK, Sources
<1>9. Fields'
  <2>. SUFFICES ASSUME NEW x \in Procs  PROVE FieldsOf(x)'
    BY DEF Fields
  <2>1. FieldsOf(x)
    BY <1>1 DEF Fields
  <2>2. x \in senders <=> Sending(x) /\ p_sendto[x] = target
    BY <1>11
  <2>. QED  BY <1>1, <1>4, <1>5, <2>1, <2>2 DEF FieldsOf
<1>10. QueueIsSenders'
  <2>. SUFFICES ASSUME NEW d \in Procs
                PROVE  /\ NoRepeat(q_sending'[d])
                       /\ \A x \in Procs : Lists(q_sending'[d], x)
                                              <=> Sending(x)' /\ p_sendto'[x] = d
    BY DEF QueueIsSenders
  <2>1. \A x \in Procs : Sending(x)' => p_sendto'[x] = p_sendto[x]
    BY <1>4, <1>5, <1>11
  <2>5. \A x \in Procs : Sending(x)' <=> Sending(x) /\ x # target /\ p_sendto[x] # target
    BY <1>5
  <2>2. CASE d = target
    <3>1. q_sending'[d] = <<>>
      BY <1>4, <2>2
    <3>. QED  BY <2>1, <2>2, <2>5, <3>1 DEF Lists, NoRepeat
  <2>6. NoRepeat(q_sending[d]) /\ \A x \in Procs : Lists(q_sending[d], x)
                                                  <=> Sending(x) /\ p_sendto[x] = d
    BY <1>1 DEF QueueIsSenders
  <2>3. CASE d # target /\ Sending(target) /\ p_sendto[target] = d
    <3>1. q_sending'[d] = Without(q_sending[d], target)
      BY <1>4, <2>3
    <3>2. NoRepeat(q_sending'[d]) /\ \A y : Lists(q_sending'[d], y)
                                            <=> y # target /\ Lists(q_sending[d], y)
      BY <1>6, <2>3, <3>1
    <3>. QED  BY <2>1, <2>3, <2>5, <2>6, <3>2
  <2>4. CASE d # target /\ ~(Sending(target) /\ p_sendto[target] = d)
    <3>1. q_sending'[d] = q_sending[d]
      BY <1>4, <2>4
    <3>. QED  BY <2>1, <2>4, <2>5, <2>6, <3>1
  <2>. QED  BY <2>2, <2>3, <2>4
<1>. QED  BY <1>1, <1>4, <1>5, <1>7, <1>8, <1>9, <1>10, <1>11 DEF Linked, Dead

\* Assignments to p_flags that leave the kernel's bits alone, or end a dead
\* process.
LEMMA FlagsLinked ==
    ASSUME Linked, OnlyFlags, p_flags' \in [Procs -> SUBSET Flags],
           \A x \in Procs : /\ Sending(x)' <=> Sending(x)
                            /\ (Receiving(x)' <=> Receiving(x)) \/ Dead(x)
                            /\ "FREE_SLOT" \in p_flags'[x] => Free(x)'
    PROVE  Linked'
<1>1. TypeOK /\ Fields /\ QueueIsSenders
  BY DEF Linked
<1>2. TypeOK'
  BY <1>1 DEF TypeOK, OnlyFlags
<1>3. Fields'
  <2>. SUFFICES ASSUME NEW x \in Procs  PROVE FieldsOf(x)'
    BY DEF Fields
  <2>1. FieldsOf(x)
    BY <1>1 DEF Fields
  <2>. QED  BY <2>1 DEF FieldsOf, OnlyFlags, Dead
<1>4. QueueIsSenders'
  <2>. SUFFICES ASSUME NEW e \in Procs
                PROVE  /\ NoRepeat(q_sending'[e])
                       /\ \A x \in Procs : Lists(q_sending'[e], x)
                                              <=> Sending(x)' /\ p_sendto'[x] = e
    BY DEF QueueIsSenders
  <2>. QED  BY <1>1 DEF QueueIsSenders, OnlyFlags
<1>. QED  BY <1>2, <1>3, <1>4 DEF Linked

LEMMA SameLinked ==
    ASSUME Linked, UNCHANGED vars
    PROVE  Linked' /\ Unmarked
<1>1. TypeOK' /\ QueueIsSenders'
  BY DEF Linked, TypeOK, QueueIsSenders, vars, Sending
<1>2. Fields'
  BY DEF Linked, Fields, FieldsOf, vars, Sending, Receiving, Free
<1>. QED  BY <1>1, <1>2 DEF Linked, Unmarked, Waiting, Hanging, Free, Dead, Receiving, vars

-----------------------------------------------------------------------------
(* What the invariant says of one process                                  *)

LEMMA UserBlocked ==
    ASSUME LifeInv, NEW u \in Users
    PROVE  /\ asked[u] \in AllCalls /\ Callee(asked[u]) \in Servers \cup {MM}
           /\ at[u] \in UserLocs
           /\ Sending(u) => /\ at[u] = "sent" /\ p_sendto[u] = Callee(asked[u])
                            /\ buf[u].source = u /\ buf[u].body.type = asked[u]
                            /\ buf[u].body.i1 = Status(asked[u])
                            /\ ~Receiving(u) /\ ~Waiting(u) /\ ~Dead(u)
           /\ Receiving(u) => \/ /\ at[u] = "run" /\ p_recvfrom[u] = Callee(asked[u])
                                 /\ ~Dead(u)
                              \/ u \in Slots /\ at[u] = "gone" /\ Dead(u)
           /\ Dead(u) => at[u] = "gone" /\ u \in Slots
<1>1. /\ asked[u] \in AllCalls /\ at[u] \in UserLocs /\ u \in Procs
      /\ u \notin Servers /\ u # MM
      /\ Sending(u) => SendsFor(u) /\ ~Receiving(u)
      /\ Receiving(u) => ReceivesFor(u)
      /\ Waiting(u) => Served(MM, u)
  BY Names DEF LifeInv, Linked, Fields, FieldsOf, Typed, Placed, BlockedFor
<1>2. Callee(asked[u]) \in Servers \cup {MM}
  BY <1>1, CalleeIs
<1>3. Callee(asked[u]) # NO_TASK
  BY <1>2, Names
<1>4. Sending(u) => ~Waiting(u)
  BY <1>1 DEF Served
<1>. QED  BY <1>1, <1>2, <1>3, <1>4 DEF SendsFor, ReceivesFor, Dead

LEMMA ServerBlocked ==
    ASSUME LifeInv, NEW s \in Servers
    PROVE  /\ at[s] \in ServerLocs
           /\ Sending(s) => /\ at[s] = "loop" /\ p_sendto[s] \in Users \cup {MM}
                            /\ Has(s, p_sendto[s]) /\ buf[s].source = s
                            /\ ~Receiving(s)
           /\ Receiving(s) => at[s] = "serve" /\ p_recvfrom[s] = ANY /\ ~Sending(s)
           /\ ~Waiting(s) /\ ~Dead(s) /\ ~Free(s)
<1>1. /\ s \in Procs /\ s \notin Users /\ s # MM /\ s \notin Slots /\ s \in Native
      /\ Sending(s) => SendsFor(s) /\ ~Receiving(s)
      /\ Receiving(s) => ReceivesFor(s)
      /\ at[s] \in ServerLocs
      /\ ~Waiting(s) /\ ~Free(s)
  BY Names DEF LifeInv, Linked, Fields, FieldsOf, Placed, BlockedFor
<1>. QED  BY <1>1, Names DEF SendsFor, ReceivesFor, Has, Dead

LEMMA MMBlocked ==
    ASSUME LifeInv
    PROVE  /\ at[MM] \in MMLocs
           /\ Sending(MM) => /\ ~Receiving(MM) /\ buf[MM].source = MM
                             /\ \/ at[MM] \in {"fork_fs", "exit_fs"} /\ p_sendto[MM] = FS
                                \/ /\ at[MM] \in {"reply", "release", "loop"}
                                   /\ p_sendto[MM] \in Users
           /\ Receiving(MM) => /\ ~Sending(MM)
                               /\ \/ at[MM] = "handle" /\ p_recvfrom[MM] = ANY
                                  \/ at[MM] \in {"birth", "reap"} /\ p_recvfrom[MM] = FS
           /\ ~Waiting(MM) /\ ~Dead(MM) /\ ~Free(MM)
<1>1. /\ MM \in Procs /\ MM \notin Users /\ MM \notin Servers /\ MM \notin Slots
      /\ MM \in Native
      /\ Sending(MM) => SendsFor(MM) /\ ~Receiving(MM)
      /\ Receiving(MM) => ReceivesFor(MM)
      /\ at[MM] \in MMLocs
      /\ ~Waiting(MM) /\ ~Free(MM)
  BY Names DEF LifeInv, Linked, Fields, FieldsOf, Placed, BlockedFor
<1>. QED  BY <1>1, Names DEF SendsFor, ReceivesFor, Dead

\* Whoever waits for an answer is there to receive it.
LEMMA ServedIs ==
    ASSUME LifeInv, NEW u \in Users, NEW s, Served(s, u)
    PROVE  /\ s = Callee(asked[u]) /\ s \in Servers \cup {MM}
           /\ ~Sending(u) /\ ~Dead(u) /\ ~Free(u) /\ at[u] # "gone"
           /\ Receiving(u) => p_recvfrom[u] = s
<1>1. \/ at[u] = "sent" /\ ~Sending(u)
      \/ at[u] = "run" /\ Receiving(u)
  BY DEF Served
<1>2. s = Callee(asked[u]) /\ s \in Servers \cup {MM}
  BY UserBlocked DEF Served
<1>3. u \in Procs /\ (at[u] = "sent" => ~Free(u)) /\ (Receiving(u) => ~Free(u))
  BY Names, FlagNames DEF LifeInv, Placed, Linked
<1>. QED  BY <1>1, <1>2, <1>3, UserBlocked

\* A process that runs, or is about to make its call, is answered by nobody.
LEMMA RunningUnserved ==
    ASSUME LifeInv, NEW u \in Users, Here(u, "run")
    PROVE  /\ \A s : ~Served(s, u)
           /\ \A s \in Servers : ~Has(s, u)
           /\ \A x \in Procs : Sending(x) => p_sendto[x] # u
<1>1. ~Receiving(u) /\ at[u] = "run" /\ ~Dead(u)
  BY DEF Here, Runnable, Receiving, Dead
<1>2. \A s : ~Served(s, u)
  BY <1>1 DEF Served
<1>3. \A s \in Servers : ~Has(s, u)
  BY <1>1, <1>2 DEF LifeInv, Service
<1>4. ASSUME NEW x \in Procs, Sending(x), p_sendto[x] = u  PROVE FALSE
  <2>1. SendsFor(x)
    BY <1>4 DEF LifeInv, BlockedFor
  <2>2. x \notin Users
    BY <1>4, UserBlocked, Names
  <2>3. x \notin Servers
    BY <1>3, <1>4, ServerBlocked
  <2>4. x = MM /\ at[MM] \in {"reply", "release", "loop"}
    BY <1>4, <2>1, <2>2, <2>3, Names DEF SendsFor
  <2>5. Served(MM, u)
    BY <1>4, <2>4 DEF LifeInv, Replying, Replied, Reaping, ServedFor
  <2>. QED  BY <1>2, <2>5
<1>. QED  BY <1>2, <1>3, <1>4

\* MM sends only to FS and to whom it serves.
LEMMA MMAnswers ==
    ASSUME LifeInv, Sending(MM), p_sendto[MM] \in Users
    PROVE  \E call \in {"FORK", "KILL", "WAIT"} : ServedFor(p_sendto[MM], call)
BY MMBlocked, Names DEF LifeInv, Replying, Replied, Reaping

-----------------------------------------------------------------------------
(* No send of this system is refused for a deadlock                        *)

LEMMA IdleTarget ==
    ASSUME NEW p \in Procs, NEW d \in Procs, p # d, ~Sending(d)
    PROVE  ~deadlock(p, d)
<1>1. {d} \in SUBSET Procs /\ d \in {d} /\ p \notin {d}
      /\ \A x \in {d} : Sending(x) => p_sendto[x] \in {d}
  OBVIOUS
<1>. QED  BY <1>1 DEF deadlock

LEMMA NobodySends ==
    ASSUME Linked, NEW p \in Procs, NEW d \in Procs, p # d,
           \A x \in Procs : Sending(x) => p_sendto[x] # p
    PROVE  ~deadlock(p, d)
<1>. DEFINE S == Procs \ {p}
<1>1. \A x \in S : Sending(x) => p_sendto[x] \in S
  BY DEF Linked, Fields, FieldsOf
<1>2. S \in SUBSET Procs /\ d \in S /\ p \notin S
  OBVIOUS
<1>. HIDE DEF S
<1>. QED  BY <1>1, <1>2 DEF deadlock

\* FS may be sending, but then to a process that does not send.
LEMMA FSReachable ==
    ASSUME LifeInv, at[MM] \in {"fork", "exit"}
    PROVE  ~deadlock(MM, FS)
<1>1. FS \in Servers /\ FS \in Procs /\ MM \in Procs /\ FS # MM /\ MM \notin Users
  BY Names
<1>2. CASE ~Sending(FS)
  BY <1>1, <1>2, IdleTarget
<1>3. CASE Sending(FS)
  <2>. DEFINE v == p_sendto[FS]
  <2>1. v \in Users \cup {MM} /\ Has(FS, v)
    BY <1>1, <1>3, ServerBlocked
  <2>2. v # MM
    BY <1>1, <2>1 DEF LifeInv, Service, MMAwaits
  <2>3. v \in Users /\ v \in Procs
    BY <2>1, <2>2, Names
  <2>4. Served(FS, v) \/ Dead(v)
    BY <1>1, <2>1, <2>3 DEF LifeInv, Service
  <2>5. ~Sending(v)
    BY <2>3, <2>4, ServedIs, UserBlocked
  <2>6. MM \notin {FS, v} /\ {FS, v} \in SUBSET Procs /\ FS \in {FS, v}
    BY <1>1, <2>2, <2>3
  <2>7. \A x \in {FS, v} : Sending(x) => p_sendto[x] \in {FS, v}
    BY <2>5
  <2>. QED  BY <2>6, <2>7 DEF deadlock
<1>. QED  BY <1>2, <1>3

-----------------------------------------------------------------------------
(* One step of one program                                                 *)

\* p goes to loc, the others stay.
Moved(p, loc) == at'[p] = loc /\ \A x \in Procs : x # p => at'[x] = at[x]

LEMMA Goes ==
    ASSUME Typed, NEW p \in Procs, NEW loc \in Locs, GoTo(p, loc)
    PROVE  Moved(p, loc) /\ at' \in [Procs -> Locs]
BY DEF Typed, GoTo, Moved

\* What p sends, and whether it blocks, is a matter between p and d.
LEMMA SendStep ==
    ASSUME LifeInv, NEW p \in Procs, NEW d \in Procs, NEW b \in Bodies, NEW loc,
           Moved(p, loc), msg_send(p, d, b), ~deadlock(p, d),
           \A x \in Users : x # p => asked'[x] = asked[x],
           Queued(p, d, b) => SendsFor(p)'
    PROVE  /\ Linked' /\ Unmarked /\ ~panicked' /\ BlockedFor' /\ p # d
           /\ ~Sending(p) /\ ~Receiving(p)
           /\ Delivered(p, d, b) \/ Queued(p, d, b)
<1>1. /\ Linked' /\ Unmarked /\ ~panicked' /\ p # d /\ ~Sending(p) /\ ~Receiving(p)
      /\ Delivered(p, d, b) \/ Queued(p, d, b)
  BY SendLinked DEF LifeInv
<1>2. ASSUME NEW x \in Procs
      PROVE  (Sending(x)' => SendsFor(x)') /\ (Receiving(x)' => ReceivesFor(x)')
  <2>1. /\ Sending(x) => SendsFor(x) /\ ~Receiving(x)
        /\ Receiving(x) => ReceivesFor(x)
    BY DEF LifeInv, Linked, Fields, FieldsOf, BlockedFor
  <2>2. x # p => at'[x] = at[x] /\ (x \in Users => asked'[x] = asked[x])
    BY DEF Moved
  <2>3. CASE Delivered(p, d, b)
    <3>1. /\ Sending(x)' <=> Sending(x)
          /\ Receiving(x)' <=> Receiving(x) /\ x # d
          /\ x # d => p_recvfrom'[x] = p_recvfrom[x]
          /\ x \notin {p, d} => buf'[x] = buf[x]
          /\ p_sendto'[x] = p_sendto[x] /\ Receiving(d)
      BY <2>3 DEF Delivered, Accepts
    <3>2. Sending(x)' => Sending(x) /\ x \notin {p, d}
      BY <1>1, <2>1, <3>1
    <3>3. Receiving(x)' => Receiving(x) /\ x \notin {p, d}
      BY <1>1, <3>1
    <3>4. Sending(x)' => SendsFor(x)'
      BY <2>1, <2>2, <3>1, <3>2 DEF SendsFor
    <3>. QED  BY <2>1, <2>2, <3>1, <3>3, <3>4 DEF ReceivesFor
  <2>4. CASE Queued(p, d, b)
    <3>1. /\ Sending(x)' <=> Sending(x) \/ x = p
          /\ Receiving(x)' <=> Receiving(x)
          /\ x # p => p_sendto'[x] = p_sendto[x] /\ buf'[x] = buf[x]
          /\ p_recvfrom'[x] = p_recvfrom[x]
      BY <2>4 DEF Queued
    <3>2. CASE x = p
      BY <1>1, <2>4, <3>1, <3>2
    <3>3. CASE x # p
      <4>1. Sending(x)' => SendsFor(x)'
        BY <2>1, <2>2, <3>1, <3>3 DEF SendsFor
      <4>. QED  BY <2>1, <2>2, <3>1, <3>3, <4>1 DEF ReceivesFor
    <3>. QED  BY <3>2, <3>3
  <2>. QED  BY <1>1, <2>3, <2>4
<1>. QED  BY <1>1, <1>2 DEF BlockedFor

LEMMA ReceiveStep ==
    ASSUME LifeInv, NEW p \in Procs, NEW src \in Procs \cup {ANY}, NEW loc,
           Moved(p, loc), msg_receive(p, src), asked' = asked,
           Waits(p, src) => ReceivesFor(p)'
    PROVE  /\ Linked' /\ Unmarked /\ ~panicked' /\ BlockedFor' /\ p # src
           /\ ~Sending(p) /\ ~Receiving(p)
           /\ Waits(p, src) \/ \E from \in Procs : from # p /\ Took(p, src, from)
<1>1. /\ Linked' /\ Unmarked /\ ~panicked' /\ p # src /\ ~Sending(p) /\ ~Receiving(p)
      /\ Waits(p, src) \/ \E from \in Procs : from # p /\ Took(p, src, from)
  BY ReceiveLinked DEF LifeInv
<1>2. ASSUME NEW x \in Procs
      PROVE  (Sending(x)' => SendsFor(x)') /\ (Receiving(x)' => ReceivesFor(x)')
  <2>1. /\ Sending(x) => SendsFor(x)
        /\ Receiving(x) => ReceivesFor(x)
    BY DEF LifeInv, BlockedFor
  <2>2. x # p => at'[x] = at[x]
    BY DEF Moved
  <2>3. CASE Waits(p, src)
    <3>1. /\ Sending(x)' <=> Sending(x)
          /\ Receiving(x)' <=> Receiving(x) \/ x = p
          /\ x # p => p_recvfrom'[x] = p_recvfrom[x] /\ buf'[x] = buf[x]
          /\ p_sendto'[x] = p_sendto[x]
      BY <2>3 DEF Waits
    <3>2. CASE x = p
      BY <1>1, <2>3, <3>1, <3>2
    <3>3. CASE x # p
      <4>1. Sending(x)' => SendsFor(x)'
        BY <2>1, <2>2, <3>1, <3>3 DEF SendsFor
      <4>. QED  BY <2>1, <2>2, <3>1, <3>3, <4>1 DEF ReceivesFor
    <3>. QED  BY <3>2, <3>3
  <2>4. CASE \E from \in Procs : from # p /\ Took(p, src, from)
    <3>0. PICK from \in Procs : from # p /\ Took(p, src, from)
      BY <2>4
    <3>1. /\ Sending(x)' <=> Sending(x) /\ x # from
          /\ Receiving(x)' <=> Receiving(x)
          /\ x # from => p_sendto'[x] = p_sendto[x]
          /\ x # p => buf'[x] = buf[x]
          /\ p_recvfrom'[x] = p_recvfrom[x]
      BY <3>0 DEF Took
    <3>2. x = p => ~Sending(x)' /\ ~Receiving(x)'
      BY <1>1, <3>1
    <3>3. Sending(x)' => SendsFor(x)'
      BY <2>1, <2>2, <3>1, <3>2 DEF SendsFor
    <3>. QED  BY <2>1, <2>2, <3>1, <3>2, <3>3 DEF ReceivesFor
  <2>. QED  BY <1>1, <2>3, <2>4
<1>. QED  BY <1>1, <1>2 DEF BlockedFor

\* A step of MM that is no kernel call, and blocks nobody.
LEMMA QuietStep ==
    ASSUME LifeInv, NEW loc, Here(MM, loc),
           \A x \in Procs : x # MM => at'[x] = at[x],
           asked' = asked, UNCHANGED <<p_sendto, p_recvfrom, buf>>,
           \A x \in Procs : /\ Sending(x)' <=> Sending(x)
                            /\ Receiving(x)' => Receiving(x)
    PROVE  BlockedFor'
<1>1. ~Sending(MM) /\ ~Receiving(MM)
  BY DEF Here, Runnable, Sending, Receiving
<1>2. ASSUME NEW x \in Procs
      PROVE  (Sending(x)' => SendsFor(x)') /\ (Receiving(x)' => ReceivesFor(x)')
  <2>1. /\ Sending(x) => SendsFor(x)
        /\ Receiving(x) => ReceivesFor(x)
        /\ Sending(x)' => Sending(x) /\ x # MM
        /\ Receiving(x)' => Receiving(x) /\ x # MM
    BY <1>1 DEF LifeInv, BlockedFor
  <2>2. x # MM => at'[x] = at[x]
    OBVIOUS
  <2>3. Sending(x)' => SendsFor(x)'
    BY <2>1, <2>2 DEF SendsFor
  <2>. QED  BY <2>1, <2>2, <2>3 DEF ReceivesFor
<1>. QED  BY <1>2 DEF BlockedFor

-----------------------------------------------------------------------------
(* What the steps of the others leave to MM                                *)

\* Nobody that MM serves is answered, but by MM.
StillServed ==
    \A u \in Users : Served(MM, u) =>
        /\ asked'[u] = asked[u]
        /\ Served(MM, u)' \/ (Sending(MM) /\ p_sendto[MM] = u /\ ~Sending(MM)')

MMStays == /\ UNCHANGED <<mm, p_parent, exit_status>> /\ at'[MM] = at[MM]
           /\ Sending(MM)' => /\ Sending(MM) /\ p_sendto'[MM] = p_sendto[MM]
                              /\ buf'[MM] = buf[MM]

LEMMA StillServedFor ==
    ASSUME Unmarked, StillServed, NEW u \in Users, NEW call, ServedFor(u, call),
           Sending(MM)' \/ ~Sending(MM) \/ p_sendto[MM] # u
    PROVE  ServedFor(u, call)'
BY Names DEF Unmarked, StillServed, ServedFor

LEMMA MMKept ==
    ASSUME LifeInv, Unmarked, StillServed, MMStays
    PROVE  /\ Forking' /\ Replying' /\ Replied' /\ Ending' /\ Reaping'
           /\ Parents' /\ ZombiesUnawaited'
<1>1. mm' = mm /\ p_parent' = p_parent /\ exit_status' = exit_status /\ at'[MM] = at[MM]
  BY DEF MMStays
<1>2. Sending(MM)' => /\ Sending(MM) /\ p_sendto'[MM] = p_sendto[MM]
                      /\ buf'[MM] = buf[MM]
  BY DEF MMStays
<1>3. \A u \in Users : \A call : 
        ServedFor(u, call) /\ (Sending(MM)' \/ ~Sending(MM) \/ p_sendto[MM] # u)
           => ServedFor(u, call)'
  BY StillServedFor
<1>4. \A u \in Users : ~Served(MM, u) \/ asked'[u] = asked[u]
  BY DEF StillServed
<1>5. \A x \in Slots : (Dead(x)' <=> Dead(x)) /\ (Free(x)' <=> Free(x))
  BY Names DEF Unmarked
<1>6. FS \notin Users /\ Slots \subseteq Users
  BY Names
<1>7. Sending(MM) => \/ at[MM] \in {"fork_fs", "exit_fs"} /\ p_sendto[MM] = FS
                     \/ /\ at[MM] \in {"reply", "release", "loop"}
                        /\ p_sendto[MM] \in Users
  BY MMBlocked
<1>8. Forking'
  <2>. SUFFICES ASSUME at'[MM] \in {"fork", "fork_fs", "birth"}
                PROVE  /\ mm.src \in Users /\ mm.pid \in Slots /\ mm.src # mm.pid
                       /\ ServedFor(mm.src, "FORK")' /\ ServedFor(mm.pid, "FORK")'
    BY <1>1 DEF Forking
  <2>1. /\ mm.src \in Users /\ mm.pid \in Slots /\ mm.src # mm.pid
        /\ ServedFor(mm.src, "FORK") /\ ServedFor(mm.pid, "FORK")
    BY <1>1 DEF LifeInv, Forking
  <2>2. ~Sending(MM) \/ p_sendto[MM] = FS
    BY <1>1, <1>7
  <2>. QED  BY <1>1, <1>3, <1>6, <2>1, <2>2 DEF ServedFor, Served, Sending, Receiving, Waiting
<1>9. Replying'
  <2>. SUFFICES ASSUME at'[MM] = "reply"
                PROVE  /\ mm.src \in Users /\ mm.out \in Bodies
                       /\ \E call \in {"FORK", "KILL", "WAIT"} : ServedFor(mm.src, call)'
                       /\ asked'[mm.src] = "WAIT" => mm.out.pid = NO_TASK
                       /\ Sending(MM)' => /\ p_sendto'[MM] # mm.src
                                          /\ ServedFor(p_sendto[MM], "FORK")'
                                          /\ buf'[MM].body = Ret(0, 0)
    BY <1>1 DEF Replying, Ret, Body
  <2>1. PICK call \in {"FORK", "KILL", "WAIT"} : ServedFor(mm.src, call)
    BY <1>1 DEF LifeInv, Replying
  <2>2. /\ mm.src \in Users /\ mm.out \in Bodies
        /\ asked[mm.src] = "WAIT" => mm.out.pid = NO_TASK
        /\ Sending(MM) => /\ p_sendto[MM] # mm.src
                          /\ ServedFor(p_sendto[MM], "FORK")
                          /\ buf[MM].body = Ret(0, 0)
    BY <1>1 DEF LifeInv, Replying
  <2>3. ServedFor(mm.src, call)' /\ asked'[mm.src] = asked[mm.src]
    BY <1>1, <1>3, <1>4, <2>1, <2>2 DEF ServedFor, Served, Sending, Receiving, Waiting
  <2>4. Sending(MM)' => ServedFor(p_sendto[MM], "FORK")'
    BY <1>1, <1>2, <1>3, <1>7, <2>2 DEF ServedFor, Served, Sending, Receiving, Waiting
  <2>. QED  BY <1>2, <2>1, <2>2, <2>3, <2>4
<1>10. Replied'
  <2>. SUFFICES ASSUME at'[MM] = "loop", Sending(MM)'
                PROVE  /\ \E call \in {"FORK", "KILL", "WAIT"} : ServedFor(p_sendto[MM], call)'
                       /\ asked'[p_sendto'[MM]] = "WAIT" => buf'[MM].body.pid = NO_TASK
    BY DEF Replied
  <2>1. PICK call \in {"FORK", "KILL", "WAIT"} : ServedFor(p_sendto[MM], call)
    BY <1>1, <1>2 DEF LifeInv, Replied
  <2>2. p_sendto[MM] \in Users /\ asked[p_sendto[MM]] = "WAIT" => buf[MM].body.pid = NO_TASK
    BY <1>1, <1>2 DEF LifeInv, Replied
  <2>4. p_sendto[MM] \in Users
    BY <1>1, <1>2, <1>7
  <2>3. ServedFor(p_sendto[MM], call)' /\ asked'[p_sendto[MM]] = asked[p_sendto[MM]]
    BY <1>2, <1>3, <1>4, <2>1, <2>4 DEF ServedFor, Served, Sending, Receiving, Waiting
  <2>. QED  BY <1>2, <2>1, <2>2, <2>3, <2>4
<1>11. Ending'
  <2>. SUFFICES ASSUME at'[MM] \in {"exit", "exit_fs", "reap", "adopt", "cleanup", "release"}
                PROVE  /\ mm.op = "KILL" => /\ mm.src \in Users /\ ServedFor(mm.src, "KILL")'
                                            /\ mm.out = Ret(0, NO_TASK)
                       /\ at'[MM] \in {"exit", "exit_fs", "reap"} =>
                             mm.pid \in Slots /\ Dead(mm.pid)'
                       /\ at'[MM] = "adopt" =>
                             mm.pid \in Slots /\ (Free(mm.pid)' \/ Dead(mm.pid)')
    BY <1>1 DEF Ending
  <2>1. /\ mm.op = "KILL" => /\ mm.src \in Users /\ ServedFor(mm.src, "KILL")
                             /\ mm.out = Ret(0, NO_TASK)
        /\ at[MM] \in {"exit", "exit_fs", "reap"} => mm.pid \in Slots /\ Dead(mm.pid)
        /\ at[MM] = "adopt" => mm.pid \in Slots /\ (Free(mm.pid) \/ Dead(mm.pid))
    BY <1>1 DEF LifeInv, Ending
  <2>2. ASSUME Sending(MM)  PROVE mm.op = "KILL" => p_sendto[MM] # mm.src
    <3>1. p_sendto[MM] = FS \/ (p_sendto[MM] \in Users /\ at[MM] = "release")
      BY <1>1, <1>7, <2>2
    <3>2. at[MM] = "release" => ServedFor(p_sendto[MM], "WAIT")
      BY <2>2 DEF LifeInv, Reaping
    <3>. QED  BY <1>6, <2>1, <3>1, <3>2 DEF ServedFor
  <2>. QED  BY <1>1, <1>3, <1>5, <2>1, <2>2
<1>12. Reaping'
  <2>. SUFFICES ASSUME at'[MM] \in {"cleanup", "release"}
                PROVE  /\ mm.victim \in Slots /\ Dead(mm.victim)'
                       /\ at'[MM] = "cleanup" =>
                             /\ p_parent[mm.victim] \in Users
                             /\ ServedFor(p_parent[mm.victim], "WAIT")'
                       /\ Sending(MM)' =>
                             /\ p_sendto'[MM] = p_parent[mm.victim]
                             /\ ServedFor(p_sendto[MM], "WAIT")'
                             /\ buf'[MM].body = Ret(exit_status[mm.victim], mm.victim)
    BY <1>1 DEF Reaping
  <2>1. /\ mm.victim \in Slots /\ Dead(mm.victim)
        /\ at[MM] = "cleanup" => /\ p_parent[mm.victim] \in Users
                                 /\ ServedFor(p_parent[mm.victim], "WAIT")
        /\ Sending(MM) => /\ p_sendto[MM] = p_parent[mm.victim]
                          /\ ServedFor(p_sendto[MM], "WAIT")
                          /\ buf[MM].body = Ret(exit_status[mm.victim], mm.victim)
    BY <1>1 DEF LifeInv, Reaping
  <2>2. at[MM] = "cleanup" => ServedFor(p_parent[mm.victim], "WAIT")'
    BY <1>1, <1>3, <1>7, <2>1 DEF ServedFor, Served, Sending, Receiving, Waiting
  <2>3. Sending(MM)' => ServedFor(p_sendto[MM], "WAIT")'
    BY <1>1, <1>2, <1>3, <1>7, <2>1 DEF ServedFor, Served, Sending, Receiving, Waiting
  <2>. QED  BY <1>1, <1>2, <1>5, <2>1, <2>2, <2>3
<1>13. Parents'
  <2>1. \A p \in Procs : (Alive(p)' <=> Alive(p)) /\ (Dying(p)' <=> Dying(p))
    BY <1>1 DEF Unmarked, Alive, Dying
  <2>2. \A p \in Slots : Free(p)' <=> Free(p)
    BY <1>5
  <2>3. Users \subseteq Procs
    BY Names
  <2>. QED  BY <1>1, <2>1, <2>2, <2>3 DEF LifeInv, Parents
<1>14. ZombiesUnawaited'
  <2>1. \A p \in Procs : (Hanging(p)' <=> Hanging(p)) /\ (Waiting(p)' <=> Waiting(p))
                         /\ (Dead(p)' <=> Dead(p))
    BY DEF Unmarked
  <2>2. \A p \in Procs : Hanging(p) => p \in Slots /\ ~Free(p) /\ p_parent[p] \in Procs
    BY FlagNames, Names DEF LifeInv, Linked, ZombiesUnawaited, Parents
  <2>. QED  BY <1>1, <2>1, <2>2 DEF LifeInv, ZombiesUnawaited
<1>. QED  BY <1>8, <1>9, <1>10, <1>11, <1>12, <1>13, <1>14

-----------------------------------------------------------------------------
(* User processes                                                          *)

\* The rest of the invariant, in the order of LifeInv.
LEMMA CallKeeps ==
    ASSUME LifeInv, NEW u \in Users, NEW call \in Calls \cup {"FORK", "WAIT"}, Call(u, call)
    PROVE  LifeInv'
<1>. DEFINE d == Callee(call)
<1>1. /\ u \in Procs /\ u # MM /\ u \notin Servers /\ call \in AllCalls
      /\ Here(u, "run") /\ ~Sending(u) /\ ~Receiving(u) /\ at[u] = "run"
      /\ ~Waiting(u) /\ ~Free(u)
  <2>1. u \in Procs /\ u # MM /\ u \notin Servers /\ call \in AllCalls /\ Here(u, "run")
    BY Names DEF Call, AllCalls
  <2>2. TypeOK /\ Fields
    BY DEF LifeInv, Linked
  <2>. QED  BY <2>1, <2>2, FlagNames DEF Here
<1>2. d \in Servers \cup {MM} /\ d \in Procs /\ d # u /\ d \notin Users
  BY <1>1, CalleeIs, Names
<1>3. PICK pid \in Slots \cup {NO_TASK} : msg_send(u, d, Body(call, Status(call), pid))
  BY DEF Call
<1>. DEFINE b == Body(call, Status(call), pid)
<1>4. /\ b \in Bodies /\ b.type = call /\ b.i1 = Status(call)
  <2>1. Status(call) \in {-1, 0, 1}
    BY DEF Status
  <2>. QED  BY <1>1, <2>1, Fits
<1>. HIDE DEF d, b
<1>5. /\ Moved(u, "sent") /\ at' \in [Procs -> Locs]
      /\ asked'[u] = call /\ asked' \in [Users -> AllCalls]
      /\ \A x \in Users : x # u => asked'[x] = asked[x]
      /\ UNCHANGED <<p_parent, exit_status, mm>>
  <2>1. Typed /\ asked \in [Users -> AllCalls]
    BY DEF LifeInv, Typed
  <2>2. "sent" \in Locs
    BY DEF Locs, UserLocs
  <2>. QED  BY <1>1, <2>1, <2>2, Goes DEF Call
<1>6. /\ \A s : ~Served(s, u)
      /\ \A s \in Servers : ~Has(s, u)
      /\ \A x \in Procs : Sending(x) => p_sendto[x] # u
  BY <1>1, RunningUnserved
<1>7. ~deadlock(u, d)
  BY <1>1, <1>2, <1>6, NobodySends DEF LifeInv
<1>8. Queued(u, d, b) => SendsFor(u)'
  <2>. SUFFICES ASSUME Queued(u, d, b)  PROVE SendsFor(u)'
    OBVIOUS
  <2>1. buf'[u] = [source |-> u, body |-> b] /\ p_sendto'[u] = d
    BY <1>1 DEF Queued
  <2>2. at'[u] = "sent" /\ d = Callee(asked'[u])
    BY <1>5 DEF Moved, d
  <2>3. /\ buf'[u].source = u /\ buf'[u].body.type = asked'[u]
        /\ buf'[u].body.i1 = Status(asked'[u])
    BY <1>4, <1>5, <2>1
  <2>. QED  BY <2>1, <2>2, <2>3 DEF SendsFor
<1>9. /\ Linked' /\ Unmarked /\ ~panicked' /\ BlockedFor'
      /\ Delivered(u, d, b) \/ Queued(u, d, b)
  <2>1. msg_send(u, d, b)
    BY <1>3 DEF b, d
  <2>. QED  BY <1>1, <1>2, <1>4, <1>5, <1>7, <1>8, <2>1, SendStep
<1>10. \A x \in Procs : x # u => /\ Sending(x)' <=> Sending(x)
                                 /\ Receiving(x)' <=> Receiving(x) /\ ~(x = d /\ Delivered(u, d, b))
                                 /\ x # d => buf'[x] = buf[x]
                                 /\ Sending(x) => p_sendto'[x] = p_sendto[x] /\ buf'[x] = buf[x]
  <2>1. CASE Delivered(u, d, b)
    <3>1. ~Sending(d)
      BY <1>2, <2>1 DEF Delivered, Accepts, LifeInv, Linked, Fields, FieldsOf
    <3>. QED  BY <2>1, <3>1 DEF Delivered
  <2>2. CASE Queued(u, d, b)
    BY <2>2 DEF Queued, Delivered
  <2>. QED  BY <1>9, <2>1, <2>2
<1>11. Delivered(u, d, b) => /\ ~Sending(u)' /\ ~Sending(d) /\ Receiving(d)
                             /\ p_recvfrom[d] \in {u, ANY}
                             /\ buf'[d].source = u /\ buf'[d].body = b
  BY <1>1, <1>2 DEF Delivered, Accepts, LifeInv, Linked, Fields, FieldsOf
<1>12. at'[u] = "sent" /\ \A x \in Procs : x # u => at'[x] = at[x]
  BY <1>5 DEF Moved
<1>13. \A v \in Users : \A s : Served(s, v) => asked'[v] = asked[v] /\ Served(s, v)'
  <2>. SUFFICES ASSUME NEW v \in Users, NEW s, Served(s, v)
                PROVE  asked'[v] = asked[v] /\ Served(s, v)'
    OBVIOUS
  <2>1. v # u /\ v \in Procs /\ v # d
    BY <1>2, <1>6, Names
  <2>2. /\ Sending(v)' <=> Sending(v)
        /\ Receiving(v)' <=> Receiving(v)
        /\ at'[v] = at[v] /\ asked'[v] = asked[v]
    BY <1>5, <1>10, <1>12, <2>1
  <2>. QED  BY <2>2 DEF Served
<1>14. StillServed
  BY <1>13 DEF StillServed
<1>15. MMStays
  <2>1. MM \in Procs /\ MM # u
    BY <1>1, Names
  <2>. QED  BY <1>5, <1>10, <1>12, <2>1 DEF MMStays
<1>16. /\ Forking' /\ Replying' /\ Replied' /\ Ending' /\ Reaping'
       /\ Parents' /\ ZombiesUnawaited'
  BY <1>9, <1>14, <1>15, MMKept
<1>17. Typed'
  <2>1. shells' \in 0..Shells
    <3>1. shells \in 0..Shells /\ Shells \in Nat
      BY ProcLifeAssumption DEF LifeInv, Typed
    <3>2. u = InitProc /\ call = "FORK" => shells < Shells
      BY DEF Call, MayCall
    <3>. QED  BY <3>1, <3>2 DEF Call
  <2>. QED  BY <1>5, <2>1 DEF LifeInv, Typed
<1>18. Placed'
  <2>1. at'[MM] \in MMLocs /\ \A s \in Servers : at'[s] \in ServerLocs
    BY <1>1, <1>12, Names DEF LifeInv, Placed
  <2>2. ASSUME NEW v \in Users  PROVE at'[v] \in UserLocs /\ (at'[v] = "sent" => ~Free(v)')
    <3>1. v \in Procs /\ (Free(v)' <=> Free(v))
      BY <1>9, Names DEF Unmarked
    <3>. QED  BY <1>1, <1>12, <3>1 DEF LifeInv, Placed, UserLocs
  <2>3. asked'[InitProc] = "EXIT" => at'[InitProc] = "run" /\ ~Receiving(InitProc)'
    <3>1. InitProc \in Users /\ InitProc \in Procs
      BY Names
    <3>2. u = InitProc => call # "EXIT"
      BY DEF Call, MayCall
    <3>3. InitProc # d
      BY <1>2, <3>1
    <3>. QED  BY <1>5, <1>10, <1>12, <3>1, <3>2, <3>3 DEF LifeInv, Placed
  <2>4. \A p \in Native : ~Free(p)'
    <3>1. Native \subseteq Procs
      BY IpcAssumption
    <3>. QED  BY <1>9, <3>1 DEF LifeInv, Placed, Unmarked
  <2>5. ASSUME NEW p \in Procs, Waiting(p)'
        PROVE  p \in Users /\ Served(MM, p)' /\ asked'[p] = "WAIT"
    <3>1. p \in Users /\ Served(MM, p) /\ asked[p] = "WAIT"
      BY <1>9, <2>5 DEF LifeInv, Placed, Unmarked
    <3>. QED  BY <1>13, <3>1
  <2>. QED  BY <2>1, <2>2, <2>3, <2>4, <2>5 DEF Placed
<1>19. Service'
  <2>. SUFFICES ASSUME NEW s \in Servers
       PROVE  /\ at'[s] = "serve" /\ ~Receiving(s)' => buf'[s].source \in Users \cup {MM}
              /\ Has(s, MM)' => s = FS /\ MMAwaits'
              /\ \A v \in Users :
                    Has(s, v)' => Served(s, v)' \/ (s = FS /\ Dead(v)' /\ MMKilling(v)')
    BY DEF Service
  <2>1. /\ s \in Procs /\ s # u /\ s # MM /\ MM \in Procs /\ MM # u
        /\ at'[s] = at[s] /\ at'[MM] = at[MM] /\ mm' = mm
    BY <1>1, <1>5, <1>12, Names
  <2>2. /\ at[s] = "serve" /\ ~Receiving(s) => buf[s].source \in Users \cup {MM}
        /\ Has(s, MM) => s = FS /\ MMAwaits
        /\ \A v \in Users :
              Has(s, v) => Served(s, v) \/ (s = FS /\ Dead(v) /\ MMKilling(v))
    BY DEF LifeInv, Service
  <2>3. CASE s = d /\ Delivered(u, d, b)
    <3>1. buf'[s].source = u /\ ~Sending(s)' /\ u \in Users
      BY <1>10, <1>11, <2>1, <2>3
    <3>2. \A x : Has(s, x)' => x = u
      BY <3>1 DEF Has
    <3>3. Served(s, u)'
      BY <1>5, <1>11, <1>12, <2>3 DEF Served, d
    <3>. QED  BY <1>1, <2>1, <3>1, <3>2, <3>3
  <2>4. CASE ~(s = d /\ Delivered(u, d, b))
    <3>1. (Receiving(s)' <=> Receiving(s)) /\ (Sending(s)' <=> Sending(s))
      BY <1>10, <2>1, <2>4
    <3>2. buf'[s] = buf[s] \/ (s = d /\ ~Delivered(u, d, b))
      BY <1>10, <2>1, <2>4
    <3>3. buf'[s] = buf[s]
      BY <1>9, <2>1, <3>2 DEF Queued
    <3>4. \A x : Has(s, x)' => Has(s, x)
      BY <1>10, <2>1, <3>1, <3>3 DEF Has
    <3>5. MMAwaits => MMAwaits' \/ Delivered(u, d, b)
      BY <1>10, <2>1 DEF MMAwaits
    <3>6. MMAwaits => MMAwaits'
      <4>1. CASE d = MM /\ Delivered(u, d, b)
        <5>1. p_recvfrom[MM] \in {u, ANY} /\ Receiving(MM)
          BY <1>11, <4>1
        <5>2. at[MM] = "handle"
          <6>1. u # FS /\ FS # ANY
            BY <1>1, Names
          <6>. QED  BY <5>1, <6>1, MMBlocked
        <5>. QED  BY <5>2 DEF MMAwaits
      <4>2. CASE ~(d = MM /\ Delivered(u, d, b))
        BY <1>10, <2>1, <4>2 DEF MMAwaits
      <4>. QED  BY <4>1, <4>2
    <3>7. \A v \in Users : (Dead(v) => Dead(v)') /\ (MMKilling(v) => MMKilling(v)')
      <4>1. \A v \in Users : Dead(v) => Dead(v)'
        BY <1>9, Names DEF Unmarked
      <4>2. Sending(MM)' <=> Sending(MM)
        BY <1>10, <2>1
      <4>. QED  BY <2>1, <4>1, <4>2 DEF MMKilling
    <3>. QED  BY <1>13, <2>1, <2>2, <3>1, <3>3, <3>4, <3>6, <3>7
  <2>. QED  BY <2>3, <2>4
<1>20. Handling'
  <2>. SUFFICES ASSUME at'[MM] = "handle", ~Receiving(MM)'
       PROVE  /\ buf'[MM].source \in Users
              /\ ServedFor(buf[MM].source, buf[MM].body.type)'
              /\ buf'[MM].body.i1 = Status(buf'[MM].body.type)
    BY DEF Handling
  <2>1. MM \in Procs /\ MM # u /\ at[MM] = "handle"
    BY <1>1, <1>12, Names
  <2>2. CASE d = MM /\ Delivered(u, d, b)
    <3>1. buf'[MM].source = u /\ buf'[MM].body = b
      BY <1>11, <2>2
    <3>2. Served(MM, u)' /\ asked'[u] = call /\ ~Waiting(u)'
      BY <1>1, <1>5, <1>9, <1>11, <1>12, <2>2 DEF Served, Unmarked, d
    <3>. QED  BY <1>4, <3>1, <3>2 DEF ServedFor, Served, Sending, Receiving, Waiting
  <2>3. CASE ~(d = MM /\ Delivered(u, d, b))
    <3>1. ~Receiving(MM) /\ buf'[MM] = buf[MM]
      BY <1>9, <1>10, <2>1, <2>3 DEF Queued
    <3>2. /\ buf[MM].source \in Users
          /\ ServedFor(buf[MM].source, buf[MM].body.type)
          /\ buf[MM].body.i1 = Status(buf[MM].body.type)
      BY <2>1, <3>1 DEF LifeInv, Handling
    <3>3. ~Sending(MM)
      BY <2>1, MMBlocked
    <3>4. \A v \in Users : \A t : ServedFor(v, t) => ServedFor(v, t)'
      BY <1>9, <1>14, <3>3, StillServedFor
    <3>. QED  BY <3>1, <3>2, <3>4 DEF ServedFor, Served, Sending, Receiving, Waiting
  <2>. QED  BY <2>2, <2>3
<1>21. ToldChildStays'
  <2>. SUFFICES ASSUME NEW v \in Users, NEW c \in Slots, Told(v, c)'
       PROVE  /\ ~Free(c)' /\ p_parent'[c] = v
              /\ ~(at'[MM] \in {"cleanup", "release"} /\ mm'.victim = c)
    BY DEF ToldChildStays
  <2>1. MM \in Procs /\ MM # u /\ at'[MM] = at[MM] /\ mm' = mm /\ p_parent' = p_parent
    BY <1>1, <1>5, <1>12, Names
  <2>2. c \in Procs /\ v \in Procs /\ v # d
    BY <1>2, Names
  <2>3. Sending(MM)' => Sending(MM) /\ p_sendto'[MM] = p_sendto[MM] /\ buf'[MM] = buf[MM]
    BY <1>15 DEF MMStays
  <2>4. v # u
    <3>. SUFFICES ASSUME v = u  PROVE FALSE
      OBVIOUS
    <3>1. at[MM] \in {"fork", "fork_fs", "birth"} => mm.src # u
      BY <1>6 DEF LifeInv, Forking, ServedFor
    <3>2. at[MM] = "reply" => mm.src # u
      BY <1>6 DEF LifeInv, Replying, ServedFor
    <3>. QED  BY <1>6, <1>12, <2>1, <2>3, <3>1, <3>2 DEF Told
  <2>5. /\ asked'[v] = asked[v] /\ at'[v] = at[v] /\ buf'[v] = buf[v]
        /\ Receiving(v)' <=> Receiving(v)
        /\ Free(v)' <=> Free(v)
    BY <1>5, <1>9, <1>10, <1>12, <2>2, <2>4 DEF Unmarked
  <2>6. Told(v, c)
    BY <2>1, <2>3, <2>5 DEF Told
  <2>. QED  BY <1>9, <2>1, <2>2, <2>6 DEF LifeInv, ToldChildStays, Unmarked
<1>. QED  BY <1>9, <1>16, <1>17, <1>18, <1>19, <1>20, <1>21 DEF LifeInv

\* What a receive does: T holds the sender whose message is taken, if any.
LEMMA ReceiveParts ==
    ASSUME NEW p \in Procs, NEW src \in Procs \cup {ANY}, ~Sending(p), ~Receiving(p),
           Waits(p, src) \/ \E from \in Procs : from # p /\ Took(p, src, from)
    PROVE  \E T \in SUBSET Procs :
              /\ p \notin T
              /\ \A x \in T : /\ Sending(x) /\ p_sendto[x] = p /\ src \in {ANY, x}
                              /\ buf'[p] = buf[x] /\ T = {x}
              /\ Receiving(p)' <=> T = {}
              /\ ~Sending(p)'
              /\ \A x \in Procs :
                    /\ Sending(x)' <=> Sending(x) /\ x \notin T
                    /\ x # p => (Receiving(x)' <=> Receiving(x)) /\ buf'[x] = buf[x]
                    /\ x \notin T => p_sendto'[x] = p_sendto[x]
<1>1. CASE Waits(p, src)
  <2>1. p \notin {} /\ {} \in SUBSET Procs
    OBVIOUS
  <2>2. /\ Receiving(p)' /\ ~Sending(p)'
        /\ \A x \in Procs :
              /\ Sending(x)' <=> Sending(x) /\ x \notin {}
              /\ x # p => (Receiving(x)' <=> Receiving(x)) /\ buf'[x] = buf[x]
              /\ p_sendto'[x] = p_sendto[x]
    BY <1>1 DEF Waits
  <2>. QED  BY <2>1, <2>2
<1>2. CASE \E from \in Procs : from # p /\ Took(p, src, from)
  <2>0. PICK from \in Procs : from # p /\ Took(p, src, from)
    BY <1>2
  <2>1. /\ p \notin {from} /\ {from} \in SUBSET Procs
        /\ Sending(from) /\ p_sendto[from] = p /\ src \in {ANY, from}
        /\ buf'[p] = buf[from]
    BY <2>0 DEF Took
  <2>2. /\ ~Receiving(p)' /\ ~Sending(p)'
        /\ \A x \in Procs :
              /\ Sending(x)' <=> Sending(x) /\ x \notin {from}
              /\ x # p => (Receiving(x)' <=> Receiving(x)) /\ buf'[x] = buf[x]
              /\ x \notin {from} => p_sendto'[x] = p_sendto[x]
    BY <2>0 DEF Took
  <2>. QED  BY <2>1, <2>2
<1>. QED  BY <1>1, <1>2

LEMMA AwaitKeeps ==
    ASSUME LifeInv, NEW u \in Users, Await(u)
    PROVE  LifeInv'
<1>. DEFINE d == Callee(asked[u])
<1>1. /\ u \in Procs /\ u # MM /\ u \notin Servers /\ Here(u, "sent") /\ at[u] = "sent"
      /\ ~Waiting(u) /\ ~Free(u)
  <2>1. u \in Procs /\ u # MM /\ u \notin Servers /\ Here(u, "sent")
    BY Names DEF Await
  <2>2. TypeOK /\ Fields
    BY DEF LifeInv, Linked
  <2>. QED  BY <2>1, <2>2, FlagNames DEF Here
<1>2. d \in Servers \cup {MM} /\ d \in Procs /\ d # u /\ d # ANY /\ d \notin Users
  BY <1>1, UserBlocked, Names
<1>3. msg_receive(u, d)
  BY DEF Await
<1>. HIDE DEF d
<1>4. /\ Moved(u, "run") /\ at' \in [Procs -> Locs] /\ asked' = asked
      /\ UNCHANGED <<p_parent, exit_status, mm, shells>>
  <2>1. Typed /\ "run" \in Locs
    BY DEF LifeInv, Locs, UserLocs
  <2>. QED  BY <1>1, <2>1, Goes DEF Await
<1>5. at'[u] = "run" /\ \A x \in Procs : x # u => at'[x] = at[x]
  BY <1>4 DEF Moved
<1>6. Waits(u, d) => ReceivesFor(u)'
  <2>1. Waits(u, d) => p_recvfrom'[u] = d
    BY <1>1 DEF Waits
  <2>. QED  BY <1>4, <1>5, <2>1 DEF ReceivesFor, d
<1>7. /\ Linked' /\ Unmarked /\ ~panicked' /\ BlockedFor' /\ ~Sending(u) /\ ~Receiving(u)
      /\ Waits(u, d) \/ \E from \in Procs : from # u /\ Took(u, d, from)
  BY <1>1, <1>2, <1>3, <1>4, <1>6, ReceiveStep
<1>8. PICK T \in SUBSET Procs :
         /\ u \notin T
         /\ \A x \in T : /\ Sending(x) /\ p_sendto[x] = u /\ d \in {ANY, x}
                         /\ buf'[u] = buf[x] /\ T = {x}
         /\ Receiving(u)' <=> T = {}
         /\ ~Sending(u)'
         /\ \A x \in Procs :
               /\ Sending(x)' <=> Sending(x) /\ x \notin T
               /\ x # u => (Receiving(x)' <=> Receiving(x)) /\ buf'[x] = buf[x]
               /\ x \notin T => p_sendto'[x] = p_sendto[x]
  BY <1>1, <1>2, <1>7, ReceiveParts
<1>9. \A x \in T : x = d
  BY <1>2, <1>8
<1>10. \A v \in Users : \A s : Served(s, v) =>
          Served(s, v)' \/ (v = u /\ s = d /\ d \in T)
  <2>. SUFFICES ASSUME NEW v \in Users, NEW s, Served(s, v)
                PROVE  Served(s, v)' \/ (v = u /\ s = d /\ d \in T)
    OBVIOUS
  <2>1. v \in Procs /\ v # d
    BY <1>2, Names
  <2>2. Sending(v)' <=> Sending(v)
    BY <1>8, <1>9, <2>1
  <2>3. CASE v # u
    BY <1>4, <1>5, <1>8, <2>1, <2>2, <2>3 DEF Served
  <2>4. CASE v = u
    BY <1>4, <1>5, <1>8, <1>9, <2>4 DEF Served, d
  <2>. QED  BY <2>3, <2>4
<1>11. StillServed
  <2>1. MM \in T => Sending(MM) /\ p_sendto[MM] = u /\ ~Sending(MM)'
    BY <1>8, Names
  <2>. QED  BY <1>4, <1>10, <2>1 DEF StillServed
<1>12. MMStays
  <2>1. MM \in Procs /\ MM # u
    BY <1>1, Names
  <2>. QED  BY <1>4, <1>5, <1>8, <2>1 DEF MMStays
<1>13. /\ Forking' /\ Replying' /\ Replied' /\ Ending' /\ Reaping'
       /\ Parents' /\ ZombiesUnawaited'
  BY <1>7, <1>11, <1>12, MMKept
<1>14. Typed'
  BY <1>4 DEF LifeInv, Typed
<1>15. Placed'
  <2>1. at'[MM] \in MMLocs /\ \A s \in Servers : at'[s] \in ServerLocs
    BY <1>1, <1>5, Names DEF LifeInv, Placed
  <2>2. ASSUME NEW v \in Users  PROVE at'[v] \in UserLocs /\ (at'[v] = "sent" => ~Free(v)')
    <3>1. v \in Procs /\ (Free(v)' <=> Free(v))
      BY <1>7, Names DEF Unmarked
    <3>. QED  BY <1>1, <1>5, <3>1 DEF LifeInv, Placed, UserLocs
  <2>3. asked'[InitProc] = "EXIT" => at'[InitProc] = "run" /\ ~Receiving(InitProc)'
    <3>1. InitProc \in Users /\ InitProc \in Procs
      BY Names
    <3>. QED  BY <1>1, <1>4, <1>5, <1>8, <3>1 DEF LifeInv, Placed
  <2>4. \A p \in Native : ~Free(p)'
    <3>1. Native \subseteq Procs
      BY IpcAssumption
    <3>. QED  BY <1>7, <3>1 DEF LifeInv, Placed, Unmarked
  <2>5. ASSUME NEW p \in Procs, Waiting(p)'
        PROVE  p \in Users /\ Served(MM, p)' /\ asked'[p] = "WAIT"
    <3>1. p \in Users /\ Served(MM, p) /\ asked[p] = "WAIT" /\ p # u
      BY <1>1, <1>7, <2>5 DEF LifeInv, Placed, Unmarked
    <3>. QED  BY <1>4, <1>10, <3>1
  <2>. QED  BY <2>1, <2>2, <2>3, <2>4, <2>5 DEF Placed
<1>16. Service'
  <2>. SUFFICES ASSUME NEW s \in Servers
       PROVE  /\ at'[s] = "serve" /\ ~Receiving(s)' => buf'[s].source \in Users \cup {MM}
              /\ Has(s, MM)' => s = FS /\ MMAwaits'
              /\ \A v \in Users :
                    Has(s, v)' => Served(s, v)' \/ (s = FS /\ Dead(v)' /\ MMKilling(v)')
    BY DEF Service
  <2>1. /\ s \in Procs /\ s # u /\ s # MM /\ MM \in Procs /\ MM # u
        /\ at'[s] = at[s] /\ at'[MM] = at[MM] /\ mm' = mm
        /\ (Receiving(s)' <=> Receiving(s)) /\ buf'[s] = buf[s]
    BY <1>1, <1>4, <1>5, <1>8, Names
  <2>2. /\ at[s] = "serve" /\ ~Receiving(s) => buf[s].source \in Users \cup {MM}
        /\ Has(s, MM) => s = FS /\ MMAwaits
        /\ \A v \in Users :
              Has(s, v) => Served(s, v) \/ (s = FS /\ Dead(v) /\ MMKilling(v))
    BY DEF LifeInv, Service
  <2>3. \A x : Has(s, x)' => Has(s, x) /\ s \notin T
    <3>1. s \in T => at[s] = "loop" /\ ~Sending(s)'
      BY <1>8, <2>1, ServerBlocked
    <3>2. s \notin T => (Sending(s)' <=> Sending(s)) /\ p_sendto'[s] = p_sendto[s]
      BY <1>8, <2>1
    <3>. QED  BY <2>1, <3>1, <3>2 DEF Has
  <2>4. MMAwaits => MMAwaits'
    BY <1>8, <2>1 DEF MMAwaits
  <2>5. \A v \in Users : (Dead(v) => Dead(v)') /\ (MMKilling(v) => MMKilling(v)')
    <3>1. \A v \in Users : Dead(v) => Dead(v)'
      BY <1>7, Names DEF Unmarked
    <3>2. at[MM] = "exit_fs" => (Sending(MM)' <=> Sending(MM))
      <4>1. MM \in T => at[MM] # "exit_fs"
        BY <1>1, <1>8, MMBlocked, Names
      <4>. QED  BY <1>8, <2>1, <4>1
    <3>. QED  BY <2>1, <3>1, <3>2 DEF MMKilling
  <2>6. \A v \in Users : Served(s, v) /\ s \notin T => Served(s, v)'
    BY <1>10
  <2>. QED  BY <2>1, <2>2, <2>3, <2>4, <2>5, <2>6
<1>17. Handling'
  <2>. SUFFICES ASSUME at'[MM] = "handle", ~Receiving(MM)'
       PROVE  /\ buf'[MM].source \in Users
              /\ ServedFor(buf[MM].source, buf[MM].body.type)'
              /\ buf'[MM].body.i1 = Status(buf'[MM].body.type)
    BY DEF Handling
  <2>1. MM \in Procs /\ at[MM] = "handle" /\ ~Receiving(MM) /\ buf'[MM] = buf[MM]
    BY <1>1, <1>5, <1>8, Names
  <2>2. /\ buf[MM].source \in Users
        /\ ServedFor(buf[MM].source, buf[MM].body.type)
        /\ buf[MM].body.i1 = Status(buf[MM].body.type)
    BY <2>1 DEF LifeInv, Handling
  <2>3. ~Sending(MM)
    BY <2>1, MMBlocked
  <2>4. \A v \in Users : \A t : ServedFor(v, t) => ServedFor(v, t)'
    BY <1>7, <1>11, <2>3, StillServedFor
  <2>. QED  BY <2>1, <2>2, <2>4 DEF ServedFor, Served, Sending, Receiving, Waiting
<1>18. ToldChildStays'
  <2>. SUFFICES ASSUME NEW v \in Users, NEW c \in Slots, Told(v, c)'
       PROVE  /\ ~Free(c)' /\ p_parent'[c] = v
              /\ ~(at'[MM] \in {"cleanup", "release"} /\ mm'.victim = c)
    BY DEF ToldChildStays
  <2>1. MM \in Procs /\ MM # u /\ at'[MM] = at[MM] /\ mm' = mm /\ p_parent' = p_parent
    BY <1>1, <1>4, <1>5, Names
  <2>2. c \in Procs /\ v \in Procs /\ asked'[v] = asked[v] /\ (Free(v)' <=> Free(v))
    BY <1>4, <1>7, Names DEF Unmarked
  <2>3. Sending(MM)' => Sending(MM) /\ p_sendto'[MM] = p_sendto[MM] /\ buf'[MM] = buf[MM]
    BY <1>12 DEF MMStays
  <2>4. CASE v # u
    <3>1. at'[v] = at[v] /\ buf'[v] = buf[v] /\ (Receiving(v)' <=> Receiving(v))
      BY <1>5, <1>8, <2>2, <2>4
    <3>2. Told(v, c)
      BY <2>1, <2>2, <2>3, <3>1 DEF Told
    <3>. QED  BY <1>7, <2>1, <2>2, <3>2 DEF LifeInv, ToldChildStays, Unmarked
  <2>5. CASE v = u
    <3>1. asked[u] = "FORK" /\ d = MM
      BY <2>2, <2>5 DEF Told, d, Callee
    <3>2. T # {} => Sending(MM) /\ p_sendto[MM] = u /\ buf'[u] = buf[MM]
      BY <1>8, <1>9, <3>1
    <3>3. Told(v, c)
      BY <1>8, <2>1, <2>2, <2>3, <2>5, <3>1, <3>2 DEF Told
    <3>. QED  BY <1>7, <2>1, <2>2, <3>3 DEF LifeInv, ToldChildStays, Unmarked
  <2>. QED  BY <2>4, <2>5
<1>. QED  BY <1>7, <1>13, <1>14, <1>15, <1>16, <1>17, <1>18 DEF LifeInv

-----------------------------------------------------------------------------
(* FS and SYS                                                              *)

LEMMA TakeKeeps ==
    ASSUME LifeInv, NEW s \in Servers, Take(s)
    PROVE  LifeInv'
<1>1. /\ s \in Procs /\ s # MM /\ s \notin Users /\ Here(s, "loop") /\ at[s] = "loop"
      /\ msg_receive(s, ANY)
  BY Names DEF Take, Here
<1>2. /\ Moved(s, "serve") /\ at' \in [Procs -> Locs] /\ asked' = asked
      /\ UNCHANGED <<p_parent, exit_status, mm, shells>>
  <2>1. Typed /\ "serve" \in Locs
    BY DEF LifeInv, Locs, ServerLocs
  <2>. QED  BY <1>1, <2>1, Goes DEF Take
<1>3. at'[s] = "serve" /\ \A x \in Procs : x # s => at'[x] = at[x]
  BY <1>2 DEF Moved
<1>4. Waits(s, ANY) => ReceivesFor(s)'
  <2>1. Waits(s, ANY) => p_recvfrom'[s] = ANY
    BY <1>1 DEF Waits
  <2>. QED  BY <1>3, <2>1 DEF ReceivesFor
<1>5. /\ Linked' /\ Unmarked /\ ~panicked' /\ BlockedFor' /\ ~Sending(s) /\ ~Receiving(s)
      /\ Waits(s, ANY) \/ \E from \in Procs : from # s /\ Took(s, ANY, from)
  BY <1>1, <1>2, <1>4, ReceiveStep
<1>6. PICK T \in SUBSET Procs :
         /\ s \notin T
         /\ \A x \in T : /\ Sending(x) /\ p_sendto[x] = s /\ ANY \in {ANY, x}
                         /\ buf'[s] = buf[x] /\ T = {x}
         /\ Receiving(s)' <=> T = {}
         /\ ~Sending(s)'
         /\ \A x \in Procs :
               /\ Sending(x)' <=> Sending(x) /\ x \notin T
               /\ x # s => (Receiving(x)' <=> Receiving(x)) /\ buf'[x] = buf[x]
               /\ x \notin T => p_sendto'[x] = p_sendto[x]
  BY <1>1, <1>5, ReceiveParts
<1>7. \A v \in Users : \A z : Served(z, v) => Served(z, v)'
  <2>. SUFFICES ASSUME NEW v \in Users, NEW z, Served(z, v)
                PROVE  Served(z, v)'
    OBVIOUS
  <2>1. v \in Procs /\ v # s
    BY <1>1, Names
  <2>. QED  BY <1>2, <1>3, <1>6, <2>1 DEF Served
<1>8. StillServed
  BY <1>2, <1>7 DEF StillServed
<1>9. MM \in Procs /\ at'[MM] = at[MM] /\ buf'[MM] = buf[MM] /\ (Receiving(MM)' <=> Receiving(MM))
  BY <1>1, <1>3, <1>6, Names
<1>10. MMStays
  BY <1>2, <1>6, <1>9 DEF MMStays
<1>11. /\ Forking' /\ Replying' /\ Replied' /\ Ending' /\ Reaping'
       /\ Parents' /\ ZombiesUnawaited'
  BY <1>5, <1>8, <1>10, MMKept
<1>12. Typed'
  BY <1>2 DEF LifeInv, Typed
<1>13. Placed'
  <2>1. at'[MM] \in MMLocs /\ \A z \in Servers : at'[z] \in ServerLocs
    BY <1>3, <1>9, Names DEF LifeInv, Placed, ServerLocs
  <2>2. ASSUME NEW v \in Users  PROVE at'[v] \in UserLocs /\ (at'[v] = "sent" => ~Free(v)')
    <3>1. v \in Procs /\ v # s /\ (Free(v)' <=> Free(v))
      BY <1>1, <1>5, Names DEF Unmarked
    <3>. QED  BY <1>3, <3>1 DEF LifeInv, Placed
  <2>3. asked'[InitProc] = "EXIT" => at'[InitProc] = "run" /\ ~Receiving(InitProc)'
    <3>1. InitProc \in Users /\ InitProc \in Procs
      BY Names
    <3>. QED  BY <1>1, <1>2, <1>3, <1>6, <3>1 DEF LifeInv, Placed
  <2>4. \A p \in Native : ~Free(p)'
    <3>1. Native \subseteq Procs
      BY IpcAssumption
    <3>. QED  BY <1>5, <3>1 DEF LifeInv, Placed, Unmarked
  <2>5. ASSUME NEW p \in Procs, Waiting(p)'
        PROVE  p \in Users /\ Served(MM, p)' /\ asked'[p] = "WAIT"
    <3>1. p \in Users /\ Served(MM, p) /\ asked[p] = "WAIT"
      BY <1>5, <2>5 DEF LifeInv, Placed, Unmarked
    <3>. QED  BY <1>2, <1>7, <3>1
  <2>. QED  BY <2>1, <2>2, <2>3, <2>4, <2>5 DEF Placed
<1>14. Service'
  <2>. SUFFICES ASSUME NEW z \in Servers
       PROVE  /\ at'[z] = "serve" /\ ~Receiving(z)' => buf'[z].source \in Users \cup {MM}
              /\ Has(z, MM)' => z = FS /\ MMAwaits'
              /\ \A v \in Users :
                    Has(z, v)' => Served(z, v)' \/ (z = FS /\ Dead(v)' /\ MMKilling(v)')
    BY DEF Service
  <2>1. CASE z = s
    <3>1. \A y : Has(s, y)' => T # {} /\ buf'[s].source = y
      BY <1>6 DEF Has
    <3>2. ASSUME NEW x \in T
          PROVE  /\ buf'[s].source = x /\ x \in Users \cup {MM}
                 /\ x = MM => s = FS /\ MMAwaits'
                 /\ x \in Users => Served(s, x)'
      <4>1. x \in Procs /\ Sending(x) /\ p_sendto[x] = s /\ buf'[s] = buf[x] /\ ~Sending(x)' /\ x # s
        BY <1>6
      <4>2. SendsFor(x)
        BY <4>1 DEF LifeInv, BlockedFor
      <4>3. x \notin Servers
        BY <1>1, <4>1, ServerBlocked
      <4>4. x = MM => s = FS /\ MMAwaits'
        BY <1>1, <1>9, <4>1, MMBlocked DEF MMAwaits
      <4>5. x \in Users => Served(s, x)'
        BY <1>2, <1>3, <4>1, UserBlocked DEF Served
      <4>. QED  BY <4>1, <4>2, <4>3, <4>4, <4>5 DEF SendsFor
    <3>3. ~Receiving(s)' => T # {}
      BY <1>6
    <3>. QED  BY <2>1, <3>1, <3>2, <3>3, Names
  <2>2. CASE z # s
    <3>1. /\ z \in Procs /\ at'[z] = at[z] /\ mm' = mm
          /\ (Receiving(z)' <=> Receiving(z)) /\ buf'[z] = buf[z]
      BY <1>2, <1>3, <1>6, <2>2, Names
    <3>2. /\ at[z] = "serve" /\ ~Receiving(z) => buf[z].source \in Users \cup {MM}
          /\ Has(z, MM) => z = FS /\ MMAwaits
          /\ \A v \in Users :
                Has(z, v) => Served(z, v) \/ (z = FS /\ Dead(v) /\ MMKilling(v))
      BY DEF LifeInv, Service
    <3>3. \A x : Has(z, x)' => Has(z, x)
      BY <1>6, <3>1 DEF Has
    <3>4. MMAwaits => MMAwaits'
      BY <1>6, <1>9 DEF MMAwaits
    <3>5. MM \notin T \/ z # FS
      BY <1>6, <2>2, MMBlocked, <1>1
    <3>6. ASSUME NEW v \in Users, MMKilling(v), Dead(v), z = FS
          PROVE  MMKilling(v)' /\ Dead(v)'
      <4>1. Dead(v)'
        BY <1>5, <3>6, Names DEF Unmarked
      <4>2. Sending(MM)' <=> Sending(MM)
        BY <1>6, <1>9, <3>5, <3>6
      <4>. QED  BY <1>9, <3>1, <3>6, <4>1, <4>2 DEF MMKilling
    <3>. QED  BY <1>7, <3>1, <3>2, <3>3, <3>4, <3>6
  <2>. QED  BY <2>1, <2>2
<1>15. Handling'
  <2>. SUFFICES ASSUME at'[MM] = "handle", ~Receiving(MM)'
       PROVE  /\ buf'[MM].source \in Users
              /\ ServedFor(buf[MM].source, buf[MM].body.type)'
              /\ buf'[MM].body.i1 = Status(buf'[MM].body.type)
    BY DEF Handling
  <2>2. /\ buf[MM].source \in Users
        /\ ServedFor(buf[MM].source, buf[MM].body.type)
        /\ buf[MM].body.i1 = Status(buf[MM].body.type)
    BY <1>9 DEF LifeInv, Handling
  <2>3. ~Sending(MM)
    BY <1>9, MMBlocked
  <2>4. \A v \in Users : \A t : ServedFor(v, t) => ServedFor(v, t)'
    BY <1>5, <1>8, <2>3, StillServedFor
  <2>. QED  BY <1>9, <2>2, <2>4 DEF ServedFor, Served, Sending, Receiving, Waiting
<1>16. ToldChildStays'
  <2>. SUFFICES ASSUME NEW v \in Users, NEW c \in Slots, Told(v, c)'
       PROVE  /\ ~Free(c)' /\ p_parent'[c] = v
              /\ ~(at'[MM] \in {"cleanup", "release"} /\ mm'.victim = c)
    BY DEF ToldChildStays
  <2>1. mm' = mm /\ p_parent' = p_parent
    BY <1>2
  <2>2. /\ c \in Procs /\ v \in Procs /\ v # s /\ asked'[v] = asked[v]
        /\ (Free(v)' <=> Free(v)) /\ (Free(c)' <=> Free(c))
        /\ at'[v] = at[v] /\ buf'[v] = buf[v] /\ (Receiving(v)' <=> Receiving(v))
    BY <1>1, <1>2, <1>3, <1>5, <1>6, Names DEF Unmarked
  <2>3. Sending(MM)' => Sending(MM) /\ p_sendto'[MM] = p_sendto[MM] /\ buf'[MM] = buf[MM]
    BY <1>10 DEF MMStays
  <2>4. Told(v, c)
    BY <1>9, <2>1, <2>2, <2>3 DEF Told
  <2>. QED  BY <1>9, <2>1, <2>2, <2>4 DEF LifeInv, ToldChildStays
<1>. QED  BY <1>5, <1>11, <1>12, <1>13, <1>14, <1>15, <1>16 DEF LifeInv

LEMMA ReplyKeeps ==
    ASSUME LifeInv, NEW s \in Servers, Reply(s)
    PROVE  LifeInv'
<1>. DEFINE b == Body("SYSCALL_RET", 0, NO_TASK)
<1>1. /\ s \in Procs /\ s # MM /\ s \notin Users /\ Here(s, "serve") /\ at[s] = "serve"
      /\ ~Receiving(s) /\ ~Sending(s) /\ MM \in Procs
      /\ Send(s, buf[s].source, b) /\ b \in Bodies
  <2>1. Here(s, "serve") => at[s] = "serve" /\ ~Receiving(s) /\ ~Sending(s)
    BY DEF Here, Runnable, Receiving, Sending
  <2>. QED  BY <2>1, Names, Fits DEF Reply
<1>2. PICK d \in Users \cup {MM} : d = buf[s].source
  BY <1>1 DEF LifeInv, Service
<1>3. Has(s, d)
  BY <1>1, <1>2 DEF Has
<1>4. d = MM => s = FS /\ MMAwaits
  BY <1>3 DEF LifeInv, Service
<1>5. d \in Users => Served(s, d) \/ Dead(d)
  BY <1>3 DEF LifeInv, Service
<1>6. d \in Procs /\ d # s /\ ~Sending(d) /\ ~Free(d)
  <2>1. CASE d = MM
    <3>1. ~Sending(MM)
      BY <1>4, <2>1, MMBlocked DEF MMAwaits
    <3>. QED  BY <1>1, <2>1, <3>1, MMBlocked
  <2>2. CASE d \in Users
    <3>1. d \in Procs /\ d # s
      BY <1>1, <2>2, Names
    <3>2. Dead(d) => ~Sending(d) /\ ~Free(d)
      BY <3>1, FlagNames DEF Dead, LifeInv, Linked, Fields, FieldsOf
    <3>. QED  BY <1>5, <2>2, <3>1, <3>2, ServedIs
  <2>. QED  BY <2>1, <2>2
<1>7. msg_send(s, d, b) /\ ~deadlock(s, d)
  BY <1>1, <1>2, <1>6, IdleTarget DEF Send
<1>. HIDE DEF b
<1>8. /\ Moved(s, "loop") /\ at' \in [Procs -> Locs] /\ asked' = asked
      /\ UNCHANGED <<p_parent, exit_status, mm, shells>>
  <2>1. Typed /\ "loop" \in Locs
    BY DEF LifeInv, Locs, ServerLocs
  <2>. QED  BY <1>1, <2>1, Goes DEF Reply
<1>9. at'[s] = "loop" /\ \A x \in Procs : x # s => at'[x] = at[x]
  BY <1>8 DEF Moved
<1>10. Queued(s, d, b) => SendsFor(s)'
  <2>1. Queued(s, d, b) => buf'[s].source = s /\ p_sendto'[s] = d
    BY <1>1 DEF Queued
  <2>. QED  BY <1>9, <2>1 DEF SendsFor
<1>11. /\ Linked' /\ Unmarked /\ ~panicked' /\ BlockedFor'
       /\ Delivered(s, d, b) \/ Queued(s, d, b)
  BY <1>1, <1>6, <1>7, <1>8, <1>10, SendStep
<1>12. \A x \in Procs : x # s =>
          /\ Sending(x)' <=> Sending(x)
          /\ Receiving(x)' <=> Receiving(x) /\ ~(x = d /\ Delivered(s, d, b))
          /\ (x = d /\ Delivered(s, d, b)) \/ buf'[x] = buf[x]
          /\ p_sendto'[x] = p_sendto[x]
  <2>1. CASE Delivered(s, d, b)
    BY <2>1 DEF Delivered
  <2>2. CASE Queued(s, d, b)
    BY <2>2 DEF Queued, Delivered
  <2>. QED  BY <1>11, <2>1, <2>2
<1>13. /\ Delivered(s, d, b) => ~Sending(s)' /\ ~Dead(d)
       /\ ~Delivered(s, d, b) => p_sendto'[s] = d
  <2>1. s # NO_TASK /\ ANY # NO_TASK
    BY Names
  <2>. QED  BY <1>1, <1>11, <2>1 DEF Delivered, Queued, Accepts, Dead
<1>14. \A v \in Users : \A z : Served(z, v) => Served(z, v)' \/ (z = s /\ v = d /\ Delivered(s, d, b))
  <2>. SUFFICES ASSUME NEW v \in Users, NEW z, Served(z, v)
                PROVE  Served(z, v)' \/ (z = s /\ v = d /\ Delivered(s, d, b))
    OBVIOUS
  <2>1. v \in Procs /\ v # s
    BY <1>1, Names
  <2>2. CASE v = d /\ Delivered(s, d, b)
    <3>1. Served(s, v)
      BY <1>5, <1>13, <2>2
    <3>. QED  BY <2>2, <3>1 DEF Served
  <2>3. CASE ~(v = d /\ Delivered(s, d, b))
    BY <1>8, <1>9, <1>12, <2>1, <2>3 DEF Served
  <2>. QED  BY <2>2, <2>3
<1>15. StillServed
  BY <1>1, <1>8, <1>14 DEF StillServed
<1>16. at'[MM] = at[MM] /\ (Sending(MM)' <=> Sending(MM)) /\ p_sendto'[MM] = p_sendto[MM]
  BY <1>1, <1>9, <1>12
<1>17. MMStays
  <2>1. Sending(MM) => ~(MM = d /\ Delivered(s, d, b))
    BY <1>6
  <2>. QED  BY <1>1, <1>8, <1>12, <1>16, <2>1 DEF MMStays
<1>18. /\ Forking' /\ Replying' /\ Replied' /\ Ending' /\ Reaping'
       /\ Parents' /\ ZombiesUnawaited'
  BY <1>11, <1>15, <1>17, MMKept
<1>19. Typed'
  BY <1>8 DEF LifeInv, Typed
<1>20. Placed'
  <2>1. at'[MM] \in MMLocs /\ \A z \in Servers : at'[z] \in ServerLocs
    BY <1>9, <1>16, Names DEF LifeInv, Placed, ServerLocs
  <2>2. ASSUME NEW v \in Users  PROVE at'[v] \in UserLocs /\ (at'[v] = "sent" => ~Free(v)')
    <3>1. v \in Procs /\ v # s /\ (Free(v)' <=> Free(v))
      BY <1>1, <1>11, Names DEF Unmarked
    <3>. QED  BY <1>9, <3>1 DEF LifeInv, Placed
  <2>3. asked'[InitProc] = "EXIT" => at'[InitProc] = "run" /\ ~Receiving(InitProc)'
    <3>1. InitProc \in Users /\ InitProc \in Procs
      BY Names
    <3>. QED  BY <1>1, <1>8, <1>9, <1>12, <3>1 DEF LifeInv, Placed
  <2>4. \A p \in Native : ~Free(p)'
    <3>1. Native \subseteq Procs
      BY IpcAssumption
    <3>. QED  BY <1>11, <3>1 DEF LifeInv, Placed, Unmarked
  <2>5. ASSUME NEW p \in Procs, Waiting(p)'
        PROVE  p \in Users /\ Served(MM, p)' /\ asked'[p] = "WAIT"
    <3>1. p \in Users /\ Served(MM, p) /\ asked[p] = "WAIT"
      BY <1>11, <2>5 DEF LifeInv, Placed, Unmarked
    <3>. QED  BY <1>1, <1>8, <1>14, <3>1
  <2>. QED  BY <2>1, <2>2, <2>3, <2>4, <2>5 DEF Placed
<1>21. MMAwaits /\ (d # MM \/ ~Delivered(s, d, b)) => MMAwaits'
  BY <1>1, <1>12, <1>16 DEF MMAwaits
<1>22. ASSUME NEW v \in Users, Dead(v), MMKilling(v)
       PROVE  Dead(v)' /\ MMKilling(v)'
  <2>1. Dead(v)'
    BY <1>11, <1>22, Names DEF Unmarked
  <2>. QED  BY <1>8, <1>16, <1>22, <2>1 DEF MMKilling
<1>23. Service'
  <2>. SUFFICES ASSUME NEW z \in Servers
       PROVE  /\ at'[z] = "serve" /\ ~Receiving(z)' => buf'[z].source \in Users \cup {MM}
              /\ Has(z, MM)' => z = FS /\ MMAwaits'
              /\ \A v \in Users :
                    Has(z, v)' => Served(z, v)' \/ (z = FS /\ Dead(v)' /\ MMKilling(v)')
    BY DEF Service
  <2>0. /\ Has(z, MM) => z = FS /\ MMAwaits
        /\ \A v \in Users :
              Has(z, v) => Served(z, v) \/ (z = FS /\ Dead(v) /\ MMKilling(v))
    BY DEF LifeInv, Service
  <2>1. CASE z = s
    <3>1. at'[s] # "serve" /\ \A y : Has(s, y)' => y = d /\ ~Delivered(s, d, b)
      BY <1>9, <1>13 DEF Has
    <3>2. \A v \in Users : Served(s, v) /\ ~Delivered(s, d, b) => Served(s, v)'
      BY <1>14
    <3>. QED  BY <1>3, <1>4, <1>21, <1>22, <2>0, <2>1, <3>1, <3>2
  <2>2. CASE z # s
    <3>1. z \in Procs /\ z # d /\ z # MM
      BY <1>2, Names
    <3>2. /\ at'[z] = at[z] /\ (Receiving(z)' <=> Receiving(z)) /\ buf'[z] = buf[z]
          /\ Sending(z)' <=> Sending(z)
          /\ p_sendto'[z] = p_sendto[z]
      BY <1>9, <1>12, <2>2, <3>1
    <3>3. at[z] = "serve" /\ ~Receiving(z) => buf[z].source \in Users \cup {MM}
      BY DEF LifeInv, Service
    <3>4. \A y : Has(z, y)' => Has(z, y)
      BY <3>2 DEF Has
    <3>5. \A v \in Users : Served(z, v) => Served(z, v)'
      BY <1>14, <2>2
    <3>6. z = FS => d # MM
      BY <1>4, <2>2
    <3>. QED  BY <1>21, <1>22, <2>0, <3>2, <3>3, <3>4, <3>5, <3>6
  <2>. QED  BY <2>1, <2>2
<1>24. Handling'
  <2>. SUFFICES ASSUME at'[MM] = "handle", ~Receiving(MM)'
       PROVE  /\ buf'[MM].source \in Users
              /\ ServedFor(buf[MM].source, buf[MM].body.type)'
              /\ buf'[MM].body.i1 = Status(buf'[MM].body.type)
    BY DEF Handling
  <2>1. d # MM
    BY <1>4, <1>16 DEF MMAwaits
  <2>2. at[MM] = "handle" /\ ~Receiving(MM) /\ buf'[MM] = buf[MM]
    BY <1>1, <1>12, <1>16, <2>1
  <2>3. /\ buf[MM].source \in Users
        /\ ServedFor(buf[MM].source, buf[MM].body.type)
        /\ buf[MM].body.i1 = Status(buf[MM].body.type)
    BY <2>2 DEF LifeInv, Handling
  <2>4. ~Sending(MM)
    BY <2>2, MMBlocked
  <2>5. \A v \in Users : \A t : ServedFor(v, t) => ServedFor(v, t)'
    BY <1>11, <1>15, <2>4, StillServedFor
  <2>. QED  BY <2>2, <2>3, <2>5 DEF ServedFor, Served, Sending, Receiving, Waiting
<1>25. ToldChildStays'
  <2>. SUFFICES ASSUME NEW v \in Users, NEW c \in Slots, Told(v, c)'
       PROVE  /\ ~Free(c)' /\ p_parent'[c] = v
              /\ ~(at'[MM] \in {"cleanup", "release"} /\ mm'.victim = c)
    BY DEF ToldChildStays
  <2>1. mm' = mm /\ p_parent' = p_parent
    BY <1>8
  <2>2. /\ c \in Procs /\ v \in Procs /\ v # s /\ asked'[v] = asked[v]
        /\ (Free(v)' <=> Free(v)) /\ (Free(c)' <=> Free(c))
        /\ at'[v] = at[v]
    BY <1>1, <1>8, <1>9, <1>11, Names DEF Unmarked
  <2>3. Sending(MM)' => Sending(MM) /\ p_sendto'[MM] = p_sendto[MM] /\ buf'[MM] = buf[MM]
    BY <1>17 DEF MMStays
  <2>4. v # d \/ ~Delivered(s, d, b)
    <3>. SUFFICES ASSUME v = d, Delivered(s, d, b)  PROVE FALSE
      OBVIOUS
    <3>1. Served(s, v)
      BY <1>5, <1>13
    <3>2. asked[v] = "FORK"
      BY <2>2 DEF Told
    <3>. QED  BY <1>1, <3>1, <3>2 DEF Served, Callee
  <2>5. buf'[v] = buf[v] /\ (Receiving(v)' <=> Receiving(v))
    BY <1>12, <2>2, <2>4
  <2>6. Told(v, c)
    BY <1>16, <2>1, <2>2, <2>3, <2>5 DEF Told
  <2>. QED  BY <1>16, <2>1, <2>2, <2>6 DEF LifeInv, ToldChildStays
<1>. QED  BY <1>11, <1>18, <1>19, <1>20, <1>23, <1>24, <1>25 DEF LifeInv

-----------------------------------------------------------------------------
(* The kernel calls of MM                                                  *)

\* A step of MM that leaves the table of processes alone.
LEMMA FamilyKept ==
    ASSUME LifeInv, Unmarked, p_parent' = p_parent,
           \A p \in Procs : Dying(p) => Dying(p)'
    PROVE  Parents' /\ ZombiesUnawaited'
<1>1. Parents'
  <2>1. \A p \in Procs : (Alive(p) => Alive(p)') /\ (Free(p)' <=> Free(p))
    BY DEF Unmarked, Alive
  <2>2. Slots \subseteq Procs /\ Users \subseteq Procs
    BY Names
  <2>. QED  BY <2>1, <2>2 DEF LifeInv, Parents
<1>2. ZombiesUnawaited'
  <2>1. \A p \in Procs : (Hanging(p)' <=> Hanging(p)) /\ (Waiting(p)' <=> Waiting(p))
                         /\ (Dead(p)' <=> Dead(p))
    BY DEF Unmarked
  <2>2. \A p \in Procs : Hanging(p) => p \in Slots /\ ~Free(p) /\ p_parent[p] \in Procs
    BY FlagNames, Names DEF LifeInv, Linked, ZombiesUnawaited, Parents
  <2>. QED  BY <2>1, <2>2 DEF LifeInv, ZombiesUnawaited
<1>. QED  BY <1>1, <1>2

\* Where the others are is kept by a step of MM that frees and marks nobody.
LEMMA PlacedKept ==
    ASSUME LifeInv, Unmarked, asked' = asked, NEW loc \in MMLocs, Moved(MM, loc),
           \A x \in Procs : x # MM => (Receiving(x)' => Receiving(x)),
           \A u \in Users : Served(MM, u) /\ Waiting(u) => Served(MM, u)'
    PROVE  Placed'
<1>1. /\ at'[MM] = loc /\ \A x \in Procs : x # MM => at'[x] = at[x]
      /\ InitProc \in Users /\ InitProc \in Procs /\ Native \subseteq Procs
  BY Names, IpcAssumption DEF Moved
<1>2. \A s \in Servers : at'[s] \in ServerLocs
  BY <1>1, Names DEF LifeInv, Placed
<1>3. ASSUME NEW v \in Users  PROVE at'[v] \in UserLocs /\ (at'[v] = "sent" => ~Free(v)')
  <2>1. v \in Procs /\ v # MM /\ (Free(v)' <=> Free(v))
    BY Names DEF Unmarked
  <2>. QED  BY <1>1, <2>1 DEF LifeInv, Placed
<1>4. asked'[InitProc] = "EXIT" => at'[InitProc] = "run" /\ ~Receiving(InitProc)'
  BY <1>1, Names DEF LifeInv, Placed
<1>5. \A p \in Native : ~Free(p)'
  BY <1>1 DEF LifeInv, Placed, Unmarked
<1>6. ASSUME NEW p \in Procs, Waiting(p)'
      PROVE  p \in Users /\ Served(MM, p)' /\ asked'[p] = "WAIT"
  BY <1>6 DEF LifeInv, Placed, Unmarked
<1>. QED  BY <1>1, <1>2, <1>3, <1>4, <1>5, <1>6 DEF Placed

\* MM answers a process that waits for it.
LEMMA MMSendsUser ==
    ASSUME LifeInv, NEW v \in Users, Served(MM, v), ~Waiting(v), NEW b \in Bodies,
           NEW loc \in {"reply", "birth", "cleanup"},
           NEW next \in {"reply", "release", "loop"},
           MMSend(loc, v, b, next), asked' = asked
    PROVE  /\ Linked' /\ Unmarked /\ ~panicked' /\ BlockedFor' /\ Placed' /\ Service'
           /\ Moved(MM, next) /\ at' \in [Procs -> Locs]
           /\ at[MM] = loc /\ ~Sending(MM)
           /\ buf'[MM].body = b /\ buf'[MM].source = MM
           /\ Sending(MM)' => p_sendto'[MM] = v
           /\ ~Sending(MM)' => buf'[v] = buf'[MM] /\ Receiving(v)
           /\ \A x \in Users : x # v \/ Sending(MM)' =>
                 /\ buf'[x] = buf[x] /\ (Receiving(x)' <=> Receiving(x))
                 /\ \A call : ServedFor(x, call) => ServedFor(x, call)'
<1>1. /\ MM \in Procs /\ v \in Procs /\ v # MM /\ MM \notin Users
      /\ at[MM] = loc /\ ~Sending(MM) /\ ~Receiving(MM)
      /\ ~Sending(v) /\ ~Free(v)
  <2>1. Here(MM, loc) => at[MM] = loc /\ ~Receiving(MM) /\ ~Sending(MM)
    BY DEF Here, Runnable, Receiving, Sending
  <2>. QED  BY <2>1, Names, ServedIs DEF MMSend
<1>2. msg_send(MM, v, b) /\ ~deadlock(MM, v)
  BY <1>1, IdleTarget DEF MMSend, Send
<1>3. Moved(MM, next) /\ at' \in [Procs -> Locs]
  <2>1. Typed /\ next \in Locs
    BY DEF LifeInv, Locs, MMLocs
  <2>. QED  BY <1>1, <2>1, Goes DEF MMSend
<1>4. at'[MM] = next /\ \A x \in Procs : x # MM => at'[x] = at[x]
  BY <1>3 DEF Moved
<1>5. Queued(MM, v, b) => SendsFor(MM)'
  <2>1. Queued(MM, v, b) => buf'[MM].source = MM /\ p_sendto'[MM] = v
    BY <1>1 DEF Queued
  <2>. QED  BY <1>4, <2>1 DEF SendsFor
<1>6. /\ Linked' /\ Unmarked /\ ~panicked' /\ BlockedFor'
      /\ Delivered(MM, v, b) \/ Queued(MM, v, b)
  BY <1>1, <1>2, <1>3, <1>5, SendStep
<1>7. /\ Delivered(MM, v, b) => ~Sending(MM)'
      /\ Queued(MM, v, b) => Sending(MM)'
      /\ buf'[MM].body = b /\ buf'[MM].source = MM
      /\ Sending(MM)' => p_sendto'[MM] = v
      /\ ~Sending(MM)' => buf'[v] = buf'[MM] /\ Receiving(v)
      /\ \A x \in Procs : x # MM =>
            /\ Sending(x)' <=> Sending(x)
            /\ p_sendto'[x] = p_sendto[x]
            /\ Receiving(x)' => Receiving(x)
            /\ x # v \/ Sending(MM)' => buf'[x] = buf[x] /\ (Receiving(x)' <=> Receiving(x))
  <2>1. CASE Delivered(MM, v, b)
    <3>1. ~Queued(MM, v, b)
      BY <2>1 DEF Delivered, Queued
    <3>2. Receiving(v) /\ p_sendto' = p_sendto
          /\ \A x \in Procs :
                /\ Sending(x)' <=> Sending(x)
                /\ Receiving(x)' <=> Receiving(x) /\ x # v
                /\ buf'[x] = IF x \in {MM, v} THEN [source |-> MM, body |-> b] ELSE buf[x]
      BY <2>1 DEF Delivered, Accepts
    <3>. QED  BY <1>1, <3>1, <3>2
  <2>2. CASE Queued(MM, v, b)
    BY <1>1, <2>2 DEF Queued, Delivered
  <2>. QED  BY <1>6, <2>1, <2>2
<1>8. \A x \in Users : \A z : Served(z, x) /\ (x # v \/ Sending(MM)' \/ z # MM) => Served(z, x)'
  <2>. SUFFICES ASSUME NEW x \in Users, NEW z, Served(z, x), x # v \/ Sending(MM)' \/ z # MM
                PROVE  Served(z, x)'
    OBVIOUS
  <2>1. x \in Procs /\ x # MM
    BY Names
  <2>2. x # v \/ Sending(MM)'
    BY DEF Served
  <2>. QED  BY <1>4, <1>7, <2>1, <2>2 DEF Served
<1>9. \A x \in Users : x # v \/ Sending(MM)' =>
         /\ buf'[x] = buf[x] /\ (Receiving(x)' <=> Receiving(x))
         /\ \A call : ServedFor(x, call) => ServedFor(x, call)'
  <2>. SUFFICES ASSUME NEW x \in Users, x # v \/ Sending(MM)'
                PROVE  /\ buf'[x] = buf[x] /\ (Receiving(x)' <=> Receiving(x))
                       /\ \A call : ServedFor(x, call) => ServedFor(x, call)'
    OBVIOUS
  <2>1. x \in Procs /\ x # MM /\ (Waiting(x)' <=> Waiting(x))
    BY <1>6, Names DEF Unmarked
  <2>. QED  BY <1>7, <1>8, <2>1 DEF ServedFor
<1>10. Placed'
  <2>1. \A u \in Users : Served(MM, u) /\ Waiting(u) => Served(MM, u)'
    BY <1>8
  <2>2. next \in MMLocs
    BY DEF MMLocs
  <2>. QED  BY <1>3, <1>6, <1>7, <2>1, <2>2, PlacedKept
<1>11. Service'
  <2>. SUFFICES ASSUME NEW z \in Servers
       PROVE  /\ at'[z] = "serve" /\ ~Receiving(z)' => buf'[z].source \in Users \cup {MM}
              /\ ~Has(z, MM)'
              /\ \A x \in Users : Has(z, x)' => Served(z, x)'
    BY DEF Service
  <2>1. z \in Procs /\ z # MM /\ z # v
    BY Names
  <2>2. /\ at'[z] = at[z] /\ (Sending(z)' <=> Sending(z)) /\ p_sendto'[z] = p_sendto[z]
        /\ (Receiving(z)' <=> Receiving(z)) /\ buf'[z] = buf[z]
    BY <1>4, <1>7, <2>1
  <2>3. ~MMAwaits /\ \A x \in Users : ~MMKilling(x)
    BY <1>1 DEF MMAwaits, MMKilling
  <2>4. /\ at[z] = "serve" /\ ~Receiving(z) => buf[z].source \in Users \cup {MM}
        /\ ~Has(z, MM)
        /\ \A x \in Users : Has(z, x) => Served(z, x)
    BY <2>3 DEF LifeInv, Service
  <2>5. \A y : Has(z, y)' => Has(z, y)
    BY <2>2 DEF Has
  <2>. QED  BY <1>8, <2>1, <2>2, <2>4, <2>5
<1>. QED  BY <1>1, <1>3, <1>6, <1>7, <1>9, <1>10, <1>11

\* MM tells FS about a fork or an exit.
LEMMA MMSendsFS ==
    ASSUME LifeInv, NEW b \in Bodies,
           NEW loc \in {"fork", "exit"}, NEW next, next = (IF loc = "fork" THEN "fork_fs" ELSE "exit_fs"),
           MMSend(loc, FS, b, next), asked' = asked, mm' = mm
    PROVE  /\ Linked' /\ Unmarked /\ ~panicked' /\ BlockedFor' /\ Placed' /\ Service'
           /\ Moved(MM, next) /\ at' \in [Procs -> Locs]
           /\ at[MM] = loc /\ ~Sending(MM)
           /\ Sending(MM)' => p_sendto'[MM] = FS
           /\ \A x \in Users :
                 /\ buf'[x] = buf[x] /\ (Receiving(x)' <=> Receiving(x))
                 /\ \A call : ServedFor(x, call) => ServedFor(x, call)'
<1>1. /\ MM \in Procs /\ FS \in Procs /\ FS # MM /\ FS \in Servers /\ ~Free(FS)
      /\ FS \notin Users
      /\ at[MM] = loc /\ ~Sending(MM) /\ ~Receiving(MM)
  <2>1. Here(MM, loc) => at[MM] = loc /\ ~Receiving(MM) /\ ~Sending(MM)
    BY DEF Here, Runnable, Receiving, Sending
  <2>2. FS \in Servers
    BY Names
  <2>. QED  BY <2>1, <2>2, Names, ServerBlocked DEF MMSend
<1>2. msg_send(MM, FS, b) /\ ~deadlock(MM, FS)
  BY <1>1, FSReachable DEF MMSend, Send
<1>3. Moved(MM, next) /\ at' \in [Procs -> Locs]
  <2>1. Typed /\ next \in Locs
    BY DEF LifeInv, Locs, MMLocs
  <2>. QED  BY <1>1, <2>1, Goes DEF MMSend
<1>4. at'[MM] = next /\ \A x \in Procs : x # MM => at'[x] = at[x]
  BY <1>3 DEF Moved
<1>5. Queued(MM, FS, b) => SendsFor(MM)'
  <2>1. Queued(MM, FS, b) => buf'[MM].source = MM /\ p_sendto'[MM] = FS
    BY <1>1 DEF Queued
  <2>. QED  BY <1>4, <2>1 DEF SendsFor
<1>6. /\ Linked' /\ Unmarked /\ ~panicked' /\ BlockedFor'
      /\ Delivered(MM, FS, b) \/ Queued(MM, FS, b)
  BY <1>1, <1>2, <1>3, <1>5, SendStep
<1>7. /\ Delivered(MM, FS, b) => /\ ~Sending(MM)' /\ buf'[FS].source = MM
                                 /\ Receiving(FS) /\ ~Receiving(FS)'
      /\ Queued(MM, FS, b) => /\ Sending(MM)' /\ buf'[FS] = buf[FS]
                              /\ (Receiving(FS)' <=> Receiving(FS))
      /\ Sending(MM)' => p_sendto'[MM] = FS
      /\ \A x \in Procs : x # MM =>
            /\ Sending(x)' <=> Sending(x)
            /\ p_sendto'[x] = p_sendto[x]
            /\ Receiving(x)' => Receiving(x)
            /\ x # FS => buf'[x] = buf[x] /\ (Receiving(x)' <=> Receiving(x))
  <2>1. CASE Delivered(MM, FS, b)
    BY <1>1, <2>1 DEF Delivered, Accepts, Queued
  <2>2. CASE Queued(MM, FS, b)
    BY <1>1, <2>2 DEF Queued, Delivered
  <2>. QED  BY <1>6, <2>1, <2>2
<1>8. \A x \in Users : \A z : Served(z, x) => Served(z, x)'
  <2>. SUFFICES ASSUME NEW x \in Users, NEW z, Served(z, x)  PROVE Served(z, x)'
    OBVIOUS
  <2>1. x \in Procs /\ x # MM /\ x # FS
    BY Names
  <2>. QED  BY <1>4, <1>7, <2>1 DEF Served
<1>9. \A x \in Users :
         /\ buf'[x] = buf[x] /\ (Receiving(x)' <=> Receiving(x))
         /\ \A call : ServedFor(x, call) => ServedFor(x, call)'
  <2>. SUFFICES ASSUME NEW x \in Users
                PROVE  /\ buf'[x] = buf[x] /\ (Receiving(x)' <=> Receiving(x))
                       /\ \A call : ServedFor(x, call) => ServedFor(x, call)'
    OBVIOUS
  <2>1. x \in Procs /\ x # MM /\ x # FS /\ (Waiting(x)' <=> Waiting(x))
    BY <1>6, Names DEF Unmarked
  <2>. QED  BY <1>7, <1>8, <2>1 DEF ServedFor
<1>10. Placed'
  <2>1. \A u \in Users : Served(MM, u) /\ Waiting(u) => Served(MM, u)'
    BY <1>8
  <2>2. next \in MMLocs
    BY DEF MMLocs
  <2>. QED  BY <1>3, <1>6, <1>7, <2>1, <2>2, PlacedKept
<1>11. Service'
  <2>. SUFFICES ASSUME NEW z \in Servers
       PROVE  /\ at'[z] = "serve" /\ ~Receiving(z)' => buf'[z].source \in Users \cup {MM}
              /\ Has(z, MM)' => z = FS /\ MMAwaits'
              /\ \A x \in Users :
                    Has(z, x)' => Served(z, x)' \/ (z = FS /\ Dead(x)' /\ MMKilling(x)')
    BY DEF Service
  <2>1. z \in Procs /\ z # MM
    BY Names
  <2>3. ~MMAwaits
    BY <1>1 DEF MMAwaits
  <2>4. /\ at[z] = "serve" /\ ~Receiving(z) => buf[z].source \in Users \cup {MM}
        /\ ~Has(z, MM)
        /\ \A x \in Users :
              Has(z, x) => Served(z, x) \/ (z = FS /\ Dead(x) /\ MMKilling(x))
    BY <2>3 DEF LifeInv, Service
  <2>5. CASE z = FS /\ Delivered(MM, FS, b)
    <3>1. ~Sending(FS)
      BY <1>1, <1>7, <2>5, ServerBlocked
    <3>2. \A y : Has(z, y)' => y = MM
      BY <1>1, <1>7, <2>5, <3>1 DEF Has
    <3>3. MMAwaits'
      BY <1>4, <1>7, <2>5 DEF MMAwaits
    <3>. QED  BY <1>1, <1>7, <2>5, <3>2, <3>3, Names
  <2>6. CASE ~(z = FS /\ Delivered(MM, FS, b))
    <3>1. /\ at'[z] = at[z] /\ (Sending(z)' <=> Sending(z)) /\ p_sendto'[z] = p_sendto[z]
          /\ (Receiving(z)' <=> Receiving(z)) /\ buf'[z] = buf[z]
      BY <1>4, <1>6, <1>7, <2>1, <2>6
    <3>2. \A y : Has(z, y)' => Has(z, y)
      BY <3>1 DEF Has
    <3>3. ASSUME NEW x \in Users, z = FS, Dead(x), MMKilling(x)
          PROVE  Dead(x)' /\ MMKilling(x)'
      <4>1. Dead(x)'
        BY <1>6, <3>3, Names DEF Unmarked
      <4>2. Sending(MM)' /\ loc = "exit"
        BY <1>1, <1>6, <1>7, <2>6, <3>3 DEF MMKilling
      <4>. QED  BY <1>4, <3>3, <4>1, <4>2 DEF MMKilling
    <3>. QED  BY <1>8, <2>4, <3>1, <3>2, <3>3
  <2>. QED  BY <2>5, <2>6
<1>. QED  BY <1>1, <1>3, <1>6, <1>7, <1>9, <1>10, <1>11

\* MM hears from FS.
LEMMA MMHearsFS ==
    ASSUME LifeInv,
           NEW loc \in {"fork_fs", "exit_fs"},
           NEW next, next = (IF loc = "fork_fs" THEN "birth" ELSE "reap"),
           Here(MM, loc), msg_receive(MM, FS), GoTo(MM, next), asked' = asked, mm' = mm
    PROVE  /\ Linked' /\ Unmarked /\ ~panicked' /\ BlockedFor' /\ Placed' /\ Service'
           /\ Moved(MM, next) /\ at' \in [Procs -> Locs]
           /\ at[MM] = loc /\ ~Sending(MM)'
           /\ \A x \in Users :
                 /\ buf'[x] = buf[x] /\ (Receiving(x)' <=> Receiving(x))
                 /\ \A call : ServedFor(x, call) => ServedFor(x, call)'
<1>1. /\ MM \in Procs /\ FS \in Procs /\ FS # MM /\ FS \in Servers /\ FS # ANY
      /\ FS \notin Users /\ MM \notin Users
      /\ at[MM] = loc /\ ~Sending(MM)
  <2>1. Here(MM, loc) => at[MM] = loc /\ ~Sending(MM)
    BY DEF Here, Runnable, Sending
  <2>. QED  BY <2>1, Names
<1>3. Moved(MM, next) /\ at' \in [Procs -> Locs]
  <2>1. Typed /\ next \in Locs
    BY DEF LifeInv, Locs, MMLocs
  <2>. QED  BY <1>1, <2>1, Goes
<1>4. at'[MM] = next /\ \A x \in Procs : x # MM => at'[x] = at[x]
  BY <1>3 DEF Moved
<1>5. Waits(MM, FS) => ReceivesFor(MM)'
  <2>1. Waits(MM, FS) => p_recvfrom'[MM] = FS
    BY <1>1 DEF Waits
  <2>. QED  BY <1>4, <2>1 DEF ReceivesFor
<1>6. /\ Linked' /\ Unmarked /\ ~panicked' /\ BlockedFor' /\ ~Sending(MM) /\ ~Receiving(MM)
      /\ Waits(MM, FS) \/ \E from \in Procs : from # MM /\ Took(MM, FS, from)
  BY <1>1, <1>3, <1>5, ReceiveStep
<1>7. PICK T \in SUBSET Procs :
         /\ MM \notin T
         /\ \A x \in T : /\ Sending(x) /\ p_sendto[x] = MM /\ FS \in {ANY, x}
                         /\ buf'[MM] = buf[x] /\ T = {x}
         /\ Receiving(MM)' <=> T = {}
         /\ ~Sending(MM)'
         /\ \A x \in Procs :
               /\ Sending(x)' <=> Sending(x) /\ x \notin T
               /\ x # MM => (Receiving(x)' <=> Receiving(x)) /\ buf'[x] = buf[x]
               /\ x \notin T => p_sendto'[x] = p_sendto[x]
  BY <1>1, <1>6, ReceiveParts
<1>8. \A x \in Users : \A z : Served(z, x) => Served(z, x)'
  <2>. SUFFICES ASSUME NEW x \in Users, NEW z, Served(z, x)  PROVE Served(z, x)'
    OBVIOUS
  <2>1. x \in Procs /\ x # MM
    BY Names
  <2>. QED  BY <1>4, <1>7, <2>1 DEF Served
<1>9. \A x \in Users :
         /\ buf'[x] = buf[x] /\ (Receiving(x)' <=> Receiving(x))
         /\ \A call : ServedFor(x, call) => ServedFor(x, call)'
  <2>. SUFFICES ASSUME NEW x \in Users
                PROVE  /\ buf'[x] = buf[x] /\ (Receiving(x)' <=> Receiving(x))
                       /\ \A call : ServedFor(x, call) => ServedFor(x, call)'
    OBVIOUS
  <2>1. x \in Procs /\ x # MM /\ (Waiting(x)' <=> Waiting(x))
    BY <1>6, Names DEF Unmarked
  <2>. QED  BY <1>7, <1>8, <2>1 DEF ServedFor
<1>10. Placed'
  <2>1. \A u \in Users : Served(MM, u) /\ Waiting(u) => Served(MM, u)'
    BY <1>8
  <2>2. next \in MMLocs
    BY DEF MMLocs
  <2>. QED  BY <1>3, <1>6, <1>7, <2>1, <2>2, PlacedKept
<1>11. Service'
  <2>. SUFFICES ASSUME NEW z \in Servers
       PROVE  /\ at'[z] = "serve" /\ ~Receiving(z)' => buf'[z].source \in Users \cup {MM}
              /\ Has(z, MM)' => z = FS /\ MMAwaits'
              /\ \A x \in Users : Has(z, x)' => Served(z, x)'
    BY DEF Service
  <2>1. z \in Procs /\ z # MM
    BY Names
  <2>2. \A x \in Users : ~MMKilling(x)
    BY <1>1 DEF MMKilling
  <2>3. /\ at[z] = "serve" /\ ~Receiving(z) => buf[z].source \in Users \cup {MM}
        /\ Has(z, MM) => z = FS
        /\ \A x \in Users : Has(z, x) => Served(z, x)
    BY <2>2 DEF LifeInv, Service
  <2>4. at'[z] = at[z] /\ (Receiving(z)' <=> Receiving(z)) /\ buf'[z] = buf[z]
    BY <1>4, <1>7, <2>1
  <2>5. \A y : Has(z, y)' => Has(z, y) /\ z \notin T
    <3>1. z \in T => at[z] = "loop" /\ ~Sending(z)'
      BY <1>7, <2>1, ServerBlocked
    <3>2. z \notin T => (Sending(z)' <=> Sending(z)) /\ p_sendto'[z] = p_sendto[z]
      BY <1>7, <2>1
    <3>. QED  BY <2>4, <3>1, <3>2 DEF Has
  <2>6. FS \notin T => MMAwaits'
    <3>1. FS \notin T => T = {}
      BY <1>1, <1>7
    <3>. QED  BY <1>4, <1>7, <3>1 DEF MMAwaits
  <2>. QED  BY <1>8, <2>3, <2>4, <2>5, <2>6
<1>. QED  BY <1>1, <1>3, <1>6, <1>7, <1>9, <1>10, <1>11

LEMMA MMTakeKeeps ==
    ASSUME LifeInv, MMTake
    PROVE  LifeInv'
<1>1. /\ MM \in Procs /\ MM \notin Users /\ MM \notin Servers
      /\ at[MM] = "loop" /\ ~Sending(MM)
  <2>1. Here(MM, "loop") => at[MM] = "loop" /\ ~Sending(MM)
    BY DEF Here, Runnable, Sending
  <2>. QED  BY <2>1, Names DEF MMTake
<1>2. /\ asked' = asked /\ UNCHANGED <<p_parent, exit_status, mm, shells>>
      /\ msg_receive(MM, ANY)
  BY DEF MMTake
<1>3. Moved(MM, "handle") /\ at' \in [Procs -> Locs]
  <2>1. Typed /\ "handle" \in Locs
    BY DEF LifeInv, Locs, MMLocs
  <2>. QED  BY <1>1, <2>1, Goes DEF MMTake
<1>4. at'[MM] = "handle" /\ \A x \in Procs : x # MM => at'[x] = at[x]
  BY <1>3 DEF Moved
<1>5. Waits(MM, ANY) => ReceivesFor(MM)'
  <2>1. Waits(MM, ANY) => p_recvfrom'[MM] = ANY
    BY <1>1 DEF Waits
  <2>. QED  BY <1>4, <2>1 DEF ReceivesFor
<1>6. /\ Linked' /\ Unmarked /\ ~panicked' /\ BlockedFor' /\ ~Sending(MM) /\ ~Receiving(MM)
      /\ Waits(MM, ANY) \/ \E from \in Procs : from # MM /\ Took(MM, ANY, from)
  BY <1>1, <1>2, <1>3, <1>5, ReceiveStep
<1>7. PICK T \in SUBSET Procs :
         /\ MM \notin T
         /\ \A x \in T : /\ Sending(x) /\ p_sendto[x] = MM /\ ANY \in {ANY, x}
                         /\ buf'[MM] = buf[x] /\ T = {x}
         /\ Receiving(MM)' <=> T = {}
         /\ ~Sending(MM)'
         /\ \A x \in Procs :
               /\ Sending(x)' <=> Sending(x) /\ x \notin T
               /\ x # MM => (Receiving(x)' <=> Receiving(x)) /\ buf'[x] = buf[x]
               /\ x \notin T => p_sendto'[x] = p_sendto[x]
  BY <1>1, <1>6, ReceiveParts
<1>8. \A x \in Users : \A z : Served(z, x) => Served(z, x)'
  <2>. SUFFICES ASSUME NEW x \in Users, NEW z, Served(z, x)  PROVE Served(z, x)'
    OBVIOUS
  <2>1. x \in Procs /\ x # MM
    BY Names
  <2>. QED  BY <1>2, <1>4, <1>7, <2>1 DEF Served
<1>9. \A z \in Servers : ~Has(z, MM)
  BY <1>1 DEF LifeInv, Service, MMAwaits
<1>10. Placed'
  <2>1. "handle" \in MMLocs
    BY DEF MMLocs
  <2>. QED  BY <1>2, <1>3, <1>6, <1>7, <1>8, <2>1, PlacedKept
<1>11. Service'
  <2>. SUFFICES ASSUME NEW z \in Servers
       PROVE  /\ at'[z] = "serve" /\ ~Receiving(z)' => buf'[z].source \in Users \cup {MM}
              /\ ~Has(z, MM)'
              /\ \A x \in Users : Has(z, x)' => Served(z, x)'
    BY DEF Service
  <2>1. z \in Procs /\ z # MM
    BY Names
  <2>2. \A x \in Users : ~MMKilling(x)
    BY <1>1 DEF MMKilling
  <2>3. /\ at[z] = "serve" /\ ~Receiving(z) => buf[z].source \in Users \cup {MM}
        /\ \A x \in Users : Has(z, x) => Served(z, x)
    BY <2>2 DEF LifeInv, Service
  <2>4. at'[z] = at[z] /\ (Receiving(z)' <=> Receiving(z)) /\ buf'[z] = buf[z]
    BY <1>4, <1>7, <2>1
  <2>5. \A y : Has(z, y)' => Has(z, y)
    BY <1>7, <2>1, <2>4 DEF Has
  <2>. QED  BY <1>8, <1>9, <2>3, <2>4, <2>5
<1>12. Handling'
  <2>. SUFFICES ASSUME ~Receiving(MM)'
       PROVE  /\ buf'[MM].source \in Users
              /\ ServedFor(buf[MM].source, buf[MM].body.type)'
              /\ buf'[MM].body.i1 = Status(buf'[MM].body.type)
    BY DEF Handling
  <2>1. PICK x \in T : TRUE
    BY <1>7
  <2>2. /\ x \in Procs /\ Sending(x) /\ p_sendto[x] = MM /\ buf'[MM] = buf[x]
        /\ x # MM /\ ~Sending(x)'
    BY <1>7
  <2>3. SendsFor(x)
    BY <2>2 DEF LifeInv, BlockedFor
  <2>4. x \notin Servers
    BY <1>9, <2>2, ServerBlocked
  <2>5. x \in Users
    BY <2>2, <2>3, <2>4 DEF SendsFor
  <2>6. /\ at[x] = "sent" /\ MM = Callee(asked[x]) /\ ~Waiting(x)
        /\ buf[x].source = x /\ buf[x].body.type = asked[x]
        /\ buf[x].body.i1 = Status(asked[x])
    BY <2>2, <2>5, UserBlocked
  <2>7. ServedFor(x, asked[x])'
    <3>1. at'[x] = "sent" /\ ~Sending(x)' /\ ~Waiting(x)' /\ asked'[x] = asked[x]
      BY <1>2, <1>4, <1>6, <2>2, <2>6 DEF Unmarked
    <3>. QED  BY <1>2, <2>6, <3>1 DEF ServedFor, Served
  <2>8. buf'[MM].source = x /\ buf'[MM].body.type = asked[x] /\ buf'[MM].body.i1 = Status(asked[x])
    BY <2>2, <2>6
  <2>9. ServedFor(buf[MM].source, buf[MM].body.type)'
    BY <1>2, <2>7, <2>8 DEF ServedFor, Served, Sending, Receiving, Waiting
  <2>. QED  BY <2>5, <2>8, <2>9
<1>13. Parents' /\ ZombiesUnawaited'
  <2>1. \A p \in Procs : ~Dying(p)
    BY <1>1 DEF Dying
  <2>. QED  BY <1>2, <1>6, <2>1, FamilyKept
<1>14. Typed'
  BY <1>2, <1>3 DEF LifeInv, Typed
<1>15. Forking' /\ Replying' /\ Replied' /\ Ending' /\ Reaping'
  BY <1>4 DEF Forking, Replying, Replied, Ending, Reaping
<1>16. ToldChildStays'
  <2>. SUFFICES ASSUME NEW v \in Users, NEW c \in Slots, Told(v, c)'
       PROVE  ~Free(c)' /\ p_parent'[c] = v
    BY <1>4 DEF ToldChildStays
  <2>1. /\ c \in Procs /\ v \in Procs /\ v # MM /\ asked'[v] = asked[v]
        /\ (Free(v)' <=> Free(v)) /\ (Free(c)' <=> Free(c))
    BY <1>2, <1>6, Names DEF Unmarked
  <2>2. at'[v] = at[v] /\ buf'[v] = buf[v] /\ (Receiving(v)' <=> Receiving(v))
    BY <1>4, <1>7, <2>1
  <2>3. Told(v, c)
    BY <1>4, <1>7, <2>1, <2>2 DEF Told
  <2>. QED  BY <1>2, <2>1, <2>3 DEF LifeInv, ToldChildStays
<1>. QED  BY <1>6, <1>10, <1>11, <1>12, <1>13, <1>14, <1>15, <1>16 DEF LifeInv

-----------------------------------------------------------------------------
(* What MM sends                                                           *)

LEMMA MMReplyKeeps ==
    ASSUME LifeInv, MMReply
    PROVE  LifeInv'
<1>1. /\ at[MM] = "reply" /\ ~Sending(MM) /\ MM \in Procs
      /\ UNCHANGED <<p_parent, exit_status, asked, shells>> /\ mm' = MMIdle
  BY Names DEF MMReply, MMSend, Here, Runnable, Sending
<1>2. /\ mm.src \in Users /\ mm.out \in Bodies
      /\ asked[mm.src] = "WAIT" => mm.out.pid = NO_TASK
  BY <1>1 DEF LifeInv, Replying
<1>3. PICK call \in {"FORK", "KILL", "WAIT"} : ServedFor(mm.src, call)
  BY <1>1 DEF LifeInv, Replying
<1>4. PICK v \in Users : v = mm.src
  BY <1>2
<1>5. PICK b \in Bodies : b = mm.out
  BY <1>2
<1>6. Served(MM, v) /\ ~Waiting(v) /\ ServedFor(v, call)
  BY <1>3, <1>4 DEF ServedFor
<1>7. /\ Linked' /\ Unmarked /\ ~panicked' /\ BlockedFor' /\ Placed' /\ Service'
      /\ Moved(MM, "loop") /\ at' \in [Procs -> Locs]
      /\ buf'[MM].body = b /\ buf'[MM].source = MM
      /\ Sending(MM)' => p_sendto'[MM] = v
      /\ ~Sending(MM)' => buf'[v] = buf'[MM] /\ Receiving(v)
      /\ \A x \in Users : x # v \/ Sending(MM)' =>
            /\ buf'[x] = buf[x] /\ (Receiving(x)' <=> Receiving(x))
            /\ \A t : ServedFor(x, t) => ServedFor(x, t)'
  BY <1>1, <1>4, <1>5, <1>6, MMSendsUser DEF MMReply
<1>8. at'[MM] = "loop" /\ \A x \in Procs : x # MM => at'[x] = at[x]
  BY <1>7 DEF Moved
<1>9. Typed'
  <2>1. mm' \in [src : Users \cup {NO_TASK}, op : {"EXIT", "KILL"},
                 pid : Slots \cup {NO_TASK}, status : {-1, 0, 1},
                 victim : Slots \cup {NO_TASK}, out : Bodies \cup {EMPTY}]
    BY <1>1 DEF MMIdle
  <2>. QED  BY <1>1, <1>7, <2>1 DEF LifeInv, Typed
<1>10. Parents' /\ ZombiesUnawaited'
  <2>1. \A p \in Procs : ~Dying(p)
    BY <1>1 DEF Dying
  <2>. QED  BY <1>1, <1>7, <2>1, FamilyKept
<1>11. Handling' /\ Forking' /\ Replying' /\ Ending' /\ Reaping'
  BY <1>8 DEF Handling, Forking, Replying, Ending, Reaping
<1>12. Replied'
  <2>. SUFFICES ASSUME Sending(MM)'
                PROVE  /\ ServedFor(p_sendto[MM], call)'
                       /\ asked'[p_sendto'[MM]] = "WAIT" => buf'[MM].body.pid = NO_TASK
    BY DEF Replied
  <2>1. p_sendto'[MM] = v /\ ServedFor(v, call)'
    BY <1>6, <1>7
  <2>. QED  BY <1>1, <1>2, <1>4, <1>5, <1>7, <2>1
            DEF ServedFor, Served, Sending, Receiving, Waiting
<1>13. ToldChildStays'
  <2>. SUFFICES ASSUME NEW u \in Users, NEW c \in Slots, Told(u, c)'
       PROVE  ~Free(c)' /\ p_parent'[c] = u
    BY <1>8 DEF ToldChildStays
  <2>1. /\ c \in Procs /\ u \in Procs /\ u # MM /\ asked'[u] = asked[u]
        /\ (Free(u)' <=> Free(u)) /\ (Free(c)' <=> Free(c)) /\ at'[u] = at[u]
    BY <1>1, <1>7, <1>8, Names DEF Unmarked
  <2>2. CASE Sending(MM)' /\ p_sendto'[MM] = u /\ buf'[MM].body.pid = c
    <3>1. at[MM] = "reply" /\ mm.src = u /\ mm.out.pid = c
      BY <1>1, <1>4, <1>5, <1>7, <2>2
    <3>. QED  BY <2>1, <3>1, <1>1 DEF Told, LifeInv, ToldChildStays
  <2>3. CASE /\ at'[u] = "run" /\ ~Receiving(u)' /\ ~Free(u)'
             /\ buf'[u].body.type = "SYSCALL_RET" /\ buf'[u].body.pid = c
    <3>1. CASE u # v \/ Sending(MM)'
      <4>1. Told(u, c)
        BY <1>7, <2>1, <2>3, <3>1 DEF Told
      <4>. QED  BY <1>1, <2>1, <4>1 DEF LifeInv, ToldChildStays
    <3>2. CASE u = v /\ ~Sending(MM)'
      <4>1. at[MM] = "reply" /\ mm.src = u /\ mm.out.pid = c
        BY <1>1, <1>4, <1>5, <1>7, <2>3, <3>2
      <4>2. Told(u, c)
        BY <2>1, <4>1 DEF Told
      <4>. QED  BY <1>1, <2>1, <4>2 DEF LifeInv, ToldChildStays
    <3>. QED  BY <3>1, <3>2
  <2>. QED  BY <1>8, <2>2, <2>3 DEF Told
<1>. QED  BY <1>7, <1>9, <1>10, <1>11, <1>12, <1>13 DEF LifeInv

LEMMA ForkBirthKeeps ==
    ASSUME LifeInv, ForkBirth
    PROVE  LifeInv'
<1>. DEFINE b == Body("SYSCALL_RET", 0, 0)
            out == Body("SYSCALL_RET", 0, mm.pid)
<1>1. /\ at[MM] = "birth" /\ ~Sending(MM) /\ MM \in Procs
      /\ UNCHANGED <<p_parent, exit_status, asked, shells>>
      /\ mm' = [mm EXCEPT !.out = out]
  BY Names DEF ForkBirth, MMSend, Here, Runnable, Sending
<1>2. /\ mm.src \in Users /\ mm.pid \in Slots /\ mm.src # mm.pid
      /\ ServedFor(mm.src, "FORK") /\ ServedFor(mm.pid, "FORK")
  BY <1>1 DEF LifeInv, Forking
<1>3. /\ b \in Bodies /\ b.pid = 0
      /\ out \in Bodies /\ out.pid = mm.pid
  BY <1>2, Fits
<1>4. PICK u \in Users : u = mm.src
  BY <1>2
<1>5. PICK v \in Users : v = mm.pid /\ v \in Slots
  BY <1>2, Names
<1>6. /\ Served(MM, v) /\ ~Waiting(v) /\ u # v
      /\ ServedFor(v, "FORK") /\ ServedFor(u, "FORK")
  BY <1>2, <1>4, <1>5 DEF ServedFor
<1>7. /\ Linked' /\ Unmarked /\ ~panicked' /\ BlockedFor' /\ Placed' /\ Service'
      /\ Moved(MM, "reply") /\ at' \in [Procs -> Locs]
      /\ buf'[MM].body = b /\ buf'[MM].source = MM
      /\ Sending(MM)' => p_sendto'[MM] = v
      /\ ~Sending(MM)' => buf'[v] = buf'[MM] /\ Receiving(v)
      /\ \A x \in Users : x # v \/ Sending(MM)' =>
            /\ buf'[x] = buf[x] /\ (Receiving(x)' <=> Receiving(x))
            /\ \A t : ServedFor(x, t) => ServedFor(x, t)'
  <2>1. MMSend("birth", v, b, "reply")
    BY <1>5 DEF ForkBirth
  <2>. HIDE DEF b, out
  <2>. QED  BY <1>1, <1>3, <1>6, <2>1, MMSendsUser
<1>8. at'[MM] = "reply" /\ \A x \in Procs : x # MM => at'[x] = at[x]
  BY <1>7 DEF Moved
<1>9. Typed'
  <2>1. mm \in [src : Users \cup {NO_TASK}, op : {"EXIT", "KILL"},
                pid : Slots \cup {NO_TASK}, status : {-1, 0, 1},
                victim : Slots \cup {NO_TASK}, out : Bodies \cup {EMPTY}]
    BY DEF LifeInv, Typed
  <2>2. mm' \in [src : Users \cup {NO_TASK}, op : {"EXIT", "KILL"},
                 pid : Slots \cup {NO_TASK}, status : {-1, 0, 1},
                 victim : Slots \cup {NO_TASK}, out : Bodies \cup {EMPTY}]
    BY <1>1, <1>3, <2>1
  <2>. QED  BY <1>1, <1>7, <2>2 DEF LifeInv, Typed
<1>10. mm'.src = u /\ mm'.pid = v /\ mm'.out.pid = v /\ mm'.out \in Bodies
       /\ mm.src = u /\ mm.pid = v
  <2>1. mm \in [src : Users \cup {NO_TASK}, op : {"EXIT", "KILL"},
                pid : Slots \cup {NO_TASK}, status : {-1, 0, 1},
                victim : Slots \cup {NO_TASK}, out : Bodies \cup {EMPTY}]
    BY DEF LifeInv, Typed
  <2>2. mm'.src = mm.src /\ mm'.pid = mm.pid /\ mm'.out = out
    BY <1>1, <2>1
  <2>. QED  BY <1>3, <1>4, <1>5, <2>2
<1>11. Parents' /\ ZombiesUnawaited'
  <2>1. \A p \in Procs : ~Dying(p)
    BY <1>1 DEF Dying
  <2>. QED  BY <1>1, <1>7, <2>1, FamilyKept
<1>12. Handling' /\ Forking' /\ Replied' /\ Ending' /\ Reaping'
  BY <1>8 DEF Handling, Forking, Replied, Ending, Reaping
<1>13. Replying'
  <2>1. ServedFor(u, "FORK")' /\ (Sending(MM)' => ServedFor(v, "FORK")')
    BY <1>6, <1>7
  <2>2. asked'[u] = "FORK"
    BY <1>1, <1>6 DEF ServedFor
  <2>3. ServedFor(mm.src, "FORK")'
    BY <1>10, <2>1 DEF ServedFor, Served, Sending, Receiving, Waiting
  <2>4. Sending(MM)' => ServedFor(p_sendto[MM], "FORK")'
    BY <1>7, <2>1 DEF ServedFor, Served, Sending, Receiving, Waiting
  <2>5. Sending(MM)' => p_sendto'[MM] # mm'.src /\ buf'[MM].body = Ret(0, 0)
    BY <1>6, <1>7, <1>10 DEF Ret
  <2>. QED  BY <1>8, <1>10, <2>2, <2>3, <2>4, <2>5 DEF Replying, Ret, Body
<1>14. ToldChildStays'
  <2>. SUFFICES ASSUME NEW x \in Users, NEW c \in Slots, Told(x, c)'
       PROVE  ~Free(c)' /\ p_parent'[c] = x
    BY <1>8 DEF ToldChildStays
  <2>1. /\ c \in Procs /\ x \in Procs /\ x # MM /\ asked'[x] = asked[x] /\ c # 0
        /\ (Free(x)' <=> Free(x)) /\ (Free(c)' <=> Free(c)) /\ at'[x] = at[x]
    BY <1>1, <1>7, <1>8, Names DEF Unmarked
  <2>2. buf'[MM].body.pid # c
    BY <1>3, <1>7, <2>1
  <2>3. Told(x, c)
    <3>1. CASE /\ at'[x] = "run" /\ ~Receiving(x)' /\ ~Free(x)'
               /\ buf'[x].body.type = "SYSCALL_RET" /\ buf'[x].body.pid = c
      <4>1. x # v \/ Sending(MM)'
        BY <1>7, <2>2, <3>1
      <4>. QED  BY <1>7, <2>1, <3>1, <4>1 DEF Told
    <3>2. CASE mm'.src = x /\ mm'.out.pid = c
      BY <1>1, <1>10, <2>1, <3>2 DEF Told
    <3>. QED  BY <1>8, <2>2, <3>1, <3>2 DEF Told
  <2>. QED  BY <1>1, <2>1, <2>3 DEF LifeInv, ToldChildStays
<1>. QED  BY <1>7, <1>9, <1>11, <1>12, <1>13, <1>14 DEF LifeInv

LEMMA CleanupTellsKeeps ==
    ASSUME LifeInv, CleanupTells
    PROVE  LifeInv'
<1>. DEFINE b == Body("SYSCALL_RET", exit_status[mm.victim], mm.victim)
<1>1. /\ at[MM] = "cleanup" /\ ~Sending(MM) /\ MM \in Procs
      /\ UNCHANGED <<p_parent, exit_status, asked, mm, shells>>
  BY Names DEF CleanupTells, MMSend, Here, Runnable, Sending
<1>2. /\ mm.victim \in Slots /\ Dead(mm.victim)
      /\ p_parent[mm.victim] \in Users /\ ServedFor(p_parent[mm.victim], "WAIT")
      /\ mm.op = "KILL" => /\ mm.src \in Users /\ ServedFor(mm.src, "KILL")
                           /\ mm.out = Ret(0, NO_TASK)
  BY <1>1 DEF LifeInv, Reaping, Ending
<1>3. b \in Bodies
  <2>1. mm.victim \in Procs /\ exit_status[mm.victim] \in {-1, 0, 1}
    BY <1>2, Names DEF LifeInv, Typed
  <2>. QED  BY <1>2, <2>1, Fits
<1>4. PICK v \in Users : v = p_parent[mm.victim]
  BY <1>2
<1>5. PICK w \in Slots : w = mm.victim
  BY <1>2
<1>6. Served(MM, v) /\ ~Waiting(v) /\ ServedFor(v, "WAIT") /\ Dead(w)
  BY <1>2, <1>4, <1>5 DEF ServedFor
<1>7. /\ Linked' /\ Unmarked /\ ~panicked' /\ BlockedFor' /\ Placed' /\ Service'
      /\ Moved(MM, "release") /\ at' \in [Procs -> Locs]
      /\ buf'[MM].body = Ret(exit_status[w], w) /\ buf'[MM].source = MM
      /\ Sending(MM)' => p_sendto'[MM] = v
      /\ ~Sending(MM)' => buf'[v] = buf'[MM] /\ Receiving(v)
      /\ \A x \in Users : x # v \/ Sending(MM)' =>
            /\ buf'[x] = buf[x] /\ (Receiving(x)' <=> Receiving(x))
            /\ \A t : ServedFor(x, t) => ServedFor(x, t)'
  <2>1. MMSend("cleanup", v, b, "release")
    BY <1>4 DEF CleanupTells
  <2>2. PICK m \in Bodies : m = b
    BY <1>3
  <2>3. m = Ret(exit_status[w], w)
    BY <1>5, <2>2 DEF Ret
  <2>4. MMSend("cleanup", v, m, "release")
    BY <2>1, <2>2
  <2>. HIDE DEF b
  <2>. QED  BY <1>1, <1>6, <2>3, <2>4, MMSendsUser
<1>8. at'[MM] = "release" /\ \A x \in Procs : x # MM => at'[x] = at[x]
  BY <1>7 DEF Moved
<1>9. Typed'
  BY <1>1, <1>7 DEF LifeInv, Typed
<1>10. Parents' /\ ZombiesUnawaited'
  <2>1. \A p \in Procs : Dying(p) => Dying(p)'
    BY <1>1, <1>8 DEF Dying
  <2>. QED  BY <1>1, <1>7, <2>1, FamilyKept
<1>11. Handling' /\ Forking' /\ Replying' /\ Replied'
  BY <1>8 DEF Handling, Forking, Replying, Replied
<1>12. Ending'
  <2>. SUFFICES ASSUME mm.op = "KILL"
                PROVE  mm.src \in Users /\ ServedFor(mm.src, "KILL")' /\ mm.out = Ret(0, NO_TASK)
    BY <1>1, <1>8 DEF Ending, Ret, Body
  <2>1. PICK x \in Users : x = mm.src
    BY <1>2
  <2>2. ServedFor(x, "KILL") /\ x # v
    BY <1>2, <1>6, <2>1 DEF ServedFor
  <2>3. ServedFor(x, "KILL")'
    BY <1>7, <2>2
  <2>. QED  BY <1>1, <1>2, <2>1, <2>3 DEF ServedFor, Served, Sending, Receiving, Waiting
<1>13. Reaping'
  <2>1. Dead(w)' /\ (Sending(MM)' => ServedFor(v, "WAIT")')
    BY <1>6, <1>7, Names DEF Unmarked
  <2>2. mm'.victim = w /\ p_parent' = p_parent /\ exit_status' = exit_status /\ p_parent[w] = v
    BY <1>1, <1>4, <1>5
  <2>3. Sending(MM)' => ServedFor(p_sendto[MM], "WAIT")'
    BY <1>7, <2>1 DEF ServedFor, Served, Sending, Receiving, Waiting
  <2>4. mm'.victim \in Slots /\ Dead(mm.victim)'
    BY <2>1, <2>2 DEF Dead, Receiving
  <2>5. Sending(MM)' => /\ p_sendto'[MM] = p_parent'[mm'.victim]
                        /\ buf'[MM].body = Ret(exit_status'[mm'.victim], mm'.victim)
    BY <1>7, <2>2
  <2>. QED  BY <1>8, <2>3, <2>4, <2>5 DEF Reaping, Ret, Body
<1>14. ToldChildStays'
  <2>. SUFFICES ASSUME NEW x \in Users, NEW c \in Slots, Told(x, c)'
       PROVE  ~Free(c)' /\ p_parent'[c] = x /\ mm'.victim # c
    BY DEF ToldChildStays
  <2>1. /\ c \in Procs /\ x \in Procs /\ x # MM /\ asked'[x] = asked[x]
        /\ (Free(x)' <=> Free(x)) /\ (Free(c)' <=> Free(c)) /\ at'[x] = at[x]
    BY <1>1, <1>7, <1>8, Names DEF Unmarked
  <2>2. x # v
    BY <1>6, <2>1 DEF Told, ServedFor
  <2>3. Told(x, c)
    BY <1>7, <1>8, <2>1, <2>2 DEF Told
  <2>. QED  BY <1>1, <2>1, <2>3 DEF LifeInv, ToldChildStays
<1>. QED  BY <1>7, <1>9, <1>10, <1>11, <1>12, <1>13, <1>14 DEF LifeInv

\* What MM and FS say to each other about a fork or an exit changes nothing
\* for the processes.
LEMMA AroundFS ==
    ASSUME LifeInv, NEW loc, NEW next,
           \/ loc \in {"fork", "fork_fs"} /\ next \in {"fork_fs", "birth"}
           \/ loc \in {"exit", "exit_fs"} /\ next \in {"exit_fs", "reap"},
           at[MM] = loc, Moved(MM, next), at' \in [Procs -> Locs],
           UNCHANGED <<p_parent, exit_status, asked, mm, shells>>,
           Linked', Unmarked, ~panicked', BlockedFor', Placed', Service',
           Sending(MM)' => p_sendto'[MM] = FS,
           \A x \in Users :
              /\ buf'[x] = buf[x] /\ (Receiving(x)' <=> Receiving(x))
              /\ \A call : ServedFor(x, call) => ServedFor(x, call)'
    PROVE  LifeInv'
<1>1. at'[MM] = next /\ (\A x \in Procs : x # MM => at'[x] = at[x]) /\ MM \in Procs
  BY Names DEF Moved
<1>2. Typed'
  BY DEF LifeInv, Typed
<1>3. Parents' /\ ZombiesUnawaited'
  <2>1. \A p \in Procs : Dying(p) => Dying(p)'
    BY <1>1 DEF Dying
  <2>. QED  BY <2>1, FamilyKept
<1>4. Handling' /\ Replying' /\ Replied' /\ Reaping'
  BY <1>1 DEF Handling, Replying, Replied, Reaping
<1>5. Forking'
  <2>. SUFFICES ASSUME next \in {"fork_fs", "birth"}  PROVE Forking'
    BY <1>1 DEF Forking
  <2>1. /\ mm.src \in Users /\ mm.pid \in Slots /\ mm.src # mm.pid
        /\ ServedFor(mm.src, "FORK") /\ ServedFor(mm.pid, "FORK")
    BY DEF LifeInv, Forking
  <2>2. PICK u \in Users, c \in Users : u = mm.src /\ c = mm.pid
    BY <2>1, Names
  <2>3. ServedFor(u, "FORK")' /\ ServedFor(c, "FORK")'
    BY <2>1, <2>2 DEF ServedFor, Served, Sending, Receiving, Waiting
  <2>4. ServedFor(mm.src, "FORK")' /\ ServedFor(mm.pid, "FORK")'
    BY <2>2, <2>3 DEF ServedFor, Served, Sending, Receiving, Waiting
  <2>. QED  BY <2>1, <2>4 DEF Forking
<1>6. Ending'
  <2>. SUFFICES ASSUME next \in {"exit_fs", "reap"}  PROVE Ending'
    BY <1>1 DEF Ending
  <2>1. /\ mm.op = "KILL" => /\ mm.src \in Users /\ ServedFor(mm.src, "KILL")
                             /\ mm.out = Ret(0, NO_TASK)
        /\ mm.pid \in Slots /\ Dead(mm.pid)
    BY DEF LifeInv, Ending
  <2>2. mm.op = "KILL" => ServedFor(mm.src, "KILL")'
    <3>. SUFFICES ASSUME mm.op = "KILL"  PROVE ServedFor(mm.src, "KILL")'
      OBVIOUS
    <3>1. PICK u \in Users : u = mm.src
      BY <2>1
    <3>2. ServedFor(u, "KILL")'
      BY <2>1, <3>1 DEF ServedFor, Served, Sending, Receiving, Waiting
    <3>. QED  BY <3>1, <3>2 DEF ServedFor, Served, Sending, Receiving, Waiting
  <2>3. Dead(mm.pid)'
    <3>1. PICK c \in Procs : c = mm.pid
      BY <2>1, Names
    <3>2. Dead(c)'
      BY <2>1, <3>1 DEF Unmarked, Dead, Receiving
    <3>. QED  BY <3>1, <3>2 DEF Dead, Receiving
  <2>. QED  BY <1>1, <2>1, <2>2, <2>3 DEF Ending, Ret, Body
<1>7. ToldChildStays'
  <2>. SUFFICES ASSUME NEW x \in Users, NEW c \in Slots, Told(x, c)'
       PROVE  ~Free(c)' /\ p_parent'[c] = x
    BY <1>1 DEF ToldChildStays
  <2>1. /\ c \in Procs /\ x \in Procs /\ x # MM /\ asked'[x] = asked[x] /\ x # FS
        /\ (Free(x)' <=> Free(x)) /\ (Free(c)' <=> Free(c)) /\ at'[x] = at[x]
    BY <1>1, Names DEF Unmarked
  <2>2. Told(x, c)
    BY <1>1, <2>1 DEF Told
  <2>. QED  BY <2>1, <2>2 DEF LifeInv, ToldChildStays
<1>. QED  BY <1>2, <1>3, <1>4, <1>5, <1>6, <1>7 DEF LifeInv

LEMMA TellsFSKeeps ==
    ASSUME LifeInv, ForkTellsFS \/ ExitTellsFS
    PROVE  LifeInv'
<1>1. UNCHANGED <<p_parent, exit_status, asked, mm, shells>>
  BY DEF ForkTellsFS, ExitTellsFS
<1>2. CASE ForkTellsFS
  <2>1. MMSend("fork", FS, Body("FORK", 0, mm.pid), "fork_fs") /\ at[MM] = "fork"
    BY <1>2 DEF ForkTellsFS, MMSend, Here
  <2>2. mm.pid \in Slots
    BY <2>1 DEF LifeInv, Forking
  <2>3. PICK b \in Bodies : b = Body("FORK", 0, mm.pid)
    BY <2>2, Fits DEF AllCalls
  <2>4. MMSend("fork", FS, b, "fork_fs")
    BY <2>1, <2>3
  <2>. QED  BY <1>1, <2>1, <2>4, MMSendsFS, AroundFS
<1>3. CASE ExitTellsFS
  <2>1. MMSend("exit", FS, Body("EXIT", 0, mm.pid), "exit_fs") /\ at[MM] = "exit"
    BY <1>3 DEF ExitTellsFS, MMSend, Here
  <2>2. mm.pid \in Slots
    BY <2>1 DEF LifeInv, Ending
  <2>3. PICK b \in Bodies : b = Body("EXIT", 0, mm.pid)
    BY <2>2, Fits DEF AllCalls
  <2>4. MMSend("exit", FS, b, "exit_fs")
    BY <2>1, <2>3
  <2>. QED  BY <1>1, <2>1, <2>4, MMSendsFS, AroundFS
<1>. QED  BY <1>2, <1>3

LEMMA HearsFSKeeps ==
    ASSUME LifeInv, ForkHearsFS \/ ExitHearsFS
    PROVE  LifeInv'
<1>1. UNCHANGED <<p_parent, exit_status, asked, mm, shells>>
  BY DEF ForkHearsFS, ExitHearsFS
<1>2. CASE ForkHearsFS
  <2>1. Here(MM, "fork_fs") /\ msg_receive(MM, FS) /\ GoTo(MM, "birth")
    BY <1>2 DEF ForkHearsFS
  <2>. QED  BY <1>1, <2>1, MMHearsFS, AroundFS
<1>3. CASE ExitHearsFS
  <2>1. Here(MM, "exit_fs") /\ msg_receive(MM, FS) /\ GoTo(MM, "reap")
    BY <1>3 DEF ExitHearsFS
  <2>. QED  BY <1>1, <2>1, MMHearsFS, AroundFS
<1>. QED  BY <1>2, <1>3

-----------------------------------------------------------------------------
(* What MM does to proc_table itself                                       *)

LEMMA DeadIs ==
    ASSUME LifeInv, NEW x \in Procs, Dead(x)
    PROVE  /\ x \in Slots /\ at[x] = "gone" /\ ~Free(x) /\ ~Sending(x)
           /\ \A s : ~Served(s, x)
<1>1. ReceivesFor(x) /\ p_recvfrom[x] = NO_TASK /\ ~Sending(x) /\ ~Free(x)
  BY FlagNames DEF Dead, LifeInv, BlockedFor, Linked, Fields, FieldsOf
<1>2. x \notin Servers /\ x # MM
  BY <1>1, Names, ServerBlocked, MMBlocked
<1>3. x \in Users
  BY <1>1, <1>2, Names DEF ReceivesFor
<1>4. x \in Slots /\ at[x] = "gone"
  BY <1>3, UserBlocked
<1>. QED  BY <1>1, <1>4 DEF Served

\* A step of MM that is no kernel call.
LEMMA MMQuiet ==
    ASSUME LifeInv, NEW loc \in {"handle", "reap", "adopt", "release"}, NEW next \in MMLocs,
           Here(MM, loc), Moved(MM, next), asked' = asked, Linked', OnlyFlags,
           \A x \in Procs : /\ Sending(x)' <=> Sending(x)
                            /\ Receiving(x)' => Receiving(x)
                            /\ Receiving(x) /\ ~Dead(x) => Receiving(x)'
                            /\ Free(x)' => Free(x) \/ Dead(x)
                            /\ Waiting(x)' => Waiting(x) \/ (x \in Users /\ ServedFor(x, "WAIT"))
    PROVE  /\ BlockedFor' /\ Placed' /\ Service' /\ ~panicked'
           /\ at[MM] = loc /\ ~Sending(MM) /\ ~Receiving(MM)
           /\ at'[MM] = next /\ ~Sending(MM)' /\ ~Receiving(MM)'
           /\ \A x \in Users : /\ at'[x] = at[x] /\ buf'[x] = buf[x]
                               /\ ~Dead(x) => (Receiving(x)' <=> Receiving(x))
           /\ \A x \in Users : \A call :
                 ServedFor(x, call) /\ (Waiting(x)' => Waiting(x)) => ServedFor(x, call)'
<1>1. MM \in Procs /\ MM \notin Users /\ at[MM] = loc /\ ~Sending(MM) /\ ~Receiving(MM)
  BY Names DEF Here, Runnable, Sending, Receiving
<1>2. at'[MM] = next /\ \A x \in Procs : x # MM => at'[x] = at[x]
  BY DEF Moved
<1>3. BlockedFor'
  BY <1>2, QuietStep DEF OnlyFlags
<1>4. \A x \in Users : /\ at'[x] = at[x] /\ buf'[x] = buf[x]
                       /\ ~Dead(x) => (Receiving(x)' <=> Receiving(x))
  BY <1>2, Names DEF OnlyFlags
<1>5. \A x \in Users : \A z : Served(z, x) => Served(z, x)'
  <2>. SUFFICES ASSUME NEW x \in Users, NEW z, Served(z, x)  PROVE Served(z, x)'
    OBVIOUS
  <2>1. x \in Procs /\ ~Dead(x)
    BY Names, ServedIs
  <2>. QED  BY <1>4, <2>1 DEF Served
<1>6. \A x \in Users : \A call :
         ServedFor(x, call) /\ (Waiting(x)' => Waiting(x)) => ServedFor(x, call)'
  BY <1>5 DEF ServedFor
<1>7. Placed'
  <2>1. \A s \in Servers : at'[s] \in ServerLocs
    BY <1>2, Names DEF LifeInv, Placed
  <2>2. ASSUME NEW v \in Users  PROVE at'[v] \in UserLocs /\ (at'[v] = "sent" => ~Free(v)')
    <3>1. v \in Procs /\ (Free(v)' => Free(v) \/ at[v] = "gone")
      BY Names, DeadIs
    <3>. QED  BY <1>4, <3>1 DEF LifeInv, Placed
  <2>3. asked'[InitProc] = "EXIT" => at'[InitProc] = "run" /\ ~Receiving(InitProc)'
    <3>1. InitProc \in Users /\ InitProc \in Procs
      BY Names
    <3>. QED  BY <1>4, <3>1 DEF LifeInv, Placed
  <2>4. ASSUME NEW p \in Native  PROVE ~Free(p)'
    <3>1. p \in Procs /\ ~Free(p) /\ p \notin Slots
      BY IpcAssumption DEF LifeInv, Placed, Slots
    <3>. QED  BY <3>1, DeadIs
  <2>5. ASSUME NEW p \in Procs, Waiting(p)'
        PROVE  p \in Users /\ Served(MM, p)' /\ asked'[p] = "WAIT"
    <3>1. p \in Users /\ Served(MM, p) /\ asked[p] = "WAIT"
      BY <2>5 DEF LifeInv, Placed, ServedFor
    <3>. QED  BY <1>5, <3>1
  <2>. QED  BY <1>2, <2>1, <2>2, <2>3, <2>4, <2>5 DEF Placed
<1>8. Service'
  <2>. SUFFICES ASSUME NEW z \in Servers
       PROVE  /\ at'[z] = "serve" /\ ~Receiving(z)' => buf'[z].source \in Users \cup {MM}
              /\ ~Has(z, MM)'
              /\ \A x \in Users : Has(z, x)' => Served(z, x)'
    BY DEF Service
  <2>1. z \in Procs /\ z # MM /\ ~Dead(z)
    BY Names, ServerBlocked
  <2>2. ~MMAwaits /\ \A x \in Users : ~MMKilling(x)
    BY <1>1 DEF MMKilling, MMAwaits
  <2>3. /\ at[z] = "serve" /\ ~Receiving(z) => buf[z].source \in Users \cup {MM}
        /\ ~Has(z, MM)
        /\ \A x \in Users : Has(z, x) => Served(z, x)
    BY <2>2 DEF LifeInv, Service
  <2>4. /\ at'[z] = at[z] /\ (Receiving(z)' <=> Receiving(z)) /\ buf'[z] = buf[z]
        /\ (Sending(z)' <=> Sending(z)) /\ p_sendto'[z] = p_sendto[z]
    BY <1>2, <2>1 DEF OnlyFlags
  <2>5. \A y : Has(z, y)' => Has(z, y)
    BY <2>4 DEF Has
  <2>. QED  BY <1>5, <2>3, <2>4, <2>5
<1>9. ~panicked' /\ ~Sending(MM)' /\ ~Receiving(MM)'
  BY <1>1 DEF OnlyFlags, LifeInv
<1>. QED  BY <1>1, <1>2, <1>3, <1>4, <1>6, <1>7, <1>8, <1>9

\* The same for a step that leaves p_flags alone, too.
LEMMA MMQuieter ==
    ASSUME LifeInv, NEW loc \in {"handle", "reap", "adopt", "release"}, NEW next \in MMLocs,
           Here(MM, loc), Moved(MM, next), asked' = asked, UNCHANGED vars
    PROVE  /\ Linked' /\ Unmarked /\ BlockedFor' /\ Placed' /\ Service' /\ ~panicked'
           /\ at[MM] = loc /\ ~Sending(MM) /\ ~Receiving(MM)
           /\ at'[MM] = next /\ ~Sending(MM)' /\ ~Receiving(MM)'
           /\ \A x \in Users : /\ at'[x] = at[x] /\ buf'[x] = buf[x]
                               /\ Receiving(x)' <=> Receiving(x)
           /\ \A x \in Users : \A call : ServedFor(x, call) => ServedFor(x, call)'
<1>1. Linked' /\ Unmarked
  BY SameLinked DEF LifeInv
<1>2. /\ OnlyFlags
      /\ \A x \in Procs : /\ Sending(x)' <=> Sending(x)
                          /\ Receiving(x)' <=> Receiving(x)
                          /\ Free(x)' <=> Free(x)
                          /\ Waiting(x)' <=> Waiting(x)
  BY DEF vars, OnlyFlags, Sending, Receiving, Free, Waiting
<1>3. Users \subseteq Procs
  BY Names
<1>. QED  BY <1>1, <1>2, <1>3, MMQuiet

\* The request that MM handles.
LEMMA HandlesIs ==
    ASSUME LifeInv, NEW call, NEW src \in Users, Handles(call, src)
    PROVE  /\ Here(MM, "handle") /\ at[MM] = "handle" /\ ~Sending(MM) /\ ~Receiving(MM)
           /\ ServedFor(src, call) /\ buf[MM].body.i1 = Status(call)
           /\ src \in Procs /\ ~Free(src) /\ ~Dead(src) /\ ~Sending(src)
           /\ \A p \in Procs : ~Dying(p)
<1>1. /\ Here(MM, "handle") /\ at[MM] = "handle" /\ ~Sending(MM) /\ ~Receiving(MM)
      /\ buf[MM].body.type = call /\ src = buf[MM].source
  BY DEF Handles, Here, Runnable, Sending, Receiving
<1>2. ServedFor(src, call) /\ buf[MM].body.i1 = Status(call)
  BY <1>1 DEF LifeInv, Handling, ServedFor, Served, Waiting, Sending, Receiving
<1>3. src \in Procs /\ ~Free(src) /\ ~Dead(src) /\ ~Sending(src)
  BY <1>2, Names, ServedIs DEF ServedFor
<1>. QED  BY <1>1, <1>2, <1>3 DEF Dying

\* MM decides on its answer.
LEMMA AnswerKeeps ==
    ASSUME LifeInv, NEW src \in Users, NEW call \in {"FORK", "KILL", "WAIT"},
           Handles(call, src), NEW i1 \in {-1, 0},
           MMAnswer(src, Body("SYSCALL_RET", i1, NO_TASK)),
           UNCHANGED <<vars, p_parent, exit_status, asked, shells>>
    PROVE  LifeInv'
<1>. DEFINE b == Body("SYSCALL_RET", i1, NO_TASK)
<1>1. /\ Here(MM, "handle") /\ ServedFor(src, call) /\ MM \in Procs
      /\ \A p \in Procs : ~Dying(p)
  BY HandlesIs, Names
<1>2. Moved(MM, "reply") /\ at' \in [Procs -> Locs]
  <2>1. Typed /\ "reply" \in Locs /\ GoTo(MM, "reply")
    BY DEF LifeInv, Locs, MMLocs, MMAnswer
  <2>. QED  BY <1>1, <2>1, Goes
<1>3. /\ Linked' /\ Unmarked /\ BlockedFor' /\ Placed' /\ Service' /\ ~panicked'
      /\ at'[MM] = "reply" /\ ~Sending(MM)'
      /\ \A x \in Users : /\ at'[x] = at[x] /\ buf'[x] = buf[x]
                          /\ Receiving(x)' <=> Receiving(x)
      /\ \A x \in Users : \A t : ServedFor(x, t) => ServedFor(x, t)'
  <2>1. "reply" \in MMLocs
    BY DEF MMLocs
  <2>. QED  BY <1>1, <1>2, <2>1, MMQuieter
<1>4. b \in Bodies /\ b.pid = NO_TASK
  BY Fits
<1>5. mm' = [MMIdle EXCEPT !.src = src, !.out = b]
  BY DEF MMAnswer
<1>. HIDE DEF b
<1>6. Typed'
  <2>1. mm' \in [src : Users \cup {NO_TASK}, op : {"EXIT", "KILL"},
                 pid : Slots \cup {NO_TASK}, status : {-1, 0, 1},
                 victim : Slots \cup {NO_TASK}, out : Bodies \cup {EMPTY}]
    BY <1>4, <1>5 DEF MMIdle
  <2>. QED  BY <1>2, <2>1 DEF LifeInv, Typed
<1>7. mm'.src = src /\ mm'.out = b
  BY <1>5 DEF MMIdle
<1>8. Parents' /\ ZombiesUnawaited'
  BY <1>1, <1>3, FamilyKept
<1>9. Handling' /\ Forking' /\ Replied' /\ Ending' /\ Reaping'
  BY <1>3 DEF Handling, Forking, Replied, Ending, Reaping
<1>10. Replying'
  <2>1. ServedFor(src, call)'
    BY <1>1, <1>3
  <2>2. ServedFor(mm.src, call)'
    BY <1>7, <2>1 DEF ServedFor, Served, Sending, Receiving, Waiting
  <2>. QED  BY <1>3, <1>4, <1>7, <2>2 DEF Replying
<1>11. ToldChildStays'
  <2>. SUFFICES ASSUME NEW x \in Users, NEW c \in Slots, Told(x, c)'
       PROVE  ~Free(c)' /\ p_parent'[c] = x
    BY <1>3 DEF ToldChildStays
  <2>1. /\ c \in Procs /\ x \in Procs /\ c # NO_TASK
        /\ (Free(x)' <=> Free(x)) /\ (Free(c)' <=> Free(c))
    BY <1>3, Names DEF Unmarked
  <2>2. Told(x, c)
    BY <1>3, <1>4, <1>7, <2>1 DEF Told
  <2>. QED  BY <2>1, <2>2 DEF LifeInv, ToldChildStays
<1>. QED  BY <1>3, <1>6, <1>8, <1>9, <1>10, <1>11 DEF LifeInv

LEMMA FirstIs ==
    ASSUME NEW S \in SUBSET Procs, S # {}
    PROVE  First(S) \in S
<1>1. S \in SUBSET Nat
  BY Names
<1>. QED  BY <1>1, LeastExists DEF First

LEMMA WaitKeeps ==
    ASSUME LifeInv, NEW src \in Users, Wait(src)
    PROVE  LifeInv'
<1>. DEFINE zombies == {i \in Children(src) : Hanging(i)}
<1>1. Handles("WAIT", src) /\ UNCHANGED <<p_parent, exit_status, asked, shells>>
  BY DEF Wait
<1>2. /\ Here(MM, "handle") /\ at[MM] = "handle" /\ ServedFor(src, "WAIT")
      /\ MM \in Procs /\ src \in Procs /\ src # MM /\ ~Free(src) /\ ~Dead(src)
      /\ \A p \in Procs : ~Dying(p)
  BY <1>1, HandlesIs, Names
<1>3. CASE /\ zombies # {}
           /\ mm' = [MMIdle EXCEPT !.victim = First(zombies)]
           /\ GoTo(MM, "cleanup")
           /\ UNCHANGED vars
  <2>1. PICK v \in zombies : v = First(zombies)
    BY <1>3, FirstIs DEF Children
  <2>2. v \in Procs /\ p_parent[v] = src /\ Hanging(v)
    BY DEF Children
  <2>3. v \in Slots /\ Dead(v)
    BY <2>2 DEF LifeInv, ZombiesUnawaited
  <2>4. mm' = [MMIdle EXCEPT !.victim = v]
    BY <1>3, <2>1
  <2>. HIDE DEF zombies
  <2>5. Moved(MM, "cleanup") /\ at' \in [Procs -> Locs]
    <3>1. Typed /\ "cleanup" \in Locs
      BY DEF LifeInv, Locs, MMLocs
    <3>. QED  BY <1>2, <1>3, <3>1, Goes
  <2>6. /\ Linked' /\ Unmarked /\ BlockedFor' /\ Placed' /\ Service' /\ ~panicked'
        /\ at'[MM] = "cleanup" /\ ~Sending(MM)'
        /\ \A x \in Users : /\ at'[x] = at[x] /\ buf'[x] = buf[x]
                            /\ Receiving(x)' <=> Receiving(x)
        /\ \A x \in Users : \A t : ServedFor(x, t) => ServedFor(x, t)'
    <3>1. "cleanup" \in MMLocs
      BY DEF MMLocs
    <3>. QED  BY <1>1, <1>2, <1>3, <2>5, <3>1, MMQuieter
  <2>7. Typed'
    <3>1. mm' \in [src : Users \cup {NO_TASK}, op : {"EXIT", "KILL"},
                   pid : Slots \cup {NO_TASK}, status : {-1, 0, 1},
                   victim : Slots \cup {NO_TASK}, out : Bodies \cup {EMPTY}]
      BY <2>3, <2>4 DEF MMIdle
    <3>. QED  BY <1>1, <2>5, <3>1 DEF LifeInv, Typed
  <2>8. mm'.victim = v /\ mm'.op = "EXIT"
    BY <2>4 DEF MMIdle
  <2>9. Parents' /\ ZombiesUnawaited'
    BY <1>1, <1>2, <2>6, FamilyKept
  <2>10. Handling' /\ Forking' /\ Replying' /\ Replied' /\ Ending'
    BY <2>6, <2>8 DEF Handling, Forking, Replying, Replied, Ending
  <2>11. Reaping'
    <3>1. Dead(v)' /\ p_parent'[v] = src /\ ServedFor(src, "WAIT")'
      BY <1>1, <1>2, <2>2, <2>3, <2>6 DEF Unmarked
    <3>2. ServedFor(p_parent[mm.victim], "WAIT")'
      BY <2>8, <3>1 DEF ServedFor, Served, Sending, Receiving, Waiting
    <3>3. mm'.victim \in Slots /\ Dead(mm.victim)' /\ p_parent'[mm'.victim] \in Users
      BY <2>3, <2>8, <3>1 DEF Dead, Receiving
    <3>. QED  BY <2>6, <3>2, <3>3 DEF Reaping
  <2>12. ToldChildStays'
    <3>. SUFFICES ASSUME NEW x \in Users, NEW c \in Slots, Told(x, c)'
         PROVE  ~Free(c)' /\ p_parent'[c] = x /\ mm'.victim # c
      BY DEF ToldChildStays
    <3>1. /\ c \in Procs /\ x \in Procs
          /\ (Free(x)' <=> Free(x)) /\ (Free(c)' <=> Free(c))
      BY <2>6, Names DEF Unmarked
    <3>2. Told(x, c)
      BY <1>1, <2>6, <3>1 DEF Told
    <3>3. ~Free(c) /\ p_parent[c] = x /\ asked[x] = "FORK"
      BY <3>2 DEF LifeInv, ToldChildStays, Told
    <3>. QED  BY <1>1, <1>2, <2>2, <2>8, <3>1, <3>3 DEF ServedFor
  <2>. QED  BY <2>6, <2>7, <2>9, <2>10, <2>11, <2>12 DEF LifeInv
<1>4. CASE /\ zombies = {}
           /\ p_flags' = [p_flags EXCEPT ![src] = @ \cup {"WAITING"}]
           /\ GoTo(MM, "loop")
           /\ OnlyFlags
           /\ mm' = mm
  <2>1. TypeOK /\ Fields
    BY DEF LifeInv, Linked
  <2>2. \A x \in Procs : p_flags'[x] = IF x = src THEN p_flags[src] \cup {"WAITING"} ELSE p_flags[x]
    BY <1>2, <1>4, <2>1 DEF TypeOK
  <2>3. "FREE_SLOT" \notin p_flags[src]
    BY <1>2, <2>1 DEF Fields, FieldsOf
  <2>4. ASSUME NEW x \in Procs
        PROVE  /\ Sending(x)' <=> Sending(x)
               /\ Receiving(x)' <=> Receiving(x)
               /\ Hanging(x)' <=> Hanging(x)
               /\ Waiting(x)' <=> Waiting(x) \/ x = src
               /\ Free(x)' <=> Free(x)
               /\ Dead(x)' <=> Dead(x)
               /\ "FREE_SLOT" \in p_flags'[x] => Free(x)'
    <3>1. "FREE_SLOT" \in p_flags[x] => Free(x)
      BY <2>1 DEF Fields, FieldsOf
    <3>. QED  BY <1>2, <1>4, <2>2, <2>3, <3>1
              DEF Sending, Receiving, Hanging, Waiting, Free, Dead, OnlyFlags
  <2>5. p_flags' \in [Procs -> SUBSET Flags]
    BY <1>4, <2>1 DEF TypeOK, Flags
  <2>6. Linked'
    BY <1>4, <2>4, <2>5, FlagsLinked DEF LifeInv
  <2>7. Moved(MM, "loop") /\ at' \in [Procs -> Locs]
    <3>1. Typed /\ "loop" \in Locs
      BY DEF LifeInv, Locs, MMLocs
    <3>. QED  BY <1>2, <1>4, <3>1, Goes
  <2>8. /\ BlockedFor' /\ Placed' /\ Service' /\ ~panicked'
        /\ at'[MM] = "loop" /\ ~Sending(MM)'
        /\ \A x \in Users : at'[x] = at[x] /\ buf'[x] = buf[x]
    <3>1. "loop" \in MMLocs
      BY DEF MMLocs
    <3>. QED  BY <1>1, <1>2, <1>4, <2>4, <2>6, <2>7, <3>1, MMQuiet
  <2>9. Typed'
    BY <1>1, <1>4, <2>7 DEF LifeInv, Typed
  <2>10. Handling' /\ Forking' /\ Replying' /\ Replied' /\ Ending' /\ Reaping'
    BY <2>8 DEF Handling, Forking, Replying, Replied, Ending, Reaping
  <2>11. Parents'
    <3>1. \A p \in Procs : (Alive(p)' <=> Alive(p)) /\ (Free(p)' <=> Free(p))
      BY <2>4 DEF Alive
    <3>. QED  BY <1>1, <1>2, <3>1, Names DEF LifeInv, Parents
  <2>12. ZombiesUnawaited'
    <3>1. \A p \in Procs : Hanging(p) => /\ p \in Slots /\ ~Free(p) /\ p_parent[p] \in Procs
                                         /\ Dead(p) /\ ~Waiting(p_parent[p])
                                         /\ p_parent[p] # src
      BY <1>4, FlagNames, Names DEF LifeInv, Linked, ZombiesUnawaited, Parents, Children
    <3>. QED  BY <1>1, <2>4, <3>1 DEF ZombiesUnawaited
  <2>13. ToldChildStays'
    <3>. SUFFICES ASSUME NEW x \in Users, NEW c \in Slots, Told(x, c)'
         PROVE  ~Free(c)' /\ p_parent'[c] = x
      BY <2>8 DEF ToldChildStays
    <3>1. c \in Procs /\ x \in Procs
      BY Names
    <3>2. Told(x, c)
      BY <1>1, <2>4, <2>8, <3>1 DEF Told
    <3>. QED  BY <1>1, <2>4, <3>1, <3>2 DEF LifeInv, ToldChildStays
  <2>. QED  BY <2>6, <2>8, <2>9, <2>10, <2>11, <2>12, <2>13 DEF LifeInv
<1>5. CASE MMAnswer(src, Body("SYSCALL_RET", 0, NO_TASK)) /\ UNCHANGED vars
  BY <1>1, <1>5, AnswerKeeps
<1>. QED  BY <1>3, <1>4, <1>5 DEF Wait

\* MM has ended a process and goes on: it answers the killer, or takes the
\* next request.
LEMMA FinishKeeps ==
    ASSUME LifeInv, at[MM] \in {"adopt", "release"},
           at'[MM] = Finish, mm' = (IF mm.op = "KILL" THEN mm ELSE MMIdle), ~Sending(MM)',
           \A x \in Users : \A call :
              ServedFor(x, call) /\ (Waiting(x)' => Waiting(x)) => ServedFor(x, call)',
           \A x \in Users : Waiting(x)' => Waiting(x), asked' = asked
    PROVE  /\ Handling' /\ Forking' /\ Replying' /\ Replied' /\ Ending' /\ Reaping'
           /\ mm' \in [src : Users \cup {NO_TASK}, op : {"EXIT", "KILL"},
                       pid : Slots \cup {NO_TASK}, status : {-1, 0, 1},
                       victim : Slots \cup {NO_TASK}, out : Bodies \cup {EMPTY}]
           /\ at'[MM] \in {"loop", "reply"}
           /\ at'[MM] = "reply" => mm'.out.pid = NO_TASK
<1>1. mm.op = "KILL" => /\ mm.src \in Users /\ ServedFor(mm.src, "KILL")
                        /\ mm.out = Ret(0, NO_TASK)
  BY DEF LifeInv, Ending
<1>2. at'[MM] = (IF mm.op = "KILL" THEN "reply" ELSE "loop")
  BY DEF Finish
<1>3. Handling' /\ Forking' /\ Replied' /\ Ending' /\ Reaping'
  BY <1>2 DEF Handling, Forking, Replied, Ending, Reaping
<1>4. mm' \in [src : Users \cup {NO_TASK}, op : {"EXIT", "KILL"},
               pid : Slots \cup {NO_TASK}, status : {-1, 0, 1},
               victim : Slots \cup {NO_TASK}, out : Bodies \cup {EMPTY}]
  BY DEF MMIdle, LifeInv, Typed
<1>5. Ret(0, NO_TASK) \in Bodies /\ Ret(0, NO_TASK).pid = NO_TASK
  BY Fits DEF Ret
<1>6. Replying'
  <2>. SUFFICES ASSUME mm.op = "KILL"  PROVE Replying'
    BY <1>2 DEF Replying
  <2>1. PICK x \in Users : x = mm.src
    BY <1>1
  <2>2. ServedFor(x, "KILL")
    BY <1>1, <2>1
  <2>3. ServedFor(x, "KILL")' /\ asked'[x] = "KILL"
    BY <2>2 DEF ServedFor
  <2>4. mm' = mm /\ mm.out \in Bodies
    BY <1>1, <1>5
  <2>5. ServedFor(mm.src, "KILL")'
    BY <2>1, <2>3, <2>4 DEF ServedFor, Served, Sending, Receiving, Waiting
  <2>. QED  BY <2>1, <2>3, <2>4, <2>5 DEF Replying
<1>. QED  BY <1>1, <1>2, <1>3, <1>4, <1>5, <1>6

LEMMA ReleaseKeeps ==
    ASSUME LifeInv, CleanupReleases
    PROVE  LifeInv'
<1>1. /\ Here(MM, "release") /\ at[MM] = "release" /\ MM \in Procs
      /\ UNCHANGED <<p_parent, exit_status, asked, shells>> /\ OnlyFlags
  BY Names DEF CleanupReleases, Here
<1>2. mm.victim \in Slots /\ Dead(mm.victim)
  BY <1>1 DEF LifeInv, Reaping
<1>3. PICK v \in Slots : v = mm.victim
  BY <1>2
<1>4. v \in Procs /\ Dead(v) /\ ~Sending(v) /\ ~Free(v)
  BY <1>2, <1>3, Names, DeadIs
<1>5. TypeOK /\ Fields
  BY DEF LifeInv, Linked
<1>6. p_flags' = [p_flags EXCEPT ![v] = {"FREE_SLOT"}]
  BY <1>3 DEF CleanupReleases
<1>7. \A x \in Procs : p_flags'[x] = IF x = v THEN {"FREE_SLOT"} ELSE p_flags[x]
  BY <1>4, <1>5, <1>6 DEF TypeOK
<1>8. ASSUME NEW x \in Procs
      PROVE  /\ Sending(x)' <=> Sending(x)
             /\ Receiving(x)' <=> Receiving(x) /\ x # v
             /\ Hanging(x)' <=> Hanging(x) /\ x # v
             /\ Waiting(x)' <=> Waiting(x) /\ x # v
             /\ Free(x)' <=> Free(x) \/ x = v
             /\ Dead(x)' <=> Dead(x) /\ x # v
             /\ "FREE_SLOT" \in p_flags'[x] => Free(x)'
  <2>1. "FREE_SLOT" \in p_flags[x] => Free(x)
    BY <1>5 DEF Fields, FieldsOf
  <2>2. p_flags'[x] = (IF x = v THEN {"FREE_SLOT"} ELSE p_flags[x]) /\ p_recvfrom' = p_recvfrom
    BY <1>1, <1>7 DEF OnlyFlags
  <2>. QED  BY <1>4, <2>1, <2>2 DEF Sending, Receiving, Hanging, Waiting, Free, Dead
<1>9. p_flags' \in [Procs -> SUBSET Flags]
  BY <1>5, <1>6 DEF TypeOK, Flags
<1>10. Linked'
  BY <1>1, <1>4, <1>8, <1>9, FlagsLinked DEF LifeInv
<1>11. PICK next \in MMLocs : GoTo(MM, next) /\ next = (IF mm.victim = mm.pid THEN "adopt" ELSE Finish)
  BY DEF CleanupReleases, Finish, MMLocs
<1>12. Moved(MM, next) /\ at' \in [Procs -> Locs]
  <2>1. Typed /\ next \in Locs
    BY DEF LifeInv, Locs
  <2>. QED  BY <1>1, <1>11, <2>1, Goes
<1>13. /\ BlockedFor' /\ Placed' /\ Service' /\ ~panicked'
       /\ at'[MM] = next /\ ~Sending(MM)'
       /\ \A x \in Users : /\ at'[x] = at[x] /\ buf'[x] = buf[x]
                           /\ ~Dead(x) => (Receiving(x)' <=> Receiving(x))
       /\ \A x \in Users : \A call :
             ServedFor(x, call) /\ (Waiting(x)' => Waiting(x)) => ServedFor(x, call)'
  <2>1. \A x \in Procs : /\ Sending(x)' <=> Sending(x)
                         /\ Receiving(x)' => Receiving(x)
                         /\ Receiving(x) /\ ~Dead(x) => Receiving(x)'
                         /\ Free(x)' => Free(x) \/ Dead(x)
                         /\ Waiting(x)' => Waiting(x) \/ (x \in Users /\ ServedFor(x, "WAIT"))
    BY <1>4, <1>8
  <2>. QED  BY <1>1, <1>10, <1>12, <2>1, MMQuiet
<1>14. \A x \in Users : Waiting(x)' => Waiting(x)
  BY <1>8, Names
<1>15. /\ mm' \in [src : Users \cup {NO_TASK}, op : {"EXIT", "KILL"},
                   pid : Slots \cup {NO_TASK}, status : {-1, 0, 1},
                   victim : Slots \cup {NO_TASK}, out : Bodies \cup {EMPTY}]
       /\ Handling' /\ Forking' /\ Replying' /\ Replied' /\ Ending' /\ Reaping'
       /\ at'[MM] \in {"adopt", "loop", "reply"}
       /\ at'[MM] = "reply" => mm'.out.pid = NO_TASK
       /\ at'[MM] = "adopt" <=> v = mm.pid
       /\ at'[MM] = "adopt" => mm' = mm
  <2>1. CASE mm.victim = mm.pid
    <3>1. at'[MM] = "adopt" /\ mm' = mm
      BY <1>11, <1>13, <2>1 DEF CleanupReleases
    <3>2. Handling' /\ Forking' /\ Replying' /\ Replied' /\ Reaping'
      BY <3>1 DEF Handling, Forking, Replying, Replied, Reaping
    <3>3. Ending'
      <4>1. mm.op = "KILL" => /\ mm.src \in Users /\ ServedFor(mm.src, "KILL")
                              /\ mm.out = Ret(0, NO_TASK)
        BY <1>1 DEF LifeInv, Ending
      <4>2. mm.op = "KILL" => ServedFor(mm.src, "KILL")'
        <5>. SUFFICES ASSUME mm.op = "KILL"  PROVE ServedFor(mm.src, "KILL")'
          OBVIOUS
        <5>1. PICK x \in Users : x = mm.src
          BY <4>1
        <5>2. ServedFor(x, "KILL")'
          BY <1>13, <1>14, <4>1, <5>1
        <5>. QED  BY <3>1, <5>1, <5>2 DEF ServedFor, Served, Sending, Receiving, Waiting
      <4>3. Free(mm.pid)'
        BY <1>3, <1>4, <1>7, <2>1, <3>1 DEF Free
      <4>. QED  BY <1>3, <2>1, <3>1, <4>1, <4>2, <4>3 DEF Ending, Ret, Body
    <3>. QED  BY <1>3, <2>1, <3>1, <3>2, <3>3 DEF LifeInv, Typed
  <2>2. CASE mm.victim # mm.pid
    <3>1. at'[MM] = Finish /\ mm' = (IF mm.op = "KILL" THEN mm ELSE MMIdle)
      BY <1>11, <1>13, <2>2 DEF CleanupReleases
    <3>2. at'[MM] # "adopt"
      BY <3>1 DEF Finish
    <3>. QED  BY <1>1, <1>3, <1>13, <1>14, <2>2, <3>1, <3>2, FinishKeeps
  <2>. QED  BY <2>1, <2>2
<1>16. Typed'
  BY <1>1, <1>12, <1>15 DEF LifeInv, Typed
<1>17. Parents'
  <2>. SUFFICES ASSUME NEW x \in Slots, ~Free(x)'
                PROVE  /\ p_parent[x] \in Users \ {x}
                       /\ Alive(p_parent[x])' \/ Dying(p_parent[x])'
    BY <1>1 DEF Parents
  <2>1. x \in Procs /\ ~Free(x)
    BY <1>8, Names
  <2>2. /\ p_parent[x] \in Users \ {x}
        /\ Alive(p_parent[x]) \/ Dying(p_parent[x])
    BY <2>1 DEF LifeInv, Parents
  <2>3. PICK u \in Users : u = p_parent[x]
    BY <2>2
  <2>4. Alive(u)' \/ Dying(u)'
    <3>1. CASE Alive(u)
      BY <1>4, <1>8, <3>1, Names DEF Alive
    <3>2. CASE Dying(u)
      <4>1. u = mm.pid /\ v = mm.pid
        BY <1>1, <1>3, <3>2 DEF Dying
      <4>. QED  BY <1>15, <4>1 DEF Dying
    <3>. QED  BY <2>2, <2>3, <3>1, <3>2
  <2>5. Alive(p_parent[x])' \/ Dying(p_parent[x])'
    BY <1>1, <2>3, <2>4 DEF Alive, Dying, Free, Dead, Receiving
  <2>. QED  BY <2>2, <2>5
<1>18. ZombiesUnawaited'
  <2>. SUFFICES ASSUME NEW p \in Procs, Hanging(p)'
                PROVE  p \in Slots /\ Dead(p)' /\ ~Waiting(p_parent[p])'
    BY DEF ZombiesUnawaited
  <2>1. p # v /\ Hanging(p) /\ p \in Slots /\ Dead(p) /\ ~Waiting(p_parent[p])
    BY <1>8 DEF LifeInv, ZombiesUnawaited
  <2>2. PICK u \in Procs : u = p_parent[p]
    BY <2>1, FlagNames, Names DEF LifeInv, Linked, Parents
  <2>3. ~Waiting(u)'
    BY <1>8, <2>1, <2>2
  <2>. QED  BY <1>1, <1>8, <2>1, <2>2, <2>3 DEF Waiting
<1>19. ToldChildStays'
  <2>. SUFFICES ASSUME NEW x \in Users, NEW c \in Slots, Told(x, c)'
       PROVE  ~Free(c)' /\ p_parent'[c] = x
    BY <1>15 DEF ToldChildStays
  <2>1. c \in Procs /\ x \in Procs /\ c # NO_TASK
    BY Names
  <2>2. /\ asked'[x] = "FORK" /\ at'[x] = "run" /\ ~Receiving(x)' /\ ~Free(x)'
        /\ buf'[x].body.type = "SYSCALL_RET" /\ buf'[x].body.pid = c
    BY <1>13, <1>15, <2>1 DEF Told
  <2>3. Told(x, c)
    <3>1. x # v /\ ~Free(x)
      BY <1>8, <2>1, <2>2
    <3>2. ~Receiving(x)
      BY <1>8, <2>1, <2>2, <3>1
    <3>. QED  BY <1>1, <1>13, <2>2, <3>1, <3>2 DEF Told
  <2>4. ~Free(c) /\ p_parent[c] = x /\ v # c
    BY <1>1, <1>3, <2>3 DEF LifeInv, ToldChildStays
  <2>. QED  BY <1>1, <1>8, <2>1, <2>4
<1>. QED  BY <1>10, <1>13, <1>15, <1>16, <1>17, <1>18, <1>19 DEF LifeInv

\* The process has left FS: its parent is told at once, or it becomes a zombie.
LEMMA ExitReapsKeeps ==
    ASSUME LifeInv, ExitReaps
    PROVE  LifeInv'
<1>1. /\ Here(MM, "reap") /\ at[MM] = "reap" /\ MM \in Procs /\ OnlyFlags
      /\ UNCHANGED <<p_parent, asked, shells>>
      /\ exit_status' = [exit_status EXCEPT ![mm.pid] = mm.status]
  BY Names DEF ExitReaps, Here
<1>2. /\ mm.pid \in Slots /\ Dead(mm.pid)
      /\ mm.op = "KILL" => /\ mm.src \in Users /\ ServedFor(mm.src, "KILL")
                           /\ mm.out = Ret(0, NO_TASK)
  BY <1>1 DEF LifeInv, Ending
<1>3. PICK c \in Slots : c = mm.pid
  BY <1>2
<1>4. c \in Procs /\ c \in Users /\ Dead(c) /\ ~Sending(c) /\ ~Free(c) /\ Receiving(c)
  BY <1>2, <1>3, Names, DeadIs DEF Dead
<1>5. p_parent[c] \in Users \ {c}
  BY <1>4 DEF LifeInv, Parents
<1>6. PICK p \in Users : p = p_parent[c] /\ p # c
  BY <1>5
<1>7. TypeOK /\ Fields /\ p \in Procs
  BY <1>6, Names DEF LifeInv, Linked
<1>8. /\ Waiting(p) => /\ p_flags' = [p_flags EXCEPT ![p] = @ \ {"WAITING"}]
                       /\ mm' = [mm EXCEPT !.victim = c]
                       /\ GoTo(MM, "cleanup")
      /\ ~Waiting(p) => /\ p_flags' = [p_flags EXCEPT ![c] = @ \cup {"HANGING"}]
                        /\ mm' = mm
                        /\ GoTo(MM, "adopt")
  BY <1>3, <1>6 DEF ExitReaps
<1>9. \A x \in Procs : "FREE_SLOT" \in p_flags[x] => Free(x)
  BY <1>7 DEF Fields, FieldsOf
<1>10. \A x \in Procs :
         /\ Waiting(p) => p_flags'[x] = IF x = p THEN p_flags[p] \ {"WAITING"} ELSE p_flags[x]
         /\ ~Waiting(p) => p_flags'[x] = IF x = c THEN p_flags[c] \cup {"HANGING"} ELSE p_flags[x]
  BY <1>4, <1>7, <1>8 DEF TypeOK
<1>11. ASSUME NEW x \in Procs
       PROVE  /\ Sending(x)' <=> Sending(x)
              /\ Receiving(x)' <=> Receiving(x)
              /\ Hanging(x)' <=> Hanging(x) \/ (x = c /\ ~Waiting(p))
              /\ Waiting(x)' <=> Waiting(x) /\ x # p
              /\ Free(x)' <=> Free(x)
              /\ Dead(x)' <=> Dead(x)
              /\ "FREE_SLOT" \in p_flags'[x] => Free(x)'
  <2>1. CASE Waiting(p)
    <3>1. p_flags'[x] = IF x = p THEN p_flags[p] \ {"WAITING"} ELSE p_flags[x]
      BY <1>10, <2>1
    <3>2. "FREE_SLOT" \notin p_flags[p]
      BY <1>7, <1>9, <2>1 DEF Waiting, Free
    <3>. QED  BY <1>1, <1>9, <2>1, <3>1, <3>2
              DEF Sending, Receiving, Hanging, Waiting, Free, Dead, OnlyFlags
  <2>2. CASE ~Waiting(p)
    <3>1. p_flags'[x] = IF x = c THEN p_flags[c] \cup {"HANGING"} ELSE p_flags[x]
      BY <1>10, <2>2
    <3>. QED  BY <1>1, <1>4, <1>9, <2>2, <3>1
              DEF Sending, Receiving, Hanging, Waiting, Free, Dead, OnlyFlags
  <2>. QED  BY <2>1, <2>2
<1>12. p_flags' \in [Procs -> SUBSET Flags]
  <2>1. p_flags \in [Procs -> SUBSET Flags] /\ {"HANGING"} \in SUBSET Flags
    BY <1>7 DEF TypeOK, Flags
  <2>2. CASE Waiting(p)
    <3>1. p_flags' = [p_flags EXCEPT ![p] = @ \ {"WAITING"}]
      BY <1>8, <2>2
    <3>. QED  BY ONLY <2>1, <3>1
  <2>3. CASE ~Waiting(p)
    <3>1. p_flags' = [p_flags EXCEPT ![c] = @ \cup {"HANGING"}]
      BY <1>8, <2>3
    <3>. QED  BY ONLY <2>1, <3>1
  <2>. QED  BY <2>2, <2>3
<1>13. Linked'
  BY <1>1, <1>11, <1>12, FlagsLinked DEF LifeInv
<1>14. PICK next \in MMLocs : GoTo(MM, next) /\ next = (IF Waiting(p) THEN "cleanup" ELSE "adopt")
  BY <1>8 DEF MMLocs
<1>15. Moved(MM, next) /\ at' \in [Procs -> Locs]
  <2>1. Typed /\ next \in Locs
    BY DEF LifeInv, Locs
  <2>. QED  BY <1>1, <1>14, <2>1, Goes
<1>16. /\ BlockedFor' /\ Placed' /\ Service' /\ ~panicked'
       /\ at'[MM] = next /\ ~Sending(MM)'
       /\ \A x \in Users : /\ at'[x] = at[x] /\ buf'[x] = buf[x]
                           /\ ~Dead(x) => (Receiving(x)' <=> Receiving(x))
       /\ \A x \in Users : \A call :
             ServedFor(x, call) /\ (Waiting(x)' => Waiting(x)) => ServedFor(x, call)'
  <2>1. \A x \in Procs : /\ Sending(x)' <=> Sending(x)
                         /\ Receiving(x)' => Receiving(x)
                         /\ Receiving(x) /\ ~Dead(x) => Receiving(x)'
                         /\ Free(x)' => Free(x) \/ Dead(x)
                         /\ Waiting(x)' => Waiting(x) \/ (x \in Users /\ ServedFor(x, "WAIT"))
    BY <1>11
  <2>. QED  BY <1>1, <1>13, <1>15, <2>1, MMQuiet
<1>17. \A x \in Users : Waiting(x)' => Waiting(x)
  BY <1>11, Names
<1>18. mm \in [src : Users \cup {NO_TASK}, op : {"EXIT", "KILL"},
               pid : Slots \cup {NO_TASK}, status : {-1, 0, 1},
               victim : Slots \cup {NO_TASK}, out : Bodies \cup {EMPTY}]
       /\ exit_status \in [Procs -> {-1, 0, 1}]
  BY DEF LifeInv, Typed
<1>19. /\ mm'.src = mm.src /\ mm'.op = mm.op /\ mm'.pid = c /\ mm'.out = mm.out
       /\ Waiting(p) => mm'.victim = c
       /\ mm' \in [src : Users \cup {NO_TASK}, op : {"EXIT", "KILL"},
                   pid : Slots \cup {NO_TASK}, status : {-1, 0, 1},
                   victim : Slots \cup {NO_TASK}, out : Bodies \cup {EMPTY}]
  BY <1>3, <1>8, <1>18
<1>20. Typed'
  <2>1. mm.status \in {-1, 0, 1}
    BY <1>18
  <2>2. exit_status' \in [Procs -> {-1, 0, 1}]
    BY <1>1, <1>18, <2>1
  <2>. QED  BY <1>1, <1>15, <1>19, <2>2 DEF LifeInv, Typed
<1>21. Handling' /\ Forking' /\ Replying' /\ Replied'
  BY <1>14, <1>16 DEF Handling, Forking, Replying, Replied
<1>22. Ending'
  <2>1. mm.op = "KILL" => ServedFor(mm.src, "KILL")'
    <3>. SUFFICES ASSUME mm.op = "KILL"  PROVE ServedFor(mm.src, "KILL")'
      OBVIOUS
    <3>1. PICK x \in Users : x = mm.src
      BY <1>2
    <3>2. ServedFor(x, "KILL")'
      BY <1>2, <1>16, <1>17, <3>1
    <3>. QED  BY <1>19, <3>1, <3>2 DEF ServedFor, Served, Sending, Receiving, Waiting
  <2>2. Dead(mm.pid)'
    <3>1. Dead(c)'
      BY <1>4, <1>11
    <3>. QED  BY <1>19, <3>1 DEF Dead, Receiving
  <2>. QED  BY <1>2, <1>14, <1>16, <1>19, <2>1, <2>2 DEF Ending, Ret, Body
<1>23. Reaping'
  <2>. SUFFICES ASSUME Waiting(p)  PROVE Reaping'
    BY <1>14, <1>16 DEF Reaping
  <2>1. Served(MM, p) /\ asked[p] = "WAIT" /\ ~Dead(p)
    BY <1>7, UserBlocked, ServedIs DEF LifeInv, Placed
  <2>2. ServedFor(p, "WAIT")'
    BY <1>1, <1>7, <1>11, <1>16, <2>1 DEF ServedFor, Served
  <2>3. p_parent'[mm'.victim] = p
    BY <1>1, <1>6, <1>19
  <2>4. ServedFor(p_parent[mm.victim], "WAIT")'
    BY <2>2, <2>3 DEF ServedFor, Served, Sending, Receiving, Waiting
  <2>5. Dead(c)'
    BY <1>4, <1>11
  <2>6. mm'.victim \in Slots /\ Dead(mm.victim)'
    BY <1>19, <2>5 DEF Dead, Receiving
  <2>. QED  BY <1>16, <2>3, <2>4, <2>6 DEF Reaping
<1>24. Parents'
  <2>1. \A x \in Procs : (Alive(x)' <=> Alive(x)) /\ (Free(x)' <=> Free(x))
    BY <1>11 DEF Alive
  <2>2. \A x \in Procs : Dying(x) => Dying(x)'
    BY <1>3, <1>14, <1>16, <1>19 DEF Dying
  <2>. QED  BY <1>1, <2>1, <2>2, Names DEF LifeInv, Parents
<1>25. ZombiesUnawaited'
  <2>. SUFFICES ASSUME NEW x \in Procs, Hanging(x)'
                PROVE  x \in Slots /\ Dead(x)' /\ ~Waiting(p_parent[x])'
    BY DEF ZombiesUnawaited
  <2>1. CASE x = c
    <3>1. ~Waiting(p)'
      BY <1>7, <1>11
    <3>. QED  BY <1>1, <1>4, <1>6, <1>11, <2>1, <3>1 DEF Waiting
  <2>2. CASE x # c
    <3>1. Hanging(x) /\ x \in Slots /\ Dead(x) /\ ~Waiting(p_parent[x])
      BY <1>11, <2>2 DEF LifeInv, ZombiesUnawaited
    <3>2. PICK u \in Procs : u = p_parent[x]
      BY <3>1, FlagNames, Names DEF LifeInv, Linked, Parents
    <3>3. ~Waiting(u)'
      BY <1>11, <3>1, <3>2
    <3>. QED  BY <1>1, <1>11, <3>1, <3>2, <3>3 DEF Waiting
  <2>. QED  BY <2>1, <2>2
<1>26. ToldChildStays'
  <2>. SUFFICES ASSUME NEW x \in Users, NEW d \in Slots, Told(x, d)'
       PROVE  /\ ~Free(d)' /\ p_parent'[d] = x
              /\ ~(at'[MM] \in {"cleanup", "release"} /\ mm'.victim = d)
    BY DEF ToldChildStays
  <2>1. d \in Procs /\ x \in Procs
    BY Names
  <2>2. Told(x, d)
    <3>1. /\ asked'[x] = "FORK" /\ at'[x] = "run" /\ ~Receiving(x)' /\ ~Free(x)'
          /\ buf'[x].body.type = "SYSCALL_RET" /\ buf'[x].body.pid = d
      BY <1>14, <1>16, <2>1 DEF Told
    <3>. QED  BY <1>1, <1>11, <1>16, <2>1, <3>1 DEF Told
  <2>3. ~Free(d) /\ p_parent[d] = x /\ asked[x] = "FORK"
    BY <2>2 DEF LifeInv, ToldChildStays, Told
  <2>4. Waiting(p) => d # c
    BY <1>6, <1>7, <2>3 DEF LifeInv, Placed
  <2>. QED  BY <1>1, <1>11, <1>14, <1>16, <1>19, <2>1, <2>3, <2>4
<1>. QED  BY <1>13, <1>16, <1>20, <1>21, <1>22, <1>23, <1>24, <1>25, <1>26 DEF LifeInv

\* INIT is given the children of a process that has ended, and one of them
\* ends INIT's waiting if it is a zombie.
LEMMA ExitAdoptsKeeps ==
    ASSUME LifeInv, ExitAdopts
    PROVE  LifeInv'
<1>1. /\ Here(MM, "adopt") /\ at[MM] = "adopt" /\ MM \in Procs /\ OnlyFlags
      /\ UNCHANGED <<exit_status, asked, shells>>
      /\ InitProc \in Procs /\ InitProc \in Users
  BY Names DEF ExitAdopts, Here
<1>2. /\ mm.pid \in Slots /\ (Free(mm.pid) \/ Dead(mm.pid))
      /\ mm.op = "KILL" => /\ mm.src \in Users /\ ServedFor(mm.src, "KILL")
                           /\ mm.out = Ret(0, NO_TASK)
  BY <1>1 DEF LifeInv, Ending
<1>3. PICK c \in Slots : c = mm.pid
  BY <1>2
<1>4. /\ c \in Procs /\ c # InitProc /\ (Free(c) \/ Dead(c))
      /\ \A x \in Procs : Dying(x) => x = c
  BY <1>2, <1>3, Names DEF Dying
<1>5. PICK zombies \in SUBSET Procs : zombies = {i \in Children(c) : Hanging(i)}
  BY DEF Children
<1>6. \A i \in Procs : i \in zombies <=> p_parent[i] = c /\ Hanging(i)
  BY <1>5 DEF Children
<1>7. PICK v : v = First(zombies)
  OBVIOUS
<1>8. zombies # {} => v \in zombies /\ v \in Procs /\ v \in Slots /\ Dead(v) /\ p_parent[v] = c
  BY <1>6, <1>7, FirstIs DEF LifeInv, ZombiesUnawaited
<1>9. PICK wakes \in BOOLEAN : wakes <=> Waiting(InitProc) /\ zombies # {}
  OBVIOUS
<1>10. /\ \A i \in Procs : p_parent'[i] = IF p_parent[i] = c THEN InitProc ELSE p_parent[i]
       /\ p_parent' \in [Procs -> Procs \cup {NO_TASK}]
  <2>1. p_parent' = [i \in Procs |-> IF p_parent[i] = c THEN InitProc ELSE p_parent[i]]
    BY <1>3 DEF ExitAdopts
  <2>. QED  BY <1>1, <2>1 DEF LifeInv, Typed
<1>11. /\ wakes => /\ p_flags' = [p_flags EXCEPT ![InitProc] = @ \ {"WAITING"}]
                   /\ mm' = [mm EXCEPT !.victim = v, !.pid = NO_TASK]
                   /\ GoTo(MM, "cleanup")
       /\ ~wakes => /\ GoTo(MM, Finish)
                    /\ mm' = IF mm.op = "KILL" THEN mm ELSE MMIdle
                    /\ p_flags' = p_flags
  BY <1>3, <1>5, <1>7, <1>9 DEF ExitAdopts
<1>12. TypeOK /\ Fields
  BY DEF LifeInv, Linked
<1>13. ~Free(InitProc) /\ ~Dead(InitProc)
  BY <1>1, Names, UserBlocked DEF LifeInv, Placed
<1>14. \A x \in Procs :
          p_flags'[x] = IF wakes /\ x = InitProc THEN p_flags[InitProc] \ {"WAITING"}
                                                 ELSE p_flags[x]
  BY <1>1, <1>11, <1>12 DEF TypeOK
<1>15. ASSUME NEW x \in Procs
       PROVE  /\ Sending(x)' <=> Sending(x)
              /\ Receiving(x)' <=> Receiving(x)
              /\ Hanging(x)' <=> Hanging(x)
              /\ Waiting(x)' <=> Waiting(x) /\ ~(x = InitProc /\ wakes)
              /\ Free(x)' <=> Free(x)
              /\ Dead(x)' <=> Dead(x)
              /\ "FREE_SLOT" \in p_flags'[x] => Free(x)'
  <2>1. "FREE_SLOT" \in p_flags[x] => Free(x)
    BY <1>12 DEF Fields, FieldsOf
  <2>2. CASE wakes /\ x = InitProc
    <3>1. p_flags'[x] = p_flags[x] \ {"WAITING"} /\ "FREE_SLOT" \notin p_flags[x] /\ ~Free(x)
      BY <1>13, <1>14, <2>1, <2>2
    <3>. QED  BY <1>1, <2>2, <3>1
              DEF Sending, Receiving, Hanging, Waiting, Free, Dead, OnlyFlags
  <2>3. CASE ~(wakes /\ x = InitProc)
    <3>1. p_flags'[x] = p_flags[x]
      BY <1>14, <2>3
    <3>. QED  BY <1>1, <2>1, <2>3, <3>1
              DEF Sending, Receiving, Hanging, Waiting, Free, Dead, OnlyFlags
  <2>. QED  BY <2>2, <2>3
<1>16. p_flags' \in [Procs -> SUBSET Flags]
  <2>1. p_flags \in [Procs -> SUBSET Flags]
    BY <1>12 DEF TypeOK
  <2>2. CASE wakes
    <3>1. p_flags' = [p_flags EXCEPT ![InitProc] = @ \ {"WAITING"}]
      BY <1>11, <2>2
    <3>. QED  BY ONLY <2>1, <3>1
  <2>3. CASE ~wakes
    BY <1>11, <2>1, <2>3
  <2>. QED  BY <2>2, <2>3
<1>17. Linked'
  BY <1>1, <1>15, <1>16, FlagsLinked DEF LifeInv
<1>18. PICK next \in MMLocs : GoTo(MM, next) /\ next = (IF wakes THEN "cleanup" ELSE Finish)
  BY <1>11 DEF MMLocs, Finish
<1>19. Moved(MM, next) /\ at' \in [Procs -> Locs]
  <2>1. Typed /\ next \in Locs
    BY DEF LifeInv, Locs
  <2>. QED  BY <1>1, <1>18, <2>1, Goes
<1>20. /\ BlockedFor' /\ Placed' /\ Service' /\ ~panicked'
       /\ at'[MM] = next /\ ~Sending(MM)'
       /\ \A x \in Users : /\ at'[x] = at[x] /\ buf'[x] = buf[x]
                           /\ ~Dead(x) => (Receiving(x)' <=> Receiving(x))
       /\ \A x \in Users : \A call :
             ServedFor(x, call) /\ (Waiting(x)' => Waiting(x)) => ServedFor(x, call)'
  <2>1. \A x \in Procs : /\ Sending(x)' <=> Sending(x)
                         /\ Receiving(x)' => Receiving(x)
                         /\ Receiving(x) /\ ~Dead(x) => Receiving(x)'
                         /\ Free(x)' => Free(x) \/ Dead(x)
                         /\ Waiting(x)' => Waiting(x) \/ (x \in Users /\ ServedFor(x, "WAIT"))
    BY <1>15
  <2>. QED  BY <1>1, <1>17, <1>19, <2>1, MMQuiet
<1>21. \A x \in Users : Waiting(x)' => Waiting(x)
  BY <1>15, Names
<1>22. /\ mm' \in [src : Users \cup {NO_TASK}, op : {"EXIT", "KILL"},
                   pid : Slots \cup {NO_TASK}, status : {-1, 0, 1},
                   victim : Slots \cup {NO_TASK}, out : Bodies \cup {EMPTY}]
       /\ Handling' /\ Forking' /\ Replying' /\ Replied' /\ Ending' /\ Reaping'
       /\ at'[MM] \in {"cleanup", "loop", "reply"}
       /\ at'[MM] = "reply" => mm'.out.pid = NO_TASK
       /\ at'[MM] = "cleanup" => wakes /\ mm'.victim = v
  <2>1. CASE wakes
    <3>1. at'[MM] = "cleanup" /\ mm' = [mm EXCEPT !.victim = v, !.pid = NO_TASK]
      BY <1>11, <1>18, <1>20, <2>1
    <3>2. mm \in [src : Users \cup {NO_TASK}, op : {"EXIT", "KILL"},
                  pid : Slots \cup {NO_TASK}, status : {-1, 0, 1},
                  victim : Slots \cup {NO_TASK}, out : Bodies \cup {EMPTY}]
      BY DEF LifeInv, Typed
    <3>3. v \in Slots /\ Dead(v) /\ v \in Procs /\ p_parent[v] = c
      BY <1>8, <1>9, <2>1
    <3>4. /\ mm'.src = mm.src /\ mm'.op = mm.op /\ mm'.out = mm.out /\ mm'.victim = v
          /\ mm' \in [src : Users \cup {NO_TASK}, op : {"EXIT", "KILL"},
                      pid : Slots \cup {NO_TASK}, status : {-1, 0, 1},
                      victim : Slots \cup {NO_TASK}, out : Bodies \cup {EMPTY}]
      BY <3>1, <3>2, <3>3
    <3>5. Handling' /\ Forking' /\ Replying' /\ Replied'
      BY <3>1 DEF Handling, Forking, Replying, Replied
    <3>6. Ending'
      <4>1. mm.op = "KILL" => ServedFor(mm.src, "KILL")'
        <5>. SUFFICES ASSUME mm.op = "KILL"  PROVE ServedFor(mm.src, "KILL")'
          OBVIOUS
        <5>1. PICK x \in Users : x = mm.src
          BY <1>2
        <5>2. ServedFor(x, "KILL")'
          BY <1>2, <1>20, <1>21, <5>1
        <5>. QED  BY <3>4, <5>1, <5>2 DEF ServedFor, Served, Sending, Receiving, Waiting
      <4>. QED  BY <1>2, <3>1, <3>4, <4>1 DEF Ending, Ret, Body
    <3>7. Reaping'
      <4>1. Served(MM, InitProc) /\ asked[InitProc] = "WAIT" /\ ~Dead(InitProc)
        BY <1>1, <1>9, <1>13, <2>1 DEF LifeInv, Placed
      <4>2. ServedFor(InitProc, "WAIT")'
        BY <1>1, <1>15, <1>20, <2>1, <4>1 DEF ServedFor, Served
      <4>3. p_parent'[mm'.victim] = InitProc
        BY <1>10, <3>3, <3>4
      <4>4. ServedFor(p_parent[mm.victim], "WAIT")'
        BY <4>2, <4>3 DEF ServedFor, Served, Sending, Receiving, Waiting
      <4>5. Dead(v)'
        BY <1>15, <3>3
      <4>6. mm'.victim \in Slots /\ Dead(mm.victim)'
        BY <3>3, <3>4, <4>5 DEF Dead, Receiving
      <4>. QED  BY <1>1, <1>20, <4>3, <4>4, <4>6 DEF Reaping
    <3>. QED  BY <2>1, <3>1, <3>4, <3>5, <3>6, <3>7
  <2>2. CASE ~wakes
    <3>1. at'[MM] = Finish /\ mm' = (IF mm.op = "KILL" THEN mm ELSE MMIdle)
      BY <1>11, <1>18, <1>20, <2>2
    <3>. QED  BY <1>1, <1>20, <1>21, <3>1, FinishKeeps
  <2>. QED  BY <2>1, <2>2
<1>23. Typed'
  BY <1>1, <1>10, <1>19, <1>22 DEF LifeInv, Typed
<1>24. Parents'
  <2>. SUFFICES ASSUME NEW x \in Slots, ~Free(x)'
                PROVE  p_parent'[x] \in Users \ {x} /\ Alive(p_parent[x])'
    BY DEF Parents
  <2>1. x \in Procs /\ ~Free(x) /\ x # InitProc
    BY <1>15, Names
  <2>2. PICK u \in Users : u = p_parent[x] /\ u # x /\ (Alive(u) \/ Dying(u))
    BY <2>1 DEF LifeInv, Parents
  <2>3. CASE u = c
    <3>1. p_parent'[x] = InitProc
      BY <1>10, <2>1, <2>2, <2>3
    <3>2. Alive(InitProc)'
      BY <1>1, <1>13, <1>15 DEF Alive
    <3>. QED  BY <1>1, <2>1, <3>1, <3>2 DEF Alive, Free, Dead, Receiving
  <2>4. CASE u # c
    <3>1. p_parent'[x] = u /\ Alive(u) /\ u \in Procs
      BY <1>4, <1>10, <2>1, <2>2, <2>4, Names
    <3>2. Alive(u)'
      BY <1>15, <3>1 DEF Alive
    <3>. QED  BY <2>2, <3>1, <3>2 DEF Alive, Free, Dead, Receiving
  <2>. QED  BY <2>3, <2>4
<1>25. ZombiesUnawaited'
  <2>. SUFFICES ASSUME NEW x \in Procs, Hanging(x)'
                PROVE  x \in Slots /\ Dead(x)' /\ ~Waiting(p_parent[x])'
    BY DEF ZombiesUnawaited
  <2>1. Hanging(x) /\ x \in Slots /\ Dead(x) /\ ~Waiting(p_parent[x])
    BY <1>15 DEF LifeInv, ZombiesUnawaited
  <2>2. PICK u \in Procs : u = p_parent[x]
    BY <2>1, FlagNames, Names DEF LifeInv, Linked, Parents
  <2>3. CASE u = c
    <3>1. p_parent'[x] = InitProc /\ zombies # {}
      BY <1>6, <1>10, <2>1, <2>2, <2>3
    <3>2. ~Waiting(InitProc)'
      BY <1>1, <1>9, <1>15, <3>1
    <3>. QED  BY <1>15, <2>1, <3>1, <3>2 DEF Waiting
  <2>4. CASE u # c
    <3>1. p_parent'[x] = u /\ ~Waiting(u)'
      BY <1>10, <1>15, <2>1, <2>2, <2>4
    <3>. QED  BY <1>15, <2>1, <3>1 DEF Waiting
  <2>. QED  BY <2>3, <2>4
<1>26. ToldChildStays'
  <2>. SUFFICES ASSUME NEW x \in Users, NEW d \in Slots, Told(x, d)'
       PROVE  /\ ~Free(d)' /\ p_parent'[d] = x
              /\ ~(at'[MM] \in {"cleanup", "release"} /\ mm'.victim = d)
    BY DEF ToldChildStays
  <2>1. d \in Procs /\ x \in Procs /\ d # NO_TASK
    BY Names
  <2>2. /\ asked'[x] = "FORK" /\ at'[x] = "run" /\ ~Receiving(x)' /\ ~Free(x)'
        /\ buf'[x].body.type = "SYSCALL_RET" /\ buf'[x].body.pid = d
    BY <1>20, <1>22, <2>1 DEF Told
  <2>3. Told(x, d) /\ x # c
    BY <1>1, <1>4, <1>15, <1>20, <2>1, <2>2 DEF Told, Dead
  <2>4. ~Free(d) /\ p_parent[d] = x
    BY <2>3 DEF LifeInv, ToldChildStays
  <2>5. p_parent'[d] = x
    BY <1>10, <2>1, <2>3, <2>4
  <2>6. at'[MM] = "cleanup" => mm'.victim # d
    BY <1>8, <1>9, <1>22, <2>3, <2>4
  <2>. QED  BY <1>15, <1>22, <2>1, <2>4, <2>5, <2>6
<1>. QED  BY <1>17, <1>20, <1>22, <1>23, <1>24, <1>25, <1>26 DEF LifeInv

\* Forked processes are received from only by whoever receives from anybody.
LEMMA NobodyHears ==
    ASSUME LifeInv, NEW pid \in Slots
    PROVE  \A x \in Procs : ~(Receiving(x) /\ p_recvfrom[x] = pid)
<1>. SUFFICES ASSUME NEW x \in Procs, Receiving(x), p_recvfrom[x] = pid  PROVE FALSE
  OBVIOUS
<1>1. ReceivesFor(x)
  BY DEF LifeInv, BlockedFor
<1>2. x \in Users => Callee(asked[x]) # pid
  BY UserBlocked, Names
<1>. QED  BY <1>1, <1>2, Names DEF ReceivesFor

\* A process is ended: by itself, or by another that waits for MM meanwhile.
LEMMA DiesKeeps ==
    ASSUME LifeInv, KillsApart, NEW op \in {"EXIT", "KILL"}, NEW src \in Users,
           NEW pid \in Slots, NEW status \in {-1, 1}, Handles(op, src), ~Free(pid),
           op = "EXIT" <=> pid = src, Dies(src, op, pid, status)
    PROVE  LifeInv'
<1>1. /\ at[MM] = "handle" /\ ~Sending(MM) /\ ~Receiving(MM)
      /\ ServedFor(src, op) /\ src \in Procs /\ MM \in Procs
      /\ \A p \in Procs : ~Dying(p)
  BY HandlesIs, Names
<1>2. pid \in Procs /\ pid \in Users /\ pid # MM /\ pid # InitProc /\ pid \notin Servers
      /\ pid \notin Native /\ pid # FS /\ pid # ANY
  BY Names
<1>3. /\ abort_ipc(pid)
      /\ mm' = [MMIdle EXCEPT !.src = src, !.op = op, !.pid = pid,
                              !.status = status, !.out = Ret(0, NO_TASK)]
      /\ at' = [at EXCEPT ![MM] = "exit", ![pid] = "gone"]
      /\ asked' = [asked EXCEPT ![pid] = "EXIT"]
      /\ UNCHANGED <<p_parent, exit_status, shells>>
  BY DEF Dies, Ret
<1>4. Linked /\ Typed
  BY DEF LifeInv
<1>5. \A x \in Procs : ~(Receiving(x) /\ p_recvfrom[x] = pid)
  BY NobodyHears
<1>6. /\ Linked' /\ ~panicked' /\ buf' = buf
      /\ \A x \in Procs :
            /\ Sending(x)' <=> Sending(x) /\ x # pid /\ p_sendto[x] # pid
            /\ Sending(x)' => p_sendto'[x] = p_sendto[x]
            /\ Receiving(x)' <=> Receiving(x) \/ x = pid
            /\ p_recvfrom'[x] = IF x = pid THEN NO_TASK ELSE p_recvfrom[x]
            /\ Waiting(x)' <=> Waiting(x) /\ x # pid
            /\ Hanging(x)' <=> Hanging(x) /\ x # pid
            /\ Free(x)' <=> Free(x)
            /\ Dead(x)' <=> Dead(x) \/ x = pid
  BY <1>2, <1>3, <1>4, <1>5, AbortLinked
<1>7. /\ at'[MM] = "exit" /\ at'[pid] = "gone"
      /\ \A x \in Procs \ {MM, pid} : at'[x] = at[x]
      /\ asked'[pid] = "EXIT"
      /\ \A x \in Users \ {pid} : asked'[x] = asked[x]
  BY <1>1, <1>2, <1>3, <1>4 DEF Typed
<1>8. /\ mm'.src = src /\ mm'.op = op /\ mm'.pid = pid /\ mm'.out = Ret(0, NO_TASK)
      /\ mm' \in [src : Users \cup {NO_TASK}, op : {"EXIT", "KILL"},
                  pid : Slots \cup {NO_TASK}, status : {-1, 0, 1},
                  victim : Slots \cup {NO_TASK}, out : Bodies \cup {EMPTY}]
  <2>1. PICK b \in Bodies : b = Ret(0, NO_TASK)
    BY Fits DEF Ret
  <2>2. mm' = [MMIdle EXCEPT !.src = src, !.op = op, !.pid = pid,
                             !.status = status, !.out = b]
    BY <1>3, <2>1
  <2>. QED  BY <2>1, <2>2 DEF MMIdle
<1>9. Typed'
  <2>1. /\ at' \in [Procs -> Locs] /\ asked' \in [Users -> AllCalls]
    BY <1>3, <1>4 DEF Typed, Locs, MMLocs, UserLocs, AllCalls
  <2>. QED  BY <1>3, <1>4, <1>8, <2>1 DEF Typed
<1>10. ASSUME NEW s \in Servers, Has(s, pid)  PROVE s = FS
  <2>1. Served(s, pid)
    BY <1>1, <1>2, <1>10 DEF LifeInv, Service, MMKilling
  <2>2. s # FS => asked[pid] = "ASK_SYS"
    BY <1>2, <2>1, UserBlocked, CalleeIs, Names DEF Served
  <2>3. pid # src
    BY <1>1, <1>10, <2>1, Names DEF Served, ServedFor
  <2>4. asked[src] = "KILL" /\ asked[src] \in AllCalls /\ asked[pid] \in AllCalls
    BY <1>1, <1>2, <2>3, UserBlocked DEF ServedFor
  <2>. QED  BY <2>2, <2>4 DEF KillsApart, AllCalls
<1>11. ASSUME NEW x \in Users, x # pid
       PROVE  /\ \A z : Served(z, x) => Served(z, x)'
              /\ \A call : ServedFor(x, call) => ServedFor(x, call)'
  <2>1. /\ x \in Procs /\ at'[x] = at[x] /\ asked'[x] = asked[x]
        /\ Sending(x)' => Sending(x)
        /\ Receiving(x)' <=> Receiving(x)
        /\ Waiting(x)' <=> Waiting(x)
    BY <1>6, <1>7, <1>11, Names
  <2>. QED  BY <2>1 DEF ServedFor, Served
<1>12. BlockedFor'
  <2>. SUFFICES ASSUME NEW x \in Procs
       PROVE  (Sending(x)' => SendsFor(x)') /\ (Receiving(x)' => ReceivesFor(x)')
    BY DEF BlockedFor
  <2>1. /\ Sending(x) => SendsFor(x)
        /\ Receiving(x) => ReceivesFor(x)
    BY DEF LifeInv, BlockedFor
  <2>2. x # pid => asked'[x] = asked[x] \/ x \notin Users
    BY <1>7
  <2>3. Sending(x)' => SendsFor(x)'
    BY <1>1, <1>6, <1>7, <2>1, <2>2 DEF SendsFor
  <2>4. Receiving(x)' => ReceivesFor(x)'
    BY <1>1, <1>6, <1>7, <2>1, <2>2 DEF ReceivesFor
  <2>. QED  BY <2>3, <2>4
<1>13. Placed'
  <2>1. \A s \in Servers : at'[s] \in ServerLocs
    BY <1>2, <1>7, Names DEF LifeInv, Placed
  <2>2. ASSUME NEW u \in Users  PROVE at'[u] \in UserLocs /\ (at'[u] = "sent" => ~Free(u)')
    <3>1. u \in Procs /\ u # MM
      BY Names
    <3>. QED  BY <1>6, <1>7, <3>1 DEF LifeInv, Placed, UserLocs
  <2>3. asked'[InitProc] = "EXIT" => at'[InitProc] = "run" /\ ~Receiving(InitProc)'
    BY <1>2, <1>6, <1>7, Names DEF LifeInv, Placed
  <2>4. \A p \in Native : ~Free(p)'
    BY <1>6, IpcAssumption DEF LifeInv, Placed
  <2>5. ASSUME NEW p \in Procs, Waiting(p)'
        PROVE  p \in Users /\ Served(MM, p)' /\ asked'[p] = "WAIT"
    <3>1. p # pid /\ p \in Users /\ Served(MM, p) /\ asked[p] = "WAIT"
      BY <1>6, <2>5 DEF LifeInv, Placed
    <3>. QED  BY <1>7, <1>11, <3>1
  <2>. QED  BY <1>7, <2>1, <2>2, <2>3, <2>4, <2>5 DEF Placed, MMLocs
<1>14. Service'
  <2>. SUFFICES ASSUME NEW z \in Servers
       PROVE  /\ at'[z] = "serve" /\ ~Receiving(z)' => buf'[z].source \in Users \cup {MM}
              /\ ~Has(z, MM)'
              /\ \A x \in Users : Has(z, x)' =>
                    Served(z, x)' \/ (z = FS /\ Dead(x)' /\ MMKilling(x)')
    BY DEF Service
  <2>1. z \in Procs /\ z # MM /\ z # pid
    BY <1>2, Names
  <2>2. ~MMAwaits /\ \A x \in Users : ~MMKilling(x)
    BY <1>1 DEF MMKilling, MMAwaits
  <2>3. /\ at[z] = "serve" /\ ~Receiving(z) => buf[z].source \in Users \cup {MM}
        /\ ~Has(z, MM)
        /\ \A x \in Users : Has(z, x) => Served(z, x)
    BY <2>2 DEF LifeInv, Service
  <2>4. /\ at'[z] = at[z] /\ (Receiving(z)' <=> Receiving(z)) /\ buf'[z] = buf[z]
        /\ Sending(z)' => Sending(z) /\ p_sendto'[z] = p_sendto[z]
    BY <1>6, <1>7, <2>1
  <2>5. \A y : Has(z, y)' => Has(z, y)
    BY <2>4 DEF Has
  <2>6. Has(z, pid)' => z = FS
    BY <1>10, <2>5
  <2>7. Dead(pid)' /\ MMKilling(pid)'
    BY <1>2, <1>6, <1>7, <1>8 DEF MMKilling
  <2>. QED  BY <1>11, <2>3, <2>4, <2>5, <2>6, <2>7
<1>15. Handling' /\ Forking' /\ Replying' /\ Replied' /\ Reaping'
  BY <1>7 DEF Handling, Forking, Replying, Replied, Reaping
<1>16. Ending'
  <2>1. op = "KILL" => ServedFor(src, "KILL")'
    BY <1>1, <1>11
  <2>2. op = "KILL" => ServedFor(mm.src, "KILL")'
    BY <1>8, <2>1 DEF ServedFor, Served, Sending, Receiving, Waiting
  <2>3. Dead(pid)'
    BY <1>2, <1>6
  <2>4. Dead(mm.pid)'
    BY <1>8, <2>3 DEF Dead, Receiving
  <2>. QED  BY <1>7, <1>8, <2>2, <2>4 DEF Ending, Ret, Body
<1>17. Parents'
  <2>. SUFFICES ASSUME NEW x \in Slots, ~Free(x)'
                PROVE  p_parent[x] \in Users \ {x}
                       /\ (Alive(p_parent[x])' \/ Dying(p_parent[x])')
    BY <1>3 DEF Parents
  <2>1. x \in Procs /\ ~Free(x)
    BY <1>6, Names
  <2>2. PICK u \in Users : u = p_parent[x] /\ u # x /\ u \in Procs /\ Alive(u)
    BY <1>1, <2>1, Names DEF LifeInv, Parents
  <2>3. Alive(u)' \/ Dying(u)'
    BY <1>6, <1>7, <1>8, <2>2 DEF Alive, Dying
  <2>. QED  BY <1>3, <2>2, <2>3 DEF Alive, Dying, Free, Dead, Receiving
<1>18. ZombiesUnawaited'
  <2>. SUFFICES ASSUME NEW x \in Procs, Hanging(x)'
                PROVE  x \in Slots /\ Dead(x)' /\ ~Waiting(p_parent[x])'
    BY DEF ZombiesUnawaited
  <2>1. Hanging(x) /\ x \in Slots /\ Dead(x) /\ ~Waiting(p_parent[x])
    BY <1>6 DEF LifeInv, ZombiesUnawaited
  <2>2. PICK u \in Procs : u = p_parent[x]
    BY <2>1, FlagNames, Names DEF LifeInv, Linked, Parents
  <2>3. ~Waiting(u)'
    BY <1>6, <2>1, <2>2
  <2>. QED  BY <1>3, <1>6, <2>1, <2>2, <2>3 DEF Waiting
<1>19. ToldChildStays'
  <2>. SUFFICES ASSUME NEW x \in Users, NEW d \in Slots, Told(x, d)'
       PROVE  ~Free(d)' /\ p_parent'[d] = x
    BY <1>7 DEF ToldChildStays
  <2>1. d \in Procs /\ x \in Procs /\ x # MM
    BY Names
  <2>2. /\ asked'[x] = "FORK" /\ at'[x] = "run" /\ ~Receiving(x)' /\ ~Free(x)'
        /\ buf'[x].body.type = "SYSCALL_RET" /\ buf'[x].body.pid = d
    BY <1>1, <1>6, <1>7, <2>1 DEF Told
  <2>3. Told(x, d)
    BY <1>6, <1>7, <2>1, <2>2 DEF Told
  <2>. QED  BY <1>3, <1>6, <2>1, <2>3 DEF LifeInv, ToldChildStays
<1>. QED  BY <1>6, <1>9, <1>12, <1>13, <1>14, <1>15, <1>16, <1>17, <1>18, <1>19
          DEF LifeInv

LEMMA ExitKeeps ==
    ASSUME LifeInv, KillsApart, NEW src \in Users, Exit(src)
    PROVE  LifeInv'
<1>1. /\ Handles("EXIT", src) /\ buf[MM].body.i1 = 1
      /\ Dies(src, "EXIT", src, buf[MM].body.i1)
  BY HandlesIs DEF Exit, Status
<1>2. ServedFor(src, "EXIT") /\ ~Free(src)
  BY <1>1, HandlesIs
<1>3. src # InitProc
  BY <1>2 DEF LifeInv, Placed, ServedFor, Served
<1>. QED  BY <1>1, <1>2, <1>3, DiesKeeps DEF Users

LEMMA KillKeeps ==
    ASSUME LifeInv, KillsApart, NEW src \in Users, Kill(src)
    PROVE  LifeInv'
<1>. DEFINE pid == buf[MM].body.pid
<1>1. Handles("KILL", src)
  BY DEF Kill
<1>2. CASE Killable(pid, src)
  <2>1. /\ pid \in Slots /\ pid # src /\ ~Free(pid)
        /\ Dies(src, "KILL", pid, -1)
    BY <1>2 DEF Kill, Killable
  <2>. HIDE DEF pid
  <2>. QED  BY <1>1, <2>1, DiesKeeps
<1>3. CASE ~Killable(pid, src)
  BY <1>1, <1>3, AnswerKeeps DEF Kill
<1>. QED  BY <1>2, <1>3

LEMMA ForkFailsKeeps ==
    ASSUME LifeInv, NEW src \in Users, ForkFails(src)
    PROVE  LifeInv'
BY AnswerKeeps DEF ForkFails

\* The child is a copy of its parent, blocked like it in the call of fork(),
\* and nobody is sending to either.
LEMMA ForkCopiesKeeps ==
    ASSUME LifeInv, NEW src \in Users, ForkCopies(src)
    PROVE  LifeInv'
<1>1. /\ at[MM] = "handle" /\ ~Sending(MM) /\ ~Receiving(MM) /\ MM \in Procs
      /\ ServedFor(src, "FORK") /\ src \in Procs
      /\ ~Free(src) /\ ~Dead(src) /\ ~Sending(src)
      /\ \A p \in Procs : ~Dying(p)
  BY HandlesIs, Names DEF ForkCopies
<1>2. PICK c \in FreeSlots : c = First(FreeSlots)
  BY FirstIs DEF ForkCopies, FreeSlots
<1>3. /\ c \in Procs /\ Free(c) /\ c \in Slots /\ c # src /\ c \in Users /\ c # MM
      /\ c \notin Servers /\ c \notin Native /\ c # InitProc
  <2>1. c \in Procs /\ Free(c)
    BY DEF FreeSlots
  <2>2. c \in Slots
    BY <2>1 DEF LifeInv, Placed, Slots
  <2>. QED  BY <1>1, <2>1, <2>2, Names
<1>4. TypeOK /\ Fields /\ QueueIsSenders /\ Typed
  BY DEF LifeInv, Linked
<1>5. /\ p_flags' = [p_flags EXCEPT ![c] = p_flags[src]]
      /\ p_msg' = [p_msg EXCEPT ![c] = p_msg[src]]
      /\ p_recvfrom' = [p_recvfrom EXCEPT ![c] = p_recvfrom[src]]
      /\ p_sendto' = [p_sendto EXCEPT ![c] = p_sendto[src]]
      /\ has_int_msg' = [has_int_msg EXCEPT ![c] = has_int_msg[src]]
      /\ q_sending' = [q_sending EXCEPT ![c] = q_sending[src]]
      /\ buf' = [buf EXCEPT ![c] = [buf[src] EXCEPT !.source = c]]
      /\ exit_status' = [exit_status EXCEPT ![c] = exit_status[src]]
      /\ asked' = [asked EXCEPT ![c] = asked[src]]
      /\ p_parent' = [p_parent EXCEPT ![c] = src]
      /\ at' = [at EXCEPT ![c] = at[src], ![MM] = "fork"]
      /\ mm' = [MMIdle EXCEPT !.src = src, !.pid = c]
      /\ panicked' = panicked /\ shells' = shells
  BY <1>2 DEF ForkCopies
<1>6. \A x \in Procs :
         /\ p_flags'[x] = IF x = c THEN p_flags[src] ELSE p_flags[x]
         /\ p_msg'[x] = IF x = c THEN p_msg[src] ELSE p_msg[x]
         /\ p_recvfrom'[x] = IF x = c THEN p_recvfrom[src] ELSE p_recvfrom[x]
         /\ p_sendto'[x] = IF x = c THEN p_sendto[src] ELSE p_sendto[x]
         /\ has_int_msg'[x] = IF x = c THEN has_int_msg[src] ELSE has_int_msg[x]
         /\ q_sending'[x] = IF x = c THEN q_sending[src] ELSE q_sending[x]
         /\ x # c => buf'[x] = buf[x]
         /\ p_parent'[x] = IF x = c THEN src ELSE p_parent[x]
  BY <1>3, <1>4, <1>5 DEF TypeOK, Typed
<1>7. /\ at'[MM] = "fork" /\ at'[c] = at[src]
      /\ \A x \in Procs \ {MM, c} : at'[x] = at[x]
      /\ asked'[c] = asked[src]
      /\ \A x \in Users \ {c} : asked'[x] = asked[x]
  BY <1>1, <1>3, <1>4, <1>5 DEF Typed
<1>8. ASSUME NEW x \in Procs
      PROVE  /\ x = c => /\ Sending(x)' <=> Sending(src)
                         /\ Receiving(x)' <=> Receiving(src)
                         /\ Waiting(x)' <=> Waiting(src)
                         /\ Hanging(x)' <=> Hanging(src)
                         /\ Free(x)' <=> Free(src)
                         /\ Dead(x)' <=> Dead(src)
             /\ x # c => /\ Sending(x)' <=> Sending(x)
                         /\ Receiving(x)' <=> Receiving(x)
                         /\ Waiting(x)' <=> Waiting(x)
                         /\ Hanging(x)' <=> Hanging(x)
                         /\ Free(x)' <=> Free(x)
                         /\ Dead(x)' <=> Dead(x)
  BY <1>6 DEF Sending, Receiving, Waiting, Hanging, Free, Dead
<1>9. /\ asked[src] = "FORK" /\ Callee(asked[src]) = MM /\ ~Waiting(src) /\ ~Hanging(src)
      /\ at[src] = "sent" \/ (at[src] = "run" /\ Receiving(src))
      /\ Receiving(src) => at[src] = "run" /\ p_recvfrom[src] = MM
      /\ Served(MM, src)
  <2>1. Served(MM, src) /\ asked[src] = "FORK" /\ ~Waiting(src)
    BY <1>1 DEF ServedFor
  <2>2. ~Hanging(src)
    BY <1>1 DEF LifeInv, ZombiesUnawaited
  <2>. QED  BY <1>1, <2>1, <2>2, UserBlocked DEF Served
<1>10. \A s \in Servers, u \in Users : Has(s, u) => Served(s, u)
  BY <1>1 DEF LifeInv, Service, MMKilling
<1>11. ~Has(FS, MM) /\ \A s \in Servers : ~Has(s, src) /\ ~Has(s, c) /\ ~Has(s, MM)
  <2>1. ~MMAwaits
    BY <1>1 DEF MMAwaits
  <2>2. \A s \in Servers : ~Has(s, MM)
    BY <2>1 DEF LifeInv, Service
  <2>3. \A s \in Servers : ~Served(s, src) /\ ~Served(s, c)
    BY <1>3, <1>9, ServedIs, Names
  <2>. QED  BY <1>3, <1>10, <2>2, <2>3, Names
<1>12. ASSUME NEW x \in Procs, Sending(x)  PROVE p_sendto[x] \notin {src, c} /\ x # c
  <2>1. SendsFor(x) /\ x # MM
    BY <1>1, <1>12 DEF LifeInv, BlockedFor
  <2>2. x \in Users => p_sendto[x] \in Servers \cup {MM}
    BY <1>12, UserBlocked
  <2>3. x \in Servers => p_sendto[x] \notin {src, c}
    BY <1>11, <1>12 DEF Has
  <2>4. x # c
    BY <1>3, <1>4, <1>12, FlagNames
  <2>. QED  BY <1>3, <2>1, <2>2, <2>3, <2>4, Names DEF SendsFor
<1>13. Linked'
  <2>1. TypeOK'
    <3>1. [buf[src] EXCEPT !.source = c] \in Message
      <4>1. PICK m \in Message : m = buf[src]
        BY <1>1, <1>4 DEF TypeOK
      <4>2. [m EXCEPT !.source = c] \in Message
        BY <1>3 DEF Message
      <4>. QED  BY <4>1, <4>2
    <3>. QED  BY <1>1, <1>4, <1>5, <3>1 DEF TypeOK
  <2>2. Fields'
    <3>. SUFFICES ASSUME NEW x \in Procs  PROVE FieldsOf(x)'
      BY DEF Fields
    <3>1. FieldsOf(x) /\ FieldsOf(src)
      BY <1>1, <1>4 DEF Fields
    <3>2. "FREE_SLOT" \notin p_flags[src]
      BY <1>1, <3>1 DEF FieldsOf
    <3>3. CASE x = c
      BY <1>1, <1>6, <1>8, <3>1, <3>2, <3>3 DEF FieldsOf
    <3>4. CASE x # c
      BY <1>6, <1>8, <3>1, <3>4 DEF FieldsOf
    <3>. QED  BY <3>3, <3>4
  <2>3. QueueIsSenders'
    <3>. SUFFICES ASSUME NEW e \in Procs
                  PROVE  /\ NoRepeat(q_sending'[e])
                         /\ \A x \in Procs : Lists(q_sending'[e], x)
                                                <=> Sending(x)' /\ p_sendto'[x] = e
      BY DEF QueueIsSenders
    <3>1. /\ NoRepeat(q_sending[e]) /\ NoRepeat(q_sending[src])
          /\ \A x \in Procs : /\ Lists(q_sending[e], x) <=> Sending(x) /\ p_sendto[x] = e
                              /\ ~Lists(q_sending[src], x)
      BY <1>1, <1>4, <1>12 DEF QueueIsSenders
    <3>2. \A x \in Procs : /\ Sending(x)' <=> Sending(x)
                           /\ Sending(x) => p_sendto'[x] = p_sendto[x]
      BY <1>1, <1>6, <1>8, <1>12
    <3>3. CASE e = c
      <4>1. q_sending'[e] = q_sending[src]
        BY <1>6, <3>3
      <4>. QED  BY <1>12, <3>1, <3>2, <3>3, <4>1
    <3>4. CASE e # c
      <4>1. q_sending'[e] = q_sending[e]
        BY <1>6, <3>4
      <4>. QED  BY <3>1, <3>2, <4>1
    <3>. QED  BY <3>3, <3>4
  <2>. QED  BY <2>1, <2>2, <2>3 DEF Linked
<1>14. ASSUME NEW x \in Users, x # c
       PROVE  /\ \A z : Served(z, x) => Served(z, x)'
              /\ \A call : ServedFor(x, call) => ServedFor(x, call)'
  <2>1. /\ x \in Procs /\ at'[x] = at[x] /\ asked'[x] = asked[x]
        /\ Sending(x)' <=> Sending(x)
        /\ Receiving(x)' <=> Receiving(x)
        /\ Waiting(x)' <=> Waiting(x)
    BY <1>7, <1>8, <1>14, Names
  <2>. QED  BY <2>1 DEF ServedFor, Served
<1>15. ServedFor(src, "FORK")' /\ ServedFor(c, "FORK")'
  <2>1. ServedFor(src, "FORK")'
    BY <1>1, <1>3, <1>14
  <2>2. ServedFor(c, "FORK")'
    BY <1>3, <1>7, <1>8, <1>9, <1>1 DEF ServedFor, Served
  <2>. QED  BY <2>1, <2>2
<1>16. /\ mm'.src = src /\ mm'.pid = c
       /\ mm' \in [src : Users \cup {NO_TASK}, op : {"EXIT", "KILL"},
                   pid : Slots \cup {NO_TASK}, status : {-1, 0, 1},
                   victim : Slots \cup {NO_TASK}, out : Bodies \cup {EMPTY}]
  BY <1>3, <1>5 DEF MMIdle
<1>17. Typed'
  <2>1. /\ p_parent' \in [Procs -> Procs \cup {NO_TASK}]
        /\ exit_status' \in [Procs -> {-1, 0, 1}]
        /\ asked' \in [Users -> AllCalls] /\ shells' \in 0..Shells
    BY <1>1, <1>4, <1>5 DEF Typed
  <2>2. at' \in [Procs -> Locs]
    BY <1>1, <1>4, <1>5 DEF Typed, Locs, MMLocs
  <2>. QED  BY <1>16, <2>1, <2>2 DEF Typed
<1>18. BlockedFor'
  <2>. SUFFICES ASSUME NEW x \in Procs
       PROVE  (Sending(x)' => SendsFor(x)') /\ (Receiving(x)' => ReceivesFor(x)')
    BY DEF BlockedFor
  <2>1. CASE x = c
    <3>1. ~Sending(x)'
      BY <1>1, <1>8, <2>1
    <3>2. Receiving(x)' => ReceivesFor(x)'
      BY <1>3, <1>6, <1>7, <1>8, <1>9, <2>1 DEF ReceivesFor
    <3>. QED  BY <3>1, <3>2
  <2>2. CASE x # c
    <3>1. /\ Sending(x) => SendsFor(x)
          /\ Receiving(x) => ReceivesFor(x)
      BY DEF LifeInv, BlockedFor
    <3>2. asked'[x] = asked[x] \/ x \notin Users
      BY <1>7, <2>2
    <3>3. Sending(x)' => SendsFor(x)'
      BY <1>1, <1>6, <1>7, <1>8, <2>2, <3>1, <3>2 DEF SendsFor
    <3>4. Receiving(x)' => ReceivesFor(x)'
      BY <1>1, <1>6, <1>7, <1>8, <2>2, <3>1, <3>2 DEF ReceivesFor
    <3>. QED  BY <3>3, <3>4
  <2>. QED  BY <2>1, <2>2
<1>19. Placed'
  <2>1. \A s \in Servers : at'[s] \in ServerLocs
    BY <1>3, <1>7, Names DEF LifeInv, Placed
  <2>2. ASSUME NEW u \in Users  PROVE at'[u] \in UserLocs /\ (at'[u] = "sent" => ~Free(u)')
    <3>1. u \in Procs /\ u # MM
      BY Names
    <3>. QED  BY <1>1, <1>7, <1>8, <3>1 DEF LifeInv, Placed
  <2>3. asked'[InitProc] = "EXIT" => at'[InitProc] = "run" /\ ~Receiving(InitProc)'
    BY <1>3, <1>7, <1>8, Names DEF LifeInv, Placed
  <2>4. \A p \in Native : ~Free(p)'
    BY <1>3, <1>8, IpcAssumption DEF LifeInv, Placed
  <2>5. ASSUME NEW p \in Procs, Waiting(p)'
        PROVE  p \in Users /\ Served(MM, p)' /\ asked'[p] = "WAIT"
    <3>1. p # c /\ p \in Users /\ Served(MM, p) /\ asked[p] = "WAIT"
      BY <1>8, <1>9, <2>5 DEF LifeInv, Placed
    <3>. QED  BY <1>7, <1>14, <3>1
  <2>. QED  BY <1>7, <2>1, <2>2, <2>3, <2>4, <2>5 DEF Placed, MMLocs
<1>20. Service'
  <2>. SUFFICES ASSUME NEW z \in Servers
       PROVE  /\ at'[z] = "serve" /\ ~Receiving(z)' => buf'[z].source \in Users \cup {MM}
              /\ ~Has(z, MM)'
              /\ \A x \in Users : Has(z, x)' => Served(z, x)'
    BY DEF Service
  <2>1. z \in Procs /\ z # MM /\ z # c
    BY <1>3, Names
  <2>2. at[z] = "serve" /\ ~Receiving(z) => buf[z].source \in Users \cup {MM}
    BY DEF LifeInv, Service
  <2>3. /\ at'[z] = at[z] /\ (Receiving(z)' <=> Receiving(z)) /\ buf'[z] = buf[z]
        /\ (Sending(z)' <=> Sending(z)) /\ p_sendto'[z] = p_sendto[z]
    BY <1>6, <1>7, <1>8, <2>1
  <2>4. \A y : Has(z, y)' => Has(z, y)
    BY <2>3 DEF Has
  <2>. QED  BY <1>10, <1>11, <1>14, <2>2, <2>3, <2>4
<1>21. Handling' /\ Replying' /\ Replied' /\ Ending' /\ Reaping'
  BY <1>7 DEF Handling, Replying, Replied, Ending, Reaping
<1>22. Forking'
  <2>1. ServedFor(mm.src, "FORK")' /\ ServedFor(mm.pid, "FORK")'
    BY <1>15, <1>16 DEF ServedFor, Served, Sending, Receiving, Waiting
  <2>. QED  BY <1>3, <1>16, <2>1 DEF Forking
<1>23. Parents'
  <2>. SUFFICES ASSUME NEW x \in Slots, ~Free(x)'
                PROVE  p_parent'[x] \in Users \ {x} /\ Alive(p_parent[x])'
    BY DEF Parents
  <2>1. x \in Procs
    BY Names
  <2>2. PICK u \in Users : u = p_parent'[x] /\ u # x /\ Alive(u)
    <3>1. CASE x = c
      BY <1>1, <1>3, <1>6, <2>1, <3>1 DEF Alive
    <3>2. CASE x # c
      BY <1>1, <1>6, <1>8, <2>1, <3>2, Names DEF LifeInv, Parents
    <3>. QED  BY <3>1, <3>2
  <2>3. Alive(u)'
    BY <1>3, <1>8, <2>2, Names DEF Alive
  <2>. QED  BY <2>2, <2>3 DEF Alive, Free, Dead, Receiving
<1>24. ZombiesUnawaited'
  <2>. SUFFICES ASSUME NEW x \in Procs, Hanging(x)'
                PROVE  x \in Slots /\ Dead(x)' /\ ~Waiting(p_parent[x])'
    BY DEF ZombiesUnawaited
  <2>1. x # c /\ Hanging(x) /\ x \in Slots /\ Dead(x) /\ ~Waiting(p_parent[x])
    BY <1>8, <1>9 DEF LifeInv, ZombiesUnawaited
  <2>2. PICK u \in Procs : u = p_parent[x]
    BY <2>1, FlagNames, Names DEF LifeInv, Linked, Parents
  <2>3. ~Waiting(u)' /\ p_parent'[x] = u
    BY <1>6, <1>8, <1>9, <2>1, <2>2
  <2>. QED  BY <1>8, <2>1, <2>3 DEF Waiting
<1>25. ToldChildStays'
  <2>. SUFFICES ASSUME NEW x \in Users, NEW d \in Slots, Told(x, d)'
       PROVE  ~Free(d)' /\ p_parent'[d] = x
    BY <1>7 DEF ToldChildStays
  <2>1. d \in Procs /\ x \in Procs /\ x # MM
    BY Names
  <2>2. CASE mm'.src = x /\ mm'.pid = d
    BY <1>1, <1>3, <1>6, <1>8, <1>16, <2>2
  <2>3. CASE ~(mm'.src = x /\ mm'.pid = d)
    <3>1. ~Sending(MM)'
      BY <1>1, <1>3, <1>8
    <3>2. /\ asked'[x] = "FORK" /\ at'[x] = "run" /\ ~Receiving(x)' /\ ~Free(x)'
          /\ buf'[x].body.type = "SYSCALL_RET" /\ buf'[x].body.pid = d
      BY <1>7, <2>3, <3>1 DEF Told
    <3>3. x # c
      BY <1>7, <1>8, <1>9, <2>1, <3>2
    <3>4. Told(x, d)
      BY <1>6, <1>7, <1>8, <2>1, <3>2, <3>3 DEF Told
    <3>5. ~Free(d) /\ p_parent[d] = x
      BY <3>4 DEF LifeInv, ToldChildStays
    <3>6. d # c
      BY <1>3, <3>5
    <3>. QED  BY <1>6, <1>8, <2>1, <3>5, <3>6
  <2>. QED  BY <2>2, <2>3
<1>26. ~panicked'
  BY <1>5 DEF LifeInv
<1>. QED  BY <1>13, <1>17, <1>18, <1>19, <1>20, <1>21, <1>22, <1>23, <1>24, <1>25,
             <1>26 DEF LifeInv

-----------------------------------------------------------------------------
(* The theorems                                                            *)

LEMMA LifeInitial ==
    ASSUME LifeInit
    PROVE  LifeInv
<1>1. \A p \in Procs : /\ p_flags[p] = (IF p \in Native THEN {} ELSE {"FREE_SLOT"})
                       /\ ~p_msg[p] /\ p_recvfrom[p] = NO_TASK /\ p_sendto[p] = NO_TASK
                       /\ ~has_int_msg[p] /\ q_sending[p] = <<>>
                       /\ buf[p] = [source |-> p, body |-> EMPTY]
                       /\ at[p] = IF p \in Users THEN "run" ELSE "loop"
  BY DEF LifeInit
<1>2. \A p \in Procs : /\ ~Sending(p) /\ ~Receiving(p) /\ ~Waiting(p) /\ ~Hanging(p)
                       /\ ~Dead(p)
                       /\ Free(p) <=> p \notin Native
                       /\ "FREE_SLOT" \in p_flags[p] <=> p \notin Native
  <2>. SUFFICES ASSUME NEW p \in Procs
                PROVE  /\ ~Sending(p) /\ ~Receiving(p) /\ ~Waiting(p) /\ ~Hanging(p)
                       /\ ~Dead(p)
                       /\ Free(p) <=> p \notin Native
                       /\ "FREE_SLOT" \in p_flags[p] <=> p \notin Native
    OBVIOUS
  <2>1. CASE p \in Native
    <3>1. p_flags[p] = {} /\ p_flags[p] # {"FREE_SLOT"}
      BY <1>1, <2>1
    <3>. QED  BY <2>1, <3>1 DEF Sending, Receiving, Waiting, Hanging, Dead, Free
  <2>2. CASE p \notin Native
    <3>1. p_flags[p] = {"FREE_SLOT"}
      BY <1>1, <2>2
    <3>. QED  BY <2>2, <3>1 DEF Sending, Receiving, Waiting, Hanging, Dead, Free
  <2>. QED  BY <2>1, <2>2
<1>3. /\ at[MM] = "loop" /\ \A s \in Servers : at[s] = "loop"
      /\ \A u \in Users : u \in Procs /\ at[u] = "run" /\ asked[u] = "EXIT"
      /\ mm = MMIdle /\ ~panicked
  BY <1>1, Names DEF LifeInit
<1>4. Linked
  <2>1. TypeOK
    <3>1. q_sending \in [Procs -> Seq(Procs)]
      BY EmptySeq DEF LifeInit
    <3>2. buf \in [Procs -> Message]
      BY DEF LifeInit, Message
    <3>. QED  BY <3>1, <3>2 DEF LifeInit, TypeOK, Flags
  <2>2. Fields
    BY <1>1, <1>2 DEF Fields, FieldsOf
  <2>3. QueueIsSenders
    <3>1. \A i : i \notin 1..Len(<<>>)
      OBVIOUS
    <3>. QED  BY <1>1, <1>2, <3>1 DEF QueueIsSenders, NoRepeat, Lists
  <2>. QED  BY <2>1, <2>2, <2>3 DEF Linked
<1>5. Typed
  BY <1>3, ProcLifeAssumption DEF Typed, LifeInit, MMIdle, Locs, MMLocs, ServerLocs, UserLocs, AllCalls
<1>6. BlockedFor /\ ZombiesUnawaited
  BY <1>2 DEF BlockedFor, ZombiesUnawaited
<1>7. Placed
  BY <1>2, <1>3, Names, IpcAssumption DEF Placed, MMLocs, ServerLocs, UserLocs
<1>8. Service
  <2>1. \A s \in Servers : s \in Procs /\ at[s] = "loop" /\ ~Sending(s)
    BY <1>2, <1>3, Names
  <2>. QED  BY <2>1 DEF Service, Has
<1>9. Handling /\ Forking /\ Replying /\ Replied /\ Ending /\ Reaping
  BY <1>2, <1>3, Names DEF Handling, Forking, Replying, Replied, Ending, Reaping
<1>10. Parents
  BY <1>2, Names DEF Parents
<1>11. ToldChildStays
  <2>. SUFFICES ASSUME NEW u \in Users, NEW c \in Slots  PROVE ~Told(u, c)
    BY DEF ToldChildStays
  <2>. QED  BY <1>3 DEF Told
<1>. QED  BY <1>3, <1>4, <1>5, <1>6, <1>7, <1>8, <1>9, <1>10, <1>11 DEF LifeInv

LEMMA StutterKeeps ==
    ASSUME LifeInv, UNCHANGED allVars
    PROVE  LifeInv'
<1>1. UNCHANGED vars /\ UNCHANGED lifeVars
  BY DEF allVars
<1>2. Linked' /\ Unmarked
  BY <1>1, SameLinked DEF LifeInv
<1>3. UNCHANGED <<p_parent, exit_status, at, asked, mm, shells>>
  BY <1>1 DEF lifeVars
<1>4. Typed'
  BY <1>3 DEF LifeInv, Typed
<1>5. BlockedFor' /\ Placed' /\ Service'
  BY <1>1, <1>3 DEF LifeInv, BlockedFor, SendsFor, ReceivesFor, Placed, Service, Has, Served,
                    MMKilling, MMAwaits, Sending, Receiving, Waiting, Free, Dead, vars
<1>6. StillServed /\ MMStays
  BY <1>1, <1>3 DEF StillServed, MMStays, Served, Sending, Receiving, vars
<1>7. Forking' /\ Replying' /\ Replied' /\ Ending' /\ Reaping' /\ Parents' /\ ZombiesUnawaited'
  BY <1>2, <1>6, MMKept
<1>8. Handling'
  BY <1>1, <1>3 DEF LifeInv, Handling, ServedFor, Served, Sending, Receiving, Waiting, vars
<1>9. ToldChildStays'
  BY <1>1, <1>3 DEF LifeInv, ToldChildStays, Told, Sending, Receiving, Free, vars
<1>10. ~panicked'
  BY <1>1 DEF LifeInv, vars
<1>. QED  BY <1>2, <1>4, <1>5, <1>7, <1>8, <1>9, <1>10 DEF LifeInv

LEMMA LifeStepKeeps ==
    ASSUME KillsApart, LifeInv, [LifeNext]_allVars
    PROVE  LifeInv'
<1>1. ASSUME NEW u \in Users, NEW call \in Calls \cup {"FORK", "WAIT"}, Call(u, call)
      PROVE  LifeInv'
  BY <1>1, CallKeeps
<1>2. ASSUME NEW u \in Users, Await(u)  PROVE LifeInv'
  BY <1>2, AwaitKeeps
<1>3. ASSUME NEW s \in Servers, Take(s) \/ Reply(s)  PROVE LifeInv'
  BY <1>3, TakeKeeps, ReplyKeeps
<1>4. CASE MMTake \/ MMReply
  BY <1>4, MMTakeKeeps, MMReplyKeeps
<1>5. ASSUME NEW src \in Users,
             ForkFails(src) \/ ForkCopies(src) \/ Exit(src) \/ Kill(src) \/ Wait(src)
      PROVE  LifeInv'
  BY <1>5, ForkFailsKeeps, ForkCopiesKeeps, ExitKeeps, KillKeeps, WaitKeeps
<1>6. CASE ForkTellsFS \/ ForkHearsFS \/ ForkBirth
  BY <1>6, TellsFSKeeps, HearsFSKeeps, ForkBirthKeeps
<1>7. CASE ExitTellsFS \/ ExitHearsFS \/ ExitReaps \/ ExitAdopts
  BY <1>7, TellsFSKeeps, HearsFSKeeps, ExitReapsKeeps, ExitAdoptsKeeps
<1>8. CASE CleanupTells \/ CleanupReleases
  BY <1>8, CleanupTellsKeeps, ReleaseKeeps
<1>9. CASE UNCHANGED allVars
  BY <1>9, StutterKeeps
<1>. QED  BY <1>1, <1>2, <1>3, <1>4, <1>5, <1>6, <1>7, <1>8, <1>9 DEF LifeNext, MMStep

\* What is true whenever programs do not both kill and call SYS.
THEOREM LifeInvariant ==
    KillsApart => (LifeSpec => []LifeInv)
<1>. SUFFICES ASSUME KillsApart  PROVE LifeSpec => []LifeInv
  OBVIOUS
<1>1. LifeInit => LifeInv
  BY LifeInitial
<1>2. LifeInv /\ [LifeNext]_allVars => LifeInv'
  BY LifeStepKeeps
<1>. QED  BY <1>1, <1>2, PTL DEF LifeSpec

\* Without such programs no order of system calls makes msg_send find a circle
\* of senders and panic: MM sends only to whom waits for it and to FS, which
\* may be sending only to a process that waits for FS.
THEOREM LifeNeverPanics ==
    KillsApart => (LifeSpec => []NeverPanics)
<1>. SUFFICES ASSUME KillsApart  PROVE LifeSpec => []NeverPanics
  OBVIOUS
<1>1. LifeSpec => []LifeInv
  BY LifeInvariant
<1>2. LifeInv => NeverPanics
  BY DEF LifeInv, NeverPanics
<1>. QED  BY <1>1, <1>2, PTL

-----------------------------------------------------------------------------
(* How every process ended                                                 *)

\* MM is ending c and has not written its status into the table yet.
Unrecorded(c) == at[MM] \in {"exit", "exit_fs", "reap"} /\ mm.pid = c

\* The killed processes are gone, and of whoever is gone the table, or MM that
\* is about to write it, has the status it ended with.
Recorded(c) ==
    /\ c \in killed => at[c] = "gone"
    /\ at[c] = "gone" => EndOf(c) = IF Unrecorded(c) THEN mm.status ELSE exit_status[c]

EndsInv == /\ exited \in [Procs -> {-1, 0, 1}]
           /\ killed \subseteq Slots
           /\ \A c \in Slots : Recorded(c)

\* Most steps end nobody and record nothing: nobody is gone who was not, and MM
\* is ending whom it was ending.
LEMMA EndsKept ==
    ASSUME LifeInv, EndsInv, UNCHANGED <<exit_status, ends>>,
           \A c \in Slots : at'[c] = "gone" <=> at[c] = "gone",
           \A c \in Slots : (Unrecorded(c))' <=> Unrecorded(c),
           (\E c \in Slots : Unrecorded(c)) => mm'.status = mm.status
    PROVE  EndsInv'
<1>1. exited' = exited /\ killed' = killed /\ exit_status' = exit_status
  BY DEF ends
<1>2. ASSUME NEW c \in Slots  PROVE Recorded(c)'
  <2>1. EndOf(c)' = EndOf(c)
    BY <1>1 DEF EndOf
  <2>. QED  BY <1>1, <2>1 DEF EndsInv, Recorded
<1>. QED  BY <1>1, <1>2 DEF EndsInv

\* A step of a program that is not MM.
LEMMA ProgramEnds ==
    ASSUME LifeInv, EndsInv, UNCHANGED <<exit_status, mm, ends>>,
           NEW p \in Procs, p # MM, NEW loc, loc # "gone", at[p] # "gone", GoTo(p, loc)
    PROVE  EndsInv'
<1>1. at' = [at EXCEPT ![p] = loc] /\ at \in [Procs -> Locs] /\ MM \in Procs
  BY Names DEF GoTo, LifeInv, Typed
<1>2. at'[MM] = at[MM]
  BY <1>1
<1>3. \A c \in Slots : c \in Procs /\ (at'[c] = "gone" <=> at[c] = "gone")
  BY <1>1 DEF Slots
<1>4. \A c \in Slots : (Unrecorded(c))' <=> Unrecorded(c)
  BY <1>2 DEF Unrecorded
<1>. QED  BY <1>3, <1>4, EndsKept

\* A step of MM that is not between the death of a process and its recording.
LEMMA MMEnds ==
    ASSUME LifeInv, EndsInv, UNCHANGED <<exit_status, ends>>, NEW loc, GoTo(MM, loc),
           at[MM] \notin {"exit", "exit_fs", "reap"}, loc \notin {"exit", "exit_fs", "reap"}
    PROVE  EndsInv'
<1>1. at' = [at EXCEPT ![MM] = loc] /\ at \in [Procs -> Locs] /\ MM \in Procs
  BY Names DEF GoTo, LifeInv, Typed
<1>2. at'[MM] = loc
  BY <1>1
<1>3. \A c \in Slots : at'[c] = at[c]
  BY <1>1, Names
<1>4. \A c \in Slots : ~(Unrecorded(c))' /\ ~Unrecorded(c)
  BY <1>2 DEF Unrecorded
<1>. QED  BY <1>3, <1>4, EndsKept

\* MM asks FS to close the files of the dead process.
LEMMA ExitFSEnds ==
    ASSUME LifeInv, EndsInv, ExitTellsFS \/ ExitHearsFS
    PROVE  EndsInv'
<1>1. /\ at[MM] \in {"exit", "exit_fs"} /\ UNCHANGED <<exit_status, mm, ends>>
      /\ GoTo(MM, "exit_fs") \/ GoTo(MM, "reap")
  BY DEF ExitTellsFS, ExitHearsFS, MMSend, Here
<1>2. at \in [Procs -> Locs] /\ MM \in Procs
  BY Names DEF LifeInv, Typed
<1>3. at'[MM] \in {"exit_fs", "reap"} /\ \A c \in Slots : at'[c] = at[c]
  BY <1>1, <1>2, Names DEF GoTo
<1>4. \A c \in Slots : (Unrecorded(c))' <=> Unrecorded(c)
  BY <1>1, <1>3 DEF Unrecorded
<1>. QED  BY <1>1, <1>3, <1>4, EndsKept

\* do_process_exit writes the status of the dead process into the table.
LEMMA ExitReapsEnds ==
    ASSUME LifeInv, EndsInv, ExitReaps
    PROVE  EndsInv'
<1>1. /\ at[MM] = "reap" /\ exit_status' = [exit_status EXCEPT ![mm.pid] = mm.status]
      /\ exited' = exited /\ killed' = killed
      /\ GoTo(MM, "cleanup") \/ GoTo(MM, "adopt")
  BY DEF ExitReaps, Here, ends
<1>2. /\ at \in [Procs -> Locs] /\ MM \in Procs
      /\ exit_status \in [Procs -> {-1, 0, 1}]
  BY Names DEF LifeInv, Typed
<1>3. at'[MM] \in {"cleanup", "adopt"} /\ \A c \in Slots : at'[c] = at[c]
  BY <1>1, <1>2, Names DEF GoTo
<1>4. ASSUME NEW c \in Slots  PROVE Recorded(c)'
  <2>1. Recorded(c) /\ c \in Procs /\ EndOf(c)' = EndOf(c) /\ at'[c] = at[c]
    BY <1>1, <1>3, Names DEF EndsInv, EndOf
  <2>2. ~(Unrecorded(c))' /\ (Unrecorded(c) <=> mm.pid = c)
    BY <1>1, <1>3 DEF Unrecorded
  <2>3. exit_status'[c] = IF mm.pid = c THEN mm.status ELSE exit_status[c]
    BY <1>1, <1>2, <2>1
  <2>. QED  BY <1>1, <2>1, <2>2, <2>3 DEF Recorded
<1>. QED  BY <1>1, <1>4 DEF EndsInv

\* A process exits, or is killed, alive or as a zombie.
LEMMA DeathEnds ==
    ASSUME LifeInv, EndsInv, NEW src \in Users, Exit(src) \/ Kill(src)
    PROVE  EndsInv'
<1>. DEFINE Left(pid, status) ==
       /\ at' = [at EXCEPT ![MM] = "exit", ![pid] = "gone"]
       /\ mm'.pid = pid /\ mm'.status = status
       /\ exit_status' = exit_status
<1>1. at \in [Procs -> Locs] /\ MM \in Procs /\ at[MM] = "handle"
  BY Names DEF LifeInv, Typed, Exit, Kill, Handles, Here
<1>2. ASSUME NEW pid \in Slots, NEW status, Left(pid, status),
             \A c \in Slots : c # pid => EndOf(c)' = EndOf(c) /\ (c \in killed' <=> c \in killed),
             EndOf(pid)' = status
      PROVE  \A c \in Slots : Recorded(c)'
  <2>. SUFFICES ASSUME NEW c \in Slots  PROVE Recorded(c)'
    OBVIOUS
  <2>1. /\ at'[MM] = "exit" /\ at'[pid] = "gone" /\ c \in Procs
        /\ c # pid => at'[c] = at[c]
    BY <1>1, <1>2, Names
  <2>2. CASE c = pid
    <3>1. Unrecorded(c)'
      BY <1>2, <2>1, <2>2 DEF Unrecorded
    <3>. QED  BY <1>2, <2>1, <2>2, <3>1 DEF Recorded
  <2>3. CASE c # pid
    <3>1. ~Unrecorded(c)' /\ ~Unrecorded(c) /\ Recorded(c)
      BY <1>1, <1>2, <2>1, <2>3 DEF Unrecorded, EndsInv
    <3>. QED  BY <1>2, <2>1, <2>3, <3>1 DEF Recorded
  <2>. QED  BY <2>2, <2>3
<1>3. CASE Exit(src)
  <2>. DEFINE status == buf[MM].body.i1
  <2>1. /\ ServedFor(src, "EXIT") /\ status = Status("EXIT") /\ ~Dead(src)
    BY <1>3, HandlesIs DEF Exit
  <2>2. src \in Slots /\ at[src] # "gone"
    BY <2>1 DEF LifeInv, Placed, ServedFor, Served, Users
  <2>3. src \notin killed /\ exited \in [Procs -> {-1, 0, 1}] /\ killed \subseteq Slots
    BY <2>2 DEF EndsInv, Recorded
  <2>4. exited' = [exited EXCEPT ![src] = status] /\ killed' = killed
    BY <1>3 DEF Exit
  <2>5. status = 1 /\ src \in Procs
    BY <2>1, <2>2, Names DEF Status
  <2>6. exited' \in [Procs -> {-1, 0, 1}]
    BY <2>3, <2>4, <2>5
  <2>7. Left(src, status)
    BY <1>3 DEF Exit, Dies, MMIdle
  <2>8. /\ EndOf(src)' = status
        /\ \A c \in Slots : c # src => EndOf(c)' = EndOf(c) /\ (c \in killed' <=> c \in killed)
    <3>. HIDE DEF status
    <3>. QED  BY <2>3, <2>4, <2>5, Names DEF EndOf
  <2>9. \A c \in Slots : Recorded(c)'
    <3>. HIDE DEF status, Left
    <3>. QED  BY <1>2, <2>2, <2>7, <2>8
  <2>. QED  BY <2>3, <2>4, <2>6, <2>9 DEF EndsInv
<1>4. CASE Kill(src) /\ Killable(buf[MM].body.pid, src)
  <2>1. PICK pid \in Slots : /\ exited' = exited /\ killed' = killed \cup {pid}
                             /\ Dies(src, "KILL", pid, -1)
    BY <1>4 DEF Kill, Killable
  <2>2. Left(pid, -1)
    BY <2>1 DEF Dies, MMIdle
  <2>3. /\ EndOf(pid)' = -1
        /\ \A c \in Slots : c # pid => EndOf(c)' = EndOf(c) /\ (c \in killed' <=> c \in killed)
    <3>. HIDE DEF Left
    <3>. QED  BY <2>1 DEF EndOf
  <2>4. \A c \in Slots : Recorded(c)'
    <3>. HIDE DEF Left
    <3>. QED  BY <1>2, <2>1, <2>2, <2>3
  <2>. QED  BY <2>1, <2>4 DEF EndsInv
<1>5. CASE Kill(src) /\ ~Killable(buf[MM].body.pid, src)
  <2>1. UNCHANGED <<exit_status, ends>> /\ GoTo(MM, "reply")
    BY <1>5 DEF Kill, MMAnswer
  <2>. QED  BY <1>1, <2>1, MMEnds
<1>. QED  BY <1>3, <1>4, <1>5

\* The child starts with no end: it is not gone.
LEMMA ForkEnds ==
    ASSUME LifeInv, EndsInv, NEW src \in Users, ForkCopies(src)
    PROVE  EndsInv'
<1>1. PICK k \in Slots : k = First(FreeSlots)
  <2>1. First(FreeSlots) \in FreeSlots
    BY FirstIs DEF ForkCopies, FreeSlots
  <2>. QED  BY <2>1 DEF FreeSlots, LifeInv, Placed, Slots
<1>2. /\ at' = [at EXCEPT ![k] = at[src], ![MM] = "fork"]
      /\ exit_status' = [exit_status EXCEPT ![k] = exit_status[src]]
      /\ exited' = [exited EXCEPT ![k] = 0] /\ killed' = killed \ {k}
      /\ at[MM] = "handle" /\ ServedFor(src, "FORK")
  BY <1>1, HandlesIs DEF ForkCopies
<1>3. /\ at \in [Procs -> Locs] /\ exit_status \in [Procs -> {-1, 0, 1}]
      /\ exited \in [Procs -> {-1, 0, 1}] /\ killed \subseteq Slots
      /\ MM \in Procs /\ k \in Procs /\ k # MM
  BY Names DEF LifeInv, Typed, EndsInv
<1>4. at[src] # "gone"
  BY <1>2 DEF ServedFor, Served
<1>5. at'[MM] = "fork" /\ at'[k] # "gone"
  BY <1>2, <1>3, <1>4
<1>6. ASSUME NEW c \in Slots  PROVE Recorded(c)'
  <2>1. ~Unrecorded(c)' /\ ~Unrecorded(c) /\ c \in Procs /\ c # MM /\ Recorded(c)
    BY <1>2, <1>5, Names DEF Unrecorded, EndsInv
  <2>2. CASE c = k
    BY <1>2, <1>5, <2>2 DEF Recorded
  <2>3. CASE c # k
    <3>1. at'[c] = at[c] /\ exit_status'[c] = exit_status[c] /\ exited'[c] = exited[c]
          /\ (c \in killed' <=> c \in killed)
      BY <1>2, <1>3, <2>1, <2>3
    <3>2. EndOf(c)' = EndOf(c)
      BY <3>1 DEF EndOf
    <3>. QED  BY <2>1, <3>1, <3>2 DEF Recorded
  <2>. QED  BY <2>2, <2>3
<1>7. exited' \in [Procs -> {-1, 0, 1}]
  BY <1>2, <1>3
<1>. QED  BY <1>2, <1>3, <1>6, <1>7 DEF EndsInv

LEMMA EndsStepKeeps ==
    ASSUME LifeInv, EndsInv, [LifeNext]_allVars
    PROVE  EndsInv'
<1>1. ASSUME NEW u \in Users, NEW call \in Calls \cup {"FORK", "WAIT"},
             Call(u, call) \/ Await(u)
      PROVE  EndsInv'
  <2>1. /\ UNCHANGED <<exit_status, mm, ends>> /\ at[u] \in {"run", "sent"}
        /\ GoTo(u, "sent") \/ GoTo(u, "run")
    BY <1>1 DEF Call, Await, Here
  <2>. QED  BY <2>1, ProgramEnds, Names
<1>2. ASSUME NEW s \in Servers, Take(s) \/ Reply(s)  PROVE EndsInv'
  <2>1. /\ UNCHANGED <<exit_status, mm, ends>> /\ at[s] \in {"loop", "serve"}
        /\ GoTo(s, "serve") \/ GoTo(s, "loop")
    BY <1>2 DEF Take, Reply, Here
  <2>. QED  BY <2>1, ProgramEnds, Names
<1>3. CASE MMTake \/ MMReply \/ ForkTellsFS \/ ForkHearsFS \/ ForkBirth
           \/ CleanupTells \/ ExitAdopts \/ CleanupReleases
           \/ \E src \in Users : ForkFails(src) \/ Wait(src)
  <2>1. /\ UNCHANGED <<exit_status, ends>>
        /\ at[MM] \in {"loop", "reply", "fork", "fork_fs", "birth", "cleanup", "adopt",
                       "release", "handle"}
        /\ \E loc \in {"handle", "loop", "fork_fs", "birth", "reply", "release", "cleanup",
                       "adopt"} : GoTo(MM, loc)
    BY <1>3 DEF MMTake, MMReply, ForkTellsFS, ForkHearsFS, ForkBirth, CleanupTells, ExitAdopts,
                CleanupReleases, ForkFails, Wait, MMSend, MMAnswer, Here, Handles, Finish
  <2>2. PICK loc \in {"handle", "loop", "fork_fs", "birth", "reply", "release", "cleanup",
                      "adopt"} : GoTo(MM, loc)
    BY <2>1
  <2>. QED  BY <2>1, <2>2, MMEnds
<1>4. ASSUME NEW src \in Users, ForkCopies(src) \/ Exit(src) \/ Kill(src)  PROVE EndsInv'
  BY <1>4, ForkEnds, DeathEnds
<1>5. CASE ExitTellsFS \/ ExitHearsFS \/ ExitReaps
  BY <1>5, ExitFSEnds, ExitReapsEnds
<1>6. CASE UNCHANGED allVars
  <2>1. UNCHANGED <<exit_status, ends, at, mm>>
    BY <1>6 DEF allVars, lifeVars
  <2>. QED  BY <2>1, EndsKept DEF Unrecorded
<1>. QED  BY <1>1, <1>2, <1>3, <1>4, <1>5, <1>6 DEF LifeNext, MMStep

LEMMA EndsInvariant ==
    KillsApart => (LifeSpec => []EndsInv)
<1>. SUFFICES ASSUME KillsApart  PROVE LifeSpec => []EndsInv
  OBVIOUS
<1>1. LifeSpec => []LifeInv
  BY LifeInvariant
<1>2. LifeInit => EndsInv
  <2>. SUFFICES ASSUME LifeInit  PROVE EndsInv
    OBVIOUS
  <2>1. exited = [p \in Procs |-> 0] /\ killed = {}
        /\ at = [p \in Procs |-> IF p \in Users THEN "run" ELSE "loop"]
    BY DEF LifeInit
  <2>2. \A c \in Slots : at[c] # "gone" /\ c \notin killed
    BY <2>1 DEF Slots
  <2>. QED  BY <2>1, <2>2 DEF EndsInv, Recorded
<1>3. LifeInv /\ EndsInv /\ [LifeNext]_allVars => EndsInv'
  BY EndsStepKeeps
<1>. QED  BY <1>1, <1>2, <1>3, PTL DEF LifeSpec

LEMMA InvSound ==
    ASSUME LifeInv, EndsInv
    PROVE  FamilySound
<1>1. TypeOK /\ Fields /\ Typed
  BY DEF LifeInv, Linked
<1>2. ASSUME NEW p \in Procs
      PROVE  /\ Cardinality(p_flags[p] \cap {"SENDING", "RECEIVING"}) <= 1
             /\ Hanging(p) => Dead(p)
             /\ Waiting(p) => p \in Users /\ asked[p] = "WAIT" /\ ~Sending(p)
  <2>1. Cardinality(p_flags[p] \cap {"SENDING", "RECEIVING"}) <= 1
    <3>1. ~(Sending(p) /\ Receiving(p))
      BY <1>1 DEF Fields, FieldsOf
    <3>2. p_flags[p] \cap {"SENDING", "RECEIVING"} \in {{}, {"SENDING"}, {"RECEIVING"}}
      BY <3>1 DEF Sending, Receiving
    <3>3. /\ Cardinality({}) = 0 /\ Cardinality({"SENDING"}) = 1
          /\ Cardinality({"RECEIVING"}) = 1
      BY FS_EmptySet, FS_Singleton
    <3>. QED  BY <3>2, <3>3
  <2>2. Hanging(p) => Dead(p)
    BY DEF LifeInv, ZombiesUnawaited
  <2>3. Waiting(p) => p \in Users /\ asked[p] = "WAIT" /\ ~Sending(p)
    BY ServedIs DEF LifeInv, Placed
  <2>. QED  BY <2>1, <2>2, <2>3
<1>3. LifeTypeOK
  BY <1>1, <1>2 DEF LifeTypeOK, Typed, AllCalls, EndsInv
<1>4. NoZombieAwaited
  BY DEF LifeInv, ZombiesUnawaited, NoZombieAwaited
<1>5. ParentsAlive
  <2>. SUFFICES ASSUME Quiet, NEW p \in Slots, ~Free(p)
                PROVE  p_parent[p] \in Users /\ ~Free(p_parent[p]) /\ ~Dead(p_parent[p])
    BY DEF ParentsAlive
  <2>1. \A x : ~Dying(x)
    BY DEF Quiet, Dying
  <2>. QED  BY <2>1 DEF LifeInv, Parents, Alive
<1>6. ForkedChildExists
  <2>. SUFFICES ASSUME NEW u \in Users, NEW c \in Slots, Forked(u, c)
                PROVE  ~Free(c) /\ p_parent[c] = u
    BY DEF ForkedChildExists
  <2>1. Ret(0, c).type = "SYSCALL_RET" /\ Ret(0, c).pid = c
    BY DEF Ret, Body
  <2>2. /\ at[u] = "run" /\ ~Receiving(u) /\ ~Free(u) /\ asked[u] = "FORK"
        /\ buf[u].body = Ret(0, c)
    BY DEF Forked, Here, Runnable, Receiving, Free, Ret
  <2>3. Told(u, c)
    BY <2>1, <2>2 DEF Told
  <2>. QED  BY <2>3 DEF LifeInv, ToldChildStays
<1>. QED  BY <1>3, <1>4, <1>5, <1>6 DEF FamilySound

\* The process table is a family: no zombie is left behind whose parent waits,
\* every process has a living parent (do_process_exit hands the children of
\* the dead to INIT), and the child whose number fork() returned exists and is
\* the caller's until the caller waits for it.
THEOREM LifeFamilySound ==
    KillsApart => (LifeSpec => []FamilySound)
<1>. SUFFICES ASSUME KillsApart  PROVE LifeSpec => []FamilySound
  OBVIOUS
<1>1. LifeSpec => []LifeInv
  BY LifeInvariant
<1>2. LifeSpec => []EndsInv
  BY EndsInvariant
<1>3. LifeInv /\ EndsInv => FamilySound
  BY InvSound
<1>. QED  BY <1>1, <1>2, <1>3, PTL

\* Whose messages a kernel call changes, and into what.
LEMMA SendBuf ==
    ASSUME TypeOK, NEW p \in Procs, NEW d, NEW b, Send(p, d, b)
    PROVE  \A x \in Procs :
              \/ buf'[x] = buf[x]
              \/ x \in {p, d} /\ buf'[x].source = p /\ buf'[x].body = b
<1>1. SendDelivers(p, d, b) \/ SendBlocks(p, d, b) \/ buf' = buf
  BY DEF Send, msg_send, SendPanics, vars
<1>. QED  BY <1>1 DEF SendDelivers, SendBlocks, TypeOK

LEMMA ReceiveBuf ==
    ASSUME LifeInv, NEW p \in Procs, NEW src \in Procs \cup {ANY}, msg_receive(p, src)
    PROVE  /\ \A x \in Procs : x # p => buf'[x] = buf[x]
           /\ \/ buf'[p].source = p
              \/ \E from \in Procs : /\ Sending(from) /\ p_sendto[from] = p
                                     /\ buf'[p] = buf[from] /\ buf[from].source = from
<1>1. Waits(p, src) \/ \E from \in Procs : Took(p, src, from)
  BY ReceiveLinked DEF LifeInv
<1>2. CASE Waits(p, src)
  BY <1>2 DEF Waits
<1>3. ASSUME NEW from \in Procs, Took(p, src, from)
      PROVE  /\ \A x \in Procs : x # p => buf'[x] = buf[x]
             /\ Sending(from) /\ p_sendto[from] = p
             /\ buf'[p] = buf[from] /\ buf[from].source = from
  BY <1>3 DEF Took, LifeInv, BlockedFor, SendsFor
<1>. QED  BY <1>1, <1>2, <1>3

\* Of a dead process that MM is not ending, the table has the status.
LEMMA DeadEnd ==
    ASSUME LifeInv, EndsInv, NEW c \in Slots, Dead(c),
           at[MM] \notin {"exit", "exit_fs", "reap"}
    PROVE  exit_status[c] = EndOf(c)
<1>1. at[c] = "gone"
  BY UserBlocked, Names
<1>. QED  BY <1>1 DEF EndsInv, Recorded, Unrecorded

\* An answer of MM to wait() that is delivered when the caller comes for it.
LEMMA TakenIsTrue ==
    ASSUME LifeInv, EndsInv, NEW u \in Users, NEW c \in Slots, Sending(MM),
           p_sendto[MM] = u, asked[u] = "WAIT", buf[MM].body.pid = c
    PROVE  Dead(c) /\ p_parent[c] = u /\ buf[MM].body.i1 = EndOf(c)
<1>1. at[MM] \in {"reply", "release", "loop"} /\ c # NO_TASK
  BY MMBlocked, Names
<1>2. at[MM] # "reply"
  BY DEF LifeInv, Replying, ServedFor
<1>3. at[MM] # "loop"
  BY <1>1 DEF LifeInv, Replied
<1>4. /\ Dead(mm.victim) /\ p_parent[mm.victim] = u
      /\ buf[MM].body = Ret(exit_status[mm.victim], mm.victim)
  BY <1>1, <1>2, <1>3 DEF LifeInv, Reaping
<1>5. mm.victim = c /\ buf[MM].body.i1 = exit_status[c]
  BY <1>4 DEF Ret, Body
<1>6. exit_status[c] = EndOf(c)
  BY <1>1, <1>2, <1>3, <1>4, <1>5, DeadEnd
<1>. QED  BY <1>4, <1>5, <1>6

LEMMA DeathTellsNobody ==
    ASSUME LifeInv, NEW pid \in Slots, abort_ipc(pid), NEW x \in Procs
    PROVE  buf'[x] = buf[x]
<1>1. AbortedReceivers(pid) = {}
  BY NobodyHears DEF AbortedReceivers
<1>. QED  BY <1>1 DEF abort_ipc

LEMMA StepTellsTruth ==
    ASSUME LifeInv, EndsInv, [LifeNext]_allVars, NEW u \in Users, NEW c \in Slots
    PROVE  TellsTruth(u, c)
<1>. SUFFICES ASSUME asked[u] = "WAIT", buf'[u] # buf[u], buf'[u].source = MM,
                     buf'[u].body.pid = c
              PROVE  Dead(c) /\ p_parent[c] = u /\ buf'[u].body.i1 = EndOf(c)
  BY DEF TellsTruth
<1>1. /\ TypeOK /\ u \in Procs /\ u # MM /\ u # FS /\ u \notin Servers /\ MM \in Procs
      /\ c \in Procs /\ c # NO_TASK /\ c # 0
  BY Names DEF LifeInv, Linked
<1>2. ASSUME NEW v \in Users, NEW call \in Calls \cup {"FORK", "WAIT"}, Call(v, call)
      PROVE  FALSE
  <2>1. PICK d, b : Send(v, d, b)
    BY <1>2 DEF Call, Send
  <2>. QED  BY <1>1, <2>1, SendBuf, Names
<1>3. ASSUME NEW v \in Users, Await(v)
      PROVE  Dead(c) /\ p_parent[c] = u /\ buf'[u].body.i1 = EndOf(c)
  <2>1. msg_receive(v, Callee(asked[v])) /\ Callee(asked[v]) \in Procs /\ v \in Procs
    BY <1>3, UserBlocked, Names DEF Await
  <2>2. /\ u = v
        /\ \/ buf'[u].source = u
           \/ \E from \in Procs : /\ Sending(from) /\ p_sendto[from] = u
                                  /\ buf'[u] = buf[from] /\ buf[from].source = from
    <3>1. u = v
      BY <1>1, <2>1, ReceiveBuf
    <3>. QED  BY <2>1, <3>1, ReceiveBuf
  <2>3. Sending(MM) /\ p_sendto[MM] = u /\ buf'[u] = buf[MM]
    BY <1>1, <2>2
  <2>. QED  BY <2>2, <2>3, TakenIsTrue
<1>4. ASSUME NEW s \in Servers, Take(s) \/ Reply(s)  PROVE FALSE
  <2>1. CASE Take(s)
    <3>1. msg_receive(s, ANY) /\ s \in Procs /\ s # u
      BY <1>1, <2>1, Names DEF Take
    <3>. QED  BY <1>1, <3>1, ReceiveBuf
  <2>2. CASE Reply(s)
    <3>1. PICK d, b : Send(s, d, b)
      BY <2>2 DEF Reply
    <3>2. s \in Procs /\ s # MM
      BY Names DEF Servers
    <3>3. buf'[u] = buf[u] \/ buf'[u].source = s
      BY <1>1, <3>1, <3>2, SendBuf
    <3>. QED  BY <3>2, <3>3
  <2>. QED  BY <1>4, <2>1, <2>2
<1>5. ASSUME MMTake \/ ForkHearsFS \/ ExitHearsFS  PROVE FALSE
  <2>1. msg_receive(MM, ANY) \/ msg_receive(MM, FS)
    BY <1>5 DEF MMTake, ForkHearsFS, ExitHearsFS
  <2>2. FS \in Procs
    BY Names
  <2>. QED  BY <1>1, <2>1, <2>2, ReceiveBuf
<1>6. ASSUME ForkTellsFS \/ ExitTellsFS  PROVE FALSE
  <2>1. PICK b : Send(MM, FS, b)
    BY <1>6 DEF ForkTellsFS, ExitTellsFS, MMSend
  <2>. QED  BY <1>1, <2>1, SendBuf
<1>7. ASSUME MMReply  PROVE FALSE
  <2>1. at[MM] = "reply" /\ Send(MM, mm.src, mm.out)
    BY <1>7 DEF MMReply, MMSend, Here
  <2>2. u = mm.src /\ mm.out.pid = c
    BY <1>1, <2>1, SendBuf
  <2>. QED  BY <1>1, <2>1, <2>2 DEF LifeInv, Replying
<1>8. ASSUME ForkBirth  PROVE FALSE
  <2>1. at[MM] = "birth" /\ Send(MM, mm.pid, Body("SYSCALL_RET", 0, 0))
    BY <1>8 DEF ForkBirth, MMSend, Here
  <2>2. u = mm.pid
    BY <1>1, <2>1, SendBuf
  <2>. QED  BY <2>1, <2>2 DEF LifeInv, Forking, ServedFor
<1>9. ASSUME CleanupTells
      PROVE  Dead(c) /\ p_parent[c] = u /\ buf'[u].body.i1 = EndOf(c)
  <2>. DEFINE b == Ret(exit_status[mm.victim], mm.victim)
  <2>1. at[MM] = "cleanup" /\ Send(MM, p_parent[mm.victim], b)
    BY <1>9 DEF CleanupTells, MMSend, Here, Ret
  <2>2. u = p_parent[mm.victim] /\ buf'[u].body = b
    BY <1>1, <2>1, SendBuf
  <2>3. Dead(mm.victim)
    BY <2>1 DEF LifeInv, Reaping
  <2>4. mm.victim = c /\ b.i1 = exit_status[c]
    BY <2>2 DEF Ret, Body
  <2>5. exit_status[c] = EndOf(c)
    BY <2>1, <2>3, <2>4, DeadEnd
  <2>. QED  BY <2>2, <2>3, <2>4, <2>5
<1>10. ASSUME NEW src \in Users, ForkCopies(src)  PROVE FALSE
  <2>1. PICK k \in Slots : buf' = [buf EXCEPT ![k] = [buf[src] EXCEPT !.source = k]]
    <3>1. First(FreeSlots) \in FreeSlots
      BY <1>10, FirstIs DEF ForkCopies, FreeSlots
    <3>2. FreeSlots \subseteq Slots
      BY DEF FreeSlots, LifeInv, Placed, Slots
    <3>. QED  BY <1>10, <3>1, <3>2 DEF ForkCopies
  <2>2. u = k /\ buf'[u] = [buf[src] EXCEPT !.source = u]
    BY <1>1, <2>1 DEF TypeOK
  <2>3. buf[src] \in Message
    BY <1>1, Names DEF TypeOK
  <2>4. PICK m \in Message : m = buf[src]
    BY <2>3
  <2>5. [m EXCEPT !.source = u].source = u
    BY DEF Message
  <2>. QED  BY <1>1, <2>2, <2>4, <2>5
<1>11. ASSUME NEW src \in Users, Exit(src) \/ Kill(src)  PROVE FALSE
  <2>1. CASE Exit(src)
    <3>1. abort_ipc(src) /\ ServedFor(src, "EXIT")
      BY <2>1, HandlesIs DEF Exit, Dies
    <3>2. src \in Slots
      BY <3>1 DEF LifeInv, Placed, ServedFor, Served, Users
    <3>. QED  BY <1>1, <3>1, <3>2, DeathTellsNobody
  <2>2. CASE Kill(src)
    <3>1. buf' = buf \/ (buf[MM].body.pid \in Slots /\ abort_ipc(buf[MM].body.pid))
      BY <2>2 DEF Kill, Killable, Dies, vars
    <3>. QED  BY <1>1, <3>1, DeathTellsNobody
  <2>. QED  BY <1>11, <2>1, <2>2
<1>12. ASSUME NEW src \in Users, ForkFails(src) \/ Wait(src)  PROVE FALSE
  BY <1>12 DEF ForkFails, Wait, OnlyFlags, vars
<1>13. ASSUME ExitReaps \/ ExitAdopts \/ CleanupReleases \/ UNCHANGED allVars  PROVE FALSE
  BY <1>13 DEF ExitReaps, ExitAdopts, CleanupReleases, OnlyFlags, allVars, vars
<1>. QED  BY <1>2, <1>3, <1>4, <1>5, <1>6, <1>7, <1>8, <1>9, <1>10, <1>11, <1>12, <1>13
          DEF LifeNext, MMStep

\* wait() returns a dead child of the caller, whether the child was a zombie
\* already (do_wait) or exits while the caller waits (do_process_exit, cleanup),
\* with the status the child gave to exit(), or -1 if it was killed, which a
\* child that was killed as a zombie counts as.
THEOREM LifeWaitTellsTruth ==
    KillsApart => (LifeSpec => WaitTellsTruth)
<1>. SUFFICES ASSUME KillsApart  PROVE LifeSpec => WaitTellsTruth
  OBVIOUS
<1>1. LifeSpec => []LifeInv
  BY LifeInvariant
<1>2. LifeSpec => []EndsInv
  BY EndsInvariant
<1>3. LifeInv /\ EndsInv /\ [LifeNext]_allVars
         => [\A u \in Users, c \in Slots : TellsTruth(u, c)]_allVars
  BY StepTellsTruth
<1>. QED  BY <1>1, <1>2, <1>3, PTL DEF LifeSpec, WaitTellsTruth
=============================================================================
