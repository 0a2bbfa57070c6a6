--------------------------- MODULE TerminalProofs ----------------------------
(***************************************************************************)
(* Terminals for any number of programs, terminals and keys: a key that is *)
(* pressed is noticed, TTY writes only into the buffer of a program that   *)
(* waits for its characters, and a program with a terminal of its own is   *)
(* resumed by it, once, with its line.                                     *)
(***************************************************************************)
EXTENDS Terminal, IpcProofs

-----------------------------------------------------------------------------
(* The invariant                                                           *)

Calls   == {"OPEN", "READ", "WRITE"}

\* Everybody is somewhere in his own program.
Placed ==
    /\ at \in [Native -> Locs]
    /\ at[TTY] \in TTYLocs /\ at[FS] \in FSLocs
    /\ \A u \in Users : at[u] \in {"run", "sent"}

\* Whom p sends to, and waits for, on its way to loc.
ToSend(p, d, loc) ==
    \/ p = TTY /\ d = FS  /\ loc \in {"read", "write"}
    \/ p = FS  /\ d = TTY /\ loc = "device"
    \/ p = FS  /\ d \in Users /\ loc = "loop"
    \/ p \in Users /\ d = FS /\ loc = "sent"

ToReceive(p, src, loc) ==
    \/ p = TTY /\ src = ANY /\ loc = "handle"
    \/ p = FS  /\ src = ANY /\ loc = "handle"
    \/ p = FS  /\ src = TTY /\ loc = "reply"
    \/ p \in Users /\ src = FS /\ loc = "run"

\* Why a process is blocked.
BlockedFor ==
    \A p \in Procs :
        /\ Sending(p) => ToSend(p, p_sendto[p], at[p]) /\ buf[p].source = p
        /\ Receiving(p) => ToReceive(p, p_recvfrom[p], at[p])
        /\ has_int_msg[p] => p = TTY

\* What a program asks FS, and FS asks TTY for it.
Ask(u) == Body(asked[u].op, 0, NO_TASK, asked[u].cnt)

DevOf(op) == CASE op = "OPEN"  -> "DEV_OPEN"
               [] op = "READ"  -> "DEV_READ"
               [] op = "WRITE" -> "DEV_WRITE"

Resumes(b) == \E u \in Users, n \in 0..MaxCount : b = Body("RESUME_PROC", 0, u, n)

Request == Body(DevOf(fs.op), TermOf[fs.src], fs.src, fs.cnt)

\* FS has the call of u and has not answered it.
Served(u) == (at[u] = "sent" /\ ~Sending(u)) \/ (at[u] = "run" /\ Receiving(u))

\* FS has taken the message of p; it is answering u.
FSHas(p)     == at[FS] = "handle" /\ ~Receiving(FS) /\ buf[FS].source = p
Answering(u) == at[FS] = "loop" /\ Sending(FS) /\ p_sendto[FS] = u
FSAwaits     == \/ at[FS] = "device" /\ ~Sending(FS)
                \/ at[FS] = "reply" /\ Receiving(FS)

\* TTY has taken the request of FS; it is answering; it is resuming a reader.
TTYHas     == at[TTY] = "handle" /\ ~Receiving(TTY) /\ buf[TTY].source = FS
TTYAnswers == at[TTY] = "read" /\ Sending(TTY)
TTYResumes == at[TTY] = "write" /\ Sending(TTY)

\* Every message is what the place of its sender and its receiver says.
Requests ==
    /\ \A u \in Users :
          /\ Sending(u) => buf[u].body = Ask(u)
          /\ FSHas(u) => Served(u) /\ buf[FS].body = Ask(u)
          /\ Answering(u) => Served(u) /\ buf[FS].body.type = "SYSCALL_RET"
    /\ at[FS] = "handle" /\ ~Receiving(FS) => buf[FS].source \in Users \cup {TTY}
    /\ FSHas(TTY) => Resumes(buf[FS].body)
    /\ at[FS] = "device" => fs.op \in Calls
    /\ at[FS] \in {"device", "reply"} =>
          /\ fs.src \in Users /\ Served(fs.src)
          /\ fs.op \in Calls => fs = [src |-> fs.src, op |-> asked[fs.src].op,
                                      cnt |-> asked[fs.src].cnt]
    /\ Sending(FS) /\ at[FS] = "device" => buf[FS].body = Request
    /\ at[FS] = "reply" /\ Receiving(FS) => fs.op \in Calls

\* A request of FS is with TTY until it is answered.
Conversation ==
    /\ FSAwaits <=> TTYHas \/ TTYAnswers
    /\ at[TTY] = "handle" /\ ~Receiving(TTY) => TTYHas \/ buf[TTY] = IntMsg
    /\ TTYHas => buf[TTY].body = Request
    /\ TTYAnswers => buf[TTY].body.type = IF fs.op = "READ" THEN "SUSPEND_PROC"
                                                            ELSE "SYSCALL_RET"
    /\ at[FS] = "reply" /\ ~Receiving(FS) /\ fs.op \in Calls =>
          buf[FS].body.type = IF fs.op = "READ" THEN "SUSPEND_PROC" ELSE "SYSCALL_RET"
    /\ TTYResumes => Resumes(buf[TTY].body)

\* FS is told to resume u, by a message or already in its hands.
Told(u)     == \/ FSHas(TTY) /\ buf[FS].body.nr = u
               \/ at[FS] = "reply" /\ fs.op = "RESUME_PROC" /\ fs.src = u
Telling(u)  == TTYResumes /\ buf[TTY].body.nr = u

\* Terminal t has a reader whose line is not complete, or whom TTY is about
\* to have resumed.
Holds(t) == tty_table[t].tty_left_cnt > 0 \/ (at[TTY] = "resume" /\ tty = t)
ReaderOf(t) == tty_table[t].tty_procnr

\* Whoever is going to be resumed still waits for it, and once.
Readers ==
    /\ \A t \in Terminals : Holds(t) =>
          /\ Served(ReaderOf(t)) /\ TermOf[ReaderOf(t)] = t
          /\ ~FSHas(ReaderOf(t)) /\ ~Answering(ReaderOf(t))
          /\ ~Told(ReaderOf(t)) /\ ~Telling(ReaderOf(t))
    /\ \A u \in Users : Told(u) \/ Telling(u) =>
          /\ Served(u) /\ asked[u].op = "READ"
          /\ ~FSHas(u) /\ ~Answering(u) /\ ~(Told(u) /\ Telling(u))

\* The room left and the characters written make up what the reader asked for.
Filled ==
    \A t \in Terminals : Holds(t) =>
        LET r == tty_table[t]
        IN  /\ r.tty_procnr \in Users /\ r.tty_caller = FS
            /\ asked[r.tty_procnr].op = "READ"
            /\ r.tty_left_cnt + Len(r.line) = asked[r.tty_procnr].cnt

\* A key that the clock does not announce is one that TTY's round of the
\* terminals is going to read.
Underway ==
    \/ at[TTY] = "keys"
    \/ at[TTY] = "read" /\ tty <= current_console
    \/ at[TTY] \in {"write", "resume"} /\ tty < current_console

Noticed ==
    /\ kb_in # <<>> /\ ~key_pressed => Underway
    /\ at[TTY] \in {"receive", "handle"} => tty = 0
    /\ Receiving(TTY) => at[TTY] = "handle"

\* What holds also when the machine has stopped.
Always == /\ Consistent /\ NoMissedRendezvous /\ TermTypeOK /\ Placed /\ Filled /\ Noticed
          /\ panicked => ~Receiving(FS)

Talk == BlockedFor /\ Requests /\ Conversation

TermInv == Always /\ (~panicked => Talk /\ Readers)

-----------------------------------------------------------------------------
(* Programs that have their terminals for themselves                       *)

\* Every program reads its own terminal, as the shells of INIT do.
OwnTerminals == \A u, v \in Users : TermOf[u] = TermOf[v] => u = v

\* The request of u has not been seen by TTY.
Pending(u) == \/ FSHas(u)
              \/ at[FS] = "device" /\ Sending(FS) /\ fs.src = u
              \/ TTYHas /\ fs.src = u

\* u waits for its characters, and nothing but its terminal remembers it.
Suspends(u) == /\ Served(u) /\ asked[u].op = "READ"
               /\ ~Pending(u) /\ ~Told(u) /\ ~Telling(u) /\ ~Answering(u)

LineOf(u) == tty_table[TermOf[u]].line

\* cnt is what the reader u is to be told.
Tells(u, cnt) == cnt = Len(LineOf(u)) /\ cnt <= asked[u].cnt

\* The count that u is being told.
ToldCount == IF at[FS] = "reply" THEN fs.cnt ELSE buf[FS].body.cnt

\* The read of u is remembered, and then answered with what u has got.
Kept(u) ==
    /\ asked[u].op = "READ" => asked[u].cnt > 0
    /\ Suspends(u) => Swallowed(u) \/ (ReaderOf(TermOf[u]) = u /\ Holds(TermOf[u]))
    /\ Telling(u) => Tells(u, buf[TTY].body.cnt)
    /\ Told(u) => Tells(u, ToldCount)
    /\ asked[u].op = "READ" /\ Answering(u) => Tells(u, buf[FS].body.cnt)
    /\ asked[u].op = "READ" /\ at[u] = "run" /\ ~Receiving(u) =>
          buf[u].body.type = "SYSCALL_RET" /\ Tells(u, buf[u].body.cnt)

OwnInv == ~panicked => \A u \in Users : Kept(u)

-----------------------------------------------------------------------------
(* Who talks to whom                                                       *)

LEMMA Names ==
    /\ TTY \in Native /\ FS \in Native /\ TTY \in Procs /\ FS \in Procs
    /\ TTY # FS /\ TTY \in IntTasks
    /\ \A u \in Users : u \in Native /\ u \in Procs /\ u # TTY /\ u # FS /\ u # NO_TASK
    /\ ANY \notin Procs /\ INTERRUPT \notin Procs /\ ANY # INTERRUPT /\ NO_TASK \notin Procs
BY IpcAssumption, TerminalAssumption

LEMMA Counted ==
    /\ MaxCount \in Nat \ {0} /\ \A n \in Counts : n \in 0..MaxCount
    /\ NR_CONSOLES \in Nat \ {0} /\ 0 \in Terminals
BY TerminalAssumption DEF Terminals

\* The messages fit, and their members are what they were made of.
Sent == {"OPEN", "READ", "WRITE", "DEV_OPEN", "DEV_READ", "DEV_WRITE",
         "SUSPEND_PROC", "RESUME_PROC", "SYSCALL_RET"}

LEMMA Fits ==
    ASSUME NEW t \in Sent, NEW dev \in Terminals, NEW nr \in Users \cup {NO_TASK},
           NEW cnt \in 0..MaxCount
    PROVE  /\ Body(t, dev, nr, cnt) \in Bodies
           /\ Body(t, dev, nr, cnt).type = t /\ Body(t, dev, nr, cnt).dev = dev
           /\ Body(t, dev, nr, cnt).nr = nr /\ Body(t, dev, nr, cnt).cnt = cnt
BY MessagesAssumption DEF Sent, Body

LEMMA Stays ==
    ASSUME Consistent, NoMissedRendezvous, UNCHANGED vars
    PROVE  Consistent' /\ NoMissedRendezvous' /\ TypeOK'
<1>1. Consistent' /\ NoMissedRendezvous'
  BY NextConsistent, NextNoMissed
<1>. QED  BY <1>1 DEF Consistent

LEMMA HereRuns ==
    ASSUME NEW p, NEW loc, Here(p, loc)
    PROVE  at[p] = loc /\ ~panicked /\ ~Sending(p) /\ ~Receiving(p)
BY DEF Here, Runnable, Sending, Receiving

\* Where the process p can be.
LocsOf(p) == IF p = TTY THEN TTYLocs ELSE IF p = FS THEN FSLocs ELSE {"run", "sent"}

LEMMA Goes ==
    ASSUME Placed, NEW p \in {TTY, FS} \cup Users, NEW loc \in LocsOf(p), GoTo(p, loc)
    PROVE  /\ Placed' /\ at'[p] = loc
           /\ \A x \in Native : x # p => at'[x] = at[x]
<1>1. p \in Native /\ loc \in Locs
  BY Names DEF LocsOf, Locs
<1>2. /\ at' \in [Native -> Locs] /\ at'[p] = loc
      /\ \A x \in Native : x # p => at'[x] = at[x]
  BY <1>1 DEF GoTo, Placed
<1>. QED  BY <1>2, Names DEF Placed, LocsOf

\* A send that stops the machine is one to a process that is itself sending.
LEMMA PanicSends ==
    ASSUME Consistent, NEW p \in Procs, NEW d \in Procs, NEW b \in Bodies,
           msg_send(p, d, b), panicked'
    PROVE  ~Receiving(p)' /\ ~Receiving(d)'
<1>1. ~panicked /\ ~Receiving(p) /\ p # d
  BY SendEffect
<1>2. SendPanics(p, d)
  BY <1>1 DEF msg_send, SendDelivers, SendBlocks
<1>3. Sending(d)
  <2>1. SUFFICES ASSUME ~Sending(d) PROVE FALSE
    OBVIOUS
  <2>2. {d} \in SUBSET Procs /\ d \in {d} /\ \A x \in {d} : Sending(x) => p_sendto[x] \in {d}
    BY <2>1
  <2>3. p \in {d}
    BY <1>2, <2>2 DEF SendPanics, deadlock
  <2>. QED  BY <1>1, <2>3
<1>4. ~Receiving(d)
  BY <1>3 DEF Consistent, CallFields, Sending, Receiving
<1>. QED  BY <1>1, <1>2, <1>4 DEF SendPanics, Receiving

\* What a call of msg_send does, whoever makes it.
LEMMA SendStep ==
    ASSUME Consistent, NoMissedRendezvous, BlockedFor, Placed,
           NEW p \in {TTY, FS} \cup Users, NEW d \in Procs, NEW b \in Bodies,
           NEW loc, ToSend(p, d, loc), GoTo(p, loc), msg_send(p, d, b)
    PROVE  /\ Consistent' /\ NoMissedRendezvous' /\ Placed' /\ TypeOK'
           /\ at'[p] = loc /\ \A x \in Native : x # p => at'[x] = at[x]
           /\ ~panicked /\ ~Sending(p) /\ ~Receiving(p) /\ p # d
           /\ panicked' => ~Receiving(FS)' /\ UNCHANGED <<p_flags, p_recvfrom, p_sendto, buf>>
           /\ ~panicked' => BlockedFor' /\ (Delivered(p, d, b) \/ Queued(p, d, b))
<1>1. p \in Procs /\ p \in Native
  BY Names
<1>2. /\ Consistent' /\ ~panicked /\ UNCHANGED has_int_msg
      /\ ~Sending(p) /\ ~Receiving(p) /\ p # d
      /\ \/ Delivered(p, d, b) \/ Queued(p, d, b)
         \/ panicked' /\ UNCHANGED <<p_flags, p_recvfrom, p_sendto, buf>>
  BY <1>1, SendEffect
<1>3. NoMissedRendezvous'
  BY <1>1, NextNoMissed DEF Next
<1>4. loc \in LocsOf(p)
  BY Names DEF ToSend, LocsOf, TTYLocs, FSLocs
<1>5. Placed' /\ at'[p] = loc /\ \A x \in Native : x # p => at'[x] = at[x]
  BY <1>4, Goes
<1>6. panicked' => ~Receiving(FS)' /\ UNCHANGED <<p_flags, p_recvfrom, p_sendto, buf>>
  <2>1. panicked' => ~Receiving(p)' /\ ~Receiving(d)'
    BY <1>1, PanicSends
  <2>2. p = FS \/ d = FS
    BY DEF ToSend
  <2>. QED  BY <1>2, <2>1, <2>2 DEF Delivered, Queued
<1>7. ASSUME Delivered(p, d, b) \/ Queued(p, d, b), NEW x \in Procs
      PROVE  /\ Sending(x)' => ToSend(x, p_sendto'[x], at'[x]) /\ buf'[x].source = x
             /\ Receiving(x)' => ToReceive(x, p_recvfrom'[x], at'[x])
             /\ has_int_msg'[x] => x = TTY
  <2>1. /\ Sending(x) => ToSend(x, p_sendto[x], at[x]) /\ buf[x].source = x
        /\ Receiving(x) => ToReceive(x, p_recvfrom[x], at[x])
        /\ has_int_msg[x] => x = TTY
    BY DEF BlockedFor
  <2>2. x # p => \/ at'[x] = at[x]
                 \/ /\ \A d1, l : ~ToSend(x, d1, l)
                    /\ \A d1, l : ~ToReceive(x, d1, l)
    BY <1>5, Names DEF ToSend, ToReceive
  <2>3. CASE Delivered(p, d, b)
    <3>1. ~Sending(d)
      BY <2>3 DEF Delivered, Accepts, Consistent, CallFields, Sending, Receiving
    <3>2. /\ Sending(x)' <=> Sending(x)
          /\ Receiving(x)' <=> Receiving(x) /\ x # d
          /\ x # d => p_recvfrom'[x] = p_recvfrom[x]
          /\ buf'[x] = (IF x \in {p, d} THEN [source |-> p, body |-> b] ELSE buf[x])
          /\ p_sendto'[x] = p_sendto[x]
      BY <2>3 DEF Delivered
    <3>. QED  BY <1>2, <2>1, <2>2, <3>1, <3>2
  <2>4. CASE Queued(p, d, b)
    <3>1. /\ Sending(x)' <=> Sending(x) \/ x = p
          /\ Receiving(x)' <=> Receiving(x)
          /\ p_sendto'[x] = (IF x = p THEN d ELSE p_sendto[x])
          /\ buf'[x] = (IF x = p THEN [source |-> p, body |-> b] ELSE buf[x])
          /\ p_recvfrom'[x] = p_recvfrom[x]
      BY <2>4 DEF Queued
    <3>2. CASE x = p
      BY <1>2, <1>5, <2>1, <3>1, <3>2
    <3>3. CASE x # p
      BY <1>2, <2>1, <2>2, <3>1, <3>3
    <3>. QED  BY <3>2, <3>3
  <2>. QED  BY <1>7, <2>3, <2>4
<1>8. ~panicked' => BlockedFor' /\ (Delivered(p, d, b) \/ Queued(p, d, b))
  BY <1>2, <1>7 DEF BlockedFor
<1>. QED  BY <1>2, <1>3, <1>5, <1>6, <1>8 DEF Consistent

\* What a call of msg_receive does.
LEMMA ReceiveStep ==
    ASSUME Consistent, NoMissedRendezvous, BlockedFor, Placed,
           NEW p \in {TTY, FS} \cup Users, NEW src \in Sources,
           NEW loc, ToReceive(p, src, loc), GoTo(p, loc), msg_receive(p, src)
    PROVE  /\ Consistent' /\ NoMissedRendezvous' /\ Placed' /\ TypeOK'
           /\ at'[p] = loc /\ \A x \in Native : x # p => at'[x] = at[x]
           /\ ~panicked /\ ~panicked' /\ ~Sending(p) /\ ~Receiving(p)
           /\ BlockedFor'
           /\ \/ (p = TTY /\ TookInt(p, src)) \/ Waits(p, src)
              \/ \E from \in {TTY, FS} \cup Users :
                    from # p /\ Took(p, src, from) /\ ToSend(from, p, at[from])
                    /\ buf[from].source = from
<1>1. p \in Procs /\ p \in Native
  BY Names
<1>2. /\ Consistent' /\ ~panicked /\ ~panicked'
      /\ ~Sending(p) /\ ~Receiving(p) /\ p # src
      /\ \/ TookInt(p, src) \/ Waits(p, src)
         \/ \E from \in Procs : from # p /\ Took(p, src, from)
  BY <1>1, ReceiveEffect
<1>3. NoMissedRendezvous'
  BY <1>1, NextNoMissed DEF Next
<1>4. loc \in LocsOf(p)
  BY Names DEF ToReceive, LocsOf, TTYLocs, FSLocs
<1>5. Placed' /\ at'[p] = loc /\ \A x \in Native : x # p => at'[x] = at[x]
  BY <1>4, Goes
<1>6. ASSUME NEW from \in Procs, Took(p, src, from)
      PROVE  from \in {TTY, FS} \cup Users /\ ToSend(from, p, at[from]) /\ buf[from].source = from
  BY <1>6 DEF Took, BlockedFor, ToSend
<1>7. TookInt(p, src) => p = TTY
  BY <1>1 DEF TookInt, BlockedFor
<1>8. ASSUME NEW x \in Procs
      PROVE  /\ Sending(x)' => ToSend(x, p_sendto'[x], at'[x]) /\ buf'[x].source = x
             /\ Receiving(x)' => ToReceive(x, p_recvfrom'[x], at'[x])
             /\ has_int_msg'[x] => x = TTY
  <2>1. /\ Sending(x) => ToSend(x, p_sendto[x], at[x]) /\ buf[x].source = x
        /\ Receiving(x) => ToReceive(x, p_recvfrom[x], at[x])
        /\ has_int_msg[x] => x = TTY
    BY DEF BlockedFor
  <2>2. x # p => \/ at'[x] = at[x]
                 \/ /\ \A d1, l : ~ToSend(x, d1, l)
                    /\ \A d1, l : ~ToReceive(x, d1, l)
    BY <1>5, Names DEF ToSend, ToReceive
  <2>3. CASE TookInt(p, src)
    <3>1. /\ (Sending(x)' <=> Sending(x)) /\ (Receiving(x)' <=> Receiving(x))
          /\ p_recvfrom'[x] = p_recvfrom[x] /\ p_sendto'[x] = p_sendto[x]
          /\ has_int_msg'[x] <=> has_int_msg[x] /\ x # p
          /\ buf'[x] = (IF x = p THEN IntMsg ELSE buf[x])
      BY <2>3 DEF TookInt, Sending, Receiving
    <3>. QED  BY <1>2, <2>1, <2>2, <3>1
  <2>4. CASE Waits(p, src)
    <3>1. /\ (Sending(x)' <=> Sending(x)) /\ (Receiving(x)' <=> Receiving(x) \/ x = p)
          /\ p_recvfrom'[x] = (IF x = p THEN src ELSE p_recvfrom[x])
          /\ p_sendto'[x] = p_sendto[x] /\ has_int_msg'[x] = has_int_msg[x]
          /\ buf'[x] = (IF x = p THEN [source |-> p, body |-> EMPTY] ELSE buf[x])
      BY <2>4 DEF Waits
    <3>. QED  BY <1>2, <1>5, <2>1, <2>2, <3>1
  <2>5. CASE \E from \in Procs : from # p /\ Took(p, src, from)
    <3>1. PICK from \in Procs : from # p /\ Took(p, src, from)
      BY <2>5
    <3>2. /\ (Sending(x)' <=> Sending(x) /\ x # from) /\ (Receiving(x)' <=> Receiving(x))
          /\ p_recvfrom'[x] = p_recvfrom[x] /\ (x # from => p_sendto'[x] = p_sendto[x])
          /\ has_int_msg'[x] = has_int_msg[x]
          /\ buf'[x] = (IF x = p THEN buf[from] ELSE buf[x])
      BY <3>1 DEF Took
    <3>. QED  BY <1>2, <2>1, <2>2, <3>2
  <2>. QED  BY <1>2, <2>3, <2>4, <2>5
<1>9. BlockedFor'
  BY <1>8 DEF BlockedFor
<1>. QED  BY <1>2, <1>3, <1>5, <1>6, <1>7, <1>9 DEF Consistent

\* A step to the next place without a call.
LEMMA QuietStep ==
    ASSUME Consistent, NoMissedRendezvous, BlockedFor, Placed,
           NEW p \in {TTY, FS} \cup Users, NEW loc \in LocsOf(p), GoTo(p, loc),
           UNCHANGED vars, ~Sending(p), ~Receiving(p)
    PROVE  /\ Consistent' /\ NoMissedRendezvous' /\ Placed' /\ TypeOK' /\ BlockedFor'
           /\ at'[p] = loc /\ \A x \in Native : x # p => at'[x] = at[x]
           /\ \A x : (Sending(x)' <=> Sending(x)) /\ (Receiving(x)' <=> Receiving(x))
           /\ UNCHANGED <<buf, p_sendto, p_recvfrom, has_int_msg, panicked>>
<1>1. Placed' /\ at'[p] = loc /\ \A x \in Native : x # p => at'[x] = at[x]
  BY Goes
<1>2. Consistent' /\ NoMissedRendezvous' /\ TypeOK'
  BY Stays
<1>3. /\ \A x : (Sending(x)' <=> Sending(x)) /\ (Receiving(x)' <=> Receiving(x))
      /\ UNCHANGED <<buf, p_sendto, p_recvfrom, has_int_msg, panicked>>
  BY DEF Sending, Receiving, vars
<1>4. ASSUME NEW x \in Procs
      PROVE  /\ Sending(x)' => ToSend(x, p_sendto'[x], at'[x]) /\ buf'[x].source = x
             /\ Receiving(x)' => ToReceive(x, p_recvfrom'[x], at'[x])
             /\ has_int_msg'[x] => x = TTY
  <2>1. CASE x = p
    BY <1>3, <2>1 DEF BlockedFor
  <2>2. CASE x # p
    BY <1>1, <1>3, <2>2, Names DEF BlockedFor, ToSend, ToReceive
  <2>. QED  BY <2>1, <2>2
<1>. QED  BY <1>1, <1>2, <1>3, <1>4 DEF BlockedFor

\* Steps of others leave TTY's round, and what it holds, alone.
LEMMA NoticedStays ==
    ASSUME Noticed, UNCHANGED <<kb_in, key_pressed, current_console, tty>>,
           at'[TTY] = at[TTY], Receiving(TTY)' => Receiving(TTY)
    PROVE  Noticed'
BY DEF Noticed, Underway

LEMMA FilledStays ==
    ASSUME Filled, UNCHANGED <<tty_table, tty>>, at'[TTY] = at[TTY],
           \A t \in Terminals : Holds(t) => asked'[ReaderOf(t)] = asked[ReaderOf(t)]
    PROVE  Filled' /\ \A t \in Terminals : Holds(t)' = Holds(t) /\ ReaderOf(t)' = ReaderOf(t)
<1>1. \A t \in Terminals : Holds(t)' = Holds(t) /\ ReaderOf(t)' = ReaderOf(t)
  BY DEF Holds, ReaderOf
<1>2. ASSUME NEW t \in Terminals, Holds(t)
      PROVE  asked'[tty_table[t].tty_procnr] = asked[tty_table[t].tty_procnr]
  BY <1>2 DEF ReaderOf
<1>. QED  BY <1>1, <1>2 DEF Filled

\* What is known while the machine runs.
LEMMA Known ==
    ASSUME TermInv, ~panicked
    PROVE  /\ Consistent /\ NoMissedRendezvous /\ TermTypeOK /\ Placed /\ Filled /\ Noticed
           /\ BlockedFor /\ Requests /\ Conversation /\ Readers /\ TypeOK
BY DEF TermInv, Always, Talk, TermTypeOK

\* The messages in the buffers of programs, FS and TTY.
LEMMA AskFits ==
    ASSUME TermTypeOK, NEW u \in Users
    PROVE  /\ Ask(u) \in Bodies /\ Ask(u).type = asked[u].op /\ Ask(u).cnt = asked[u].cnt
           /\ asked[u].op \in Calls /\ asked[u].cnt \in 0..MaxCount
<1>1. asked[u].op \in Calls /\ asked[u].cnt \in 0..MaxCount
  BY DEF TermTypeOK, Calls
<1>. QED  BY <1>1, Fits, Counted DEF Ask, Calls, Sent

LEMMA RequestFits ==
    ASSUME TermTypeOK, fs.src \in Users, fs.op \in Calls
    PROVE  /\ Request \in Bodies /\ Request.type = DevOf(fs.op) /\ Request.nr = fs.src
           /\ Request.dev = TermOf[fs.src] /\ Request.cnt = fs.cnt
           /\ TermOf[fs.src] \in Terminals /\ fs.cnt \in 0..MaxCount
           /\ Request.type = "DEV_READ" <=> fs.op = "READ"
           /\ Request.type = "DEV_OPEN" <=> fs.op = "OPEN"
           /\ Request.type = "DEV_WRITE" <=> fs.op = "WRITE"
           /\ Request.type # "HARD_INT"
<1>1. fs.cnt \in 0..MaxCount /\ TermOf[fs.src] \in Terminals
  BY TerminalAssumption DEF TermTypeOK
<1>2. DevOf(fs.op) \in Sent
  BY DEF DevOf, Calls, Sent
<1>. QED  BY <1>1, <1>2, Fits DEF Request, DevOf, Calls

-----------------------------------------------------------------------------
(* The programs                                                            *)

LEMMA CallKeeps ==
    ASSUME TermInv, NEW u \in Users, NEW op \in Calls, NEW cnt \in 0..MaxCount,
           Call(u, op, cnt)
    PROVE  TermInv'
<1>. DEFINE b == Body(op, 0, NO_TASK, cnt)
<1>1. /\ at[u] = "run" /\ ~panicked /\ ~Sending(u) /\ ~Receiving(u)
      /\ msg_send(u, FS, b) /\ asked' = [asked EXCEPT ![u] = [op |-> op, cnt |-> cnt]]
      /\ GoTo(u, "sent") /\ UNCHANGED <<fs, tty, tty_table, deskVars>>
  BY HereRuns DEF Call
<1>2. /\ Consistent /\ NoMissedRendezvous /\ TermTypeOK /\ Placed /\ Filled /\ Noticed
      /\ BlockedFor /\ Requests /\ Conversation /\ Readers
  BY <1>1, Known
<1>3. b \in Bodies /\ u \in Procs /\ FS \in Procs /\ u \in Native /\ u # FS /\ u # TTY
  BY Fits, Counted, Names DEF Calls, Sent
<1>4. /\ Consistent' /\ NoMissedRendezvous' /\ Placed' /\ TypeOK'
      /\ at'[u] = "sent" /\ \A x \in Native : x # u => at'[x] = at[x]
      /\ panicked' => ~Receiving(FS)' /\ UNCHANGED <<p_flags, p_recvfrom, p_sendto, buf>>
      /\ ~panicked' => BlockedFor' /\ (Delivered(u, FS, b) \/ Queued(u, FS, b))
  BY <1>1, <1>2, <1>3, SendStep DEF ToSend
<1>5. /\ at'[TTY] = at[TTY] /\ at'[FS] = at[FS]
      /\ \A v \in Users : v # u => at'[v] = at[v] /\ asked'[v] = asked[v]
      /\ asked'[u] = [op |-> op, cnt |-> cnt] /\ Ask(u)' = b
  BY <1>1, <1>2, <1>3, <1>4, Names DEF TermTypeOK, Ask
<1>6. ~Served(u)
  BY <1>1 DEF Served
<1>7. TermTypeOK'
  <2>1. asked' \in [Users -> [op : {"OPEN", "READ", "WRITE"}, cnt : 0..MaxCount]]
    BY <1>1, <1>2 DEF TermTypeOK, Calls
  <2>. QED  BY <1>1, <1>2, <1>4, <2>1 DEF TermTypeOK, Placed, deskVars
<1>8. /\ Filled' /\ \A t \in Terminals : Holds(t)' = Holds(t) /\ ReaderOf(t)' = ReaderOf(t)
  <2>1. \A t \in Terminals : Holds(t) => Served(ReaderOf(t)) /\ ReaderOf(t) \in Users
    BY <1>2 DEF Readers, Filled, ReaderOf
  <2>. QED  BY <1>1, <1>2, <1>5, <1>6, <2>1, FilledStays
<1>9. Receiving(TTY)' => Receiving(TTY)
  BY <1>4, Names DEF Delivered, Queued, Receiving
<1>10. Always'
  BY <1>1, <1>2, <1>4, <1>5, <1>7, <1>8, <1>9, NoticedStays DEF Always, deskVars
<1>11. ASSUME ~panicked'
       PROVE  Requests' /\ Conversation' /\ Readers'
  <2>1. /\ \A x \in {TTY, FS} \cup Users : x # u => (Sending(x)' <=> Sending(x))
        /\ \A x \in {TTY} \cup Users : Receiving(x)' <=> Receiving(x)
        /\ p_sendto'[FS] = p_sendto[FS] /\ buf'[TTY] = buf[TTY]
        /\ \A x \in Users : x # u => buf'[x] = buf[x]
        /\ buf'[u] = [source |-> u, body |-> b]
    BY <1>3, <1>4, <1>11, Names DEF Delivered, Queued
  <2>2. /\ \A v \in Users : v # u => (Served(v)' <=> Served(v)) /\ (Ask(v)' = Ask(v))
        /\ fs.src # u => Request' = Request
    BY <1>1, <1>5, <2>1 DEF Served, Ask, Request
  <2>3. CASE Delivered(u, FS, b)
    <3>1. /\ at[FS] = "handle" /\ Receiving(FS) /\ ~Receiving(FS)' /\ ~Sending(u)'
          /\ buf'[FS] = [source |-> u, body |-> b] /\ (Sending(FS)' <=> Sending(FS))
      <4>1. Accepts(FS, u) /\ Receiving(FS) /\ ToReceive(FS, p_recvfrom[FS], at[FS])
        BY <1>2, <2>3, Names DEF Delivered, Accepts, BlockedFor
      <4>2. at[FS] = "handle"
        BY <1>3, <4>1, Names DEF Accepts, ToReceive
      <4>. QED  BY <1>1, <1>3, <2>3, <4>1, <4>2, Names DEF Delivered
    <3>2. Served(u)'
      BY <1>4, <3>1 DEF Served
    <3>3. \A x : FSHas(x)' <=> x = u
      BY <1>5, <3>1 DEF FSHas
    <3>4. \A v \in Users : ~Answering(v)' /\ ~Told(v)' /\ (Telling(v)' <=> Telling(v)) /\ ~FSHas(v)
      BY <1>3, <1>5, <2>1, <3>1, <3>3, Names DEF Answering, Told, Telling, TTYResumes, FSHas
    <3>5. Requests'
      BY <1>3, <1>5, <2>1, <2>2, <3>1, <3>2, <3>3, <3>4, <1>2 DEF Requests
    <3>6. /\ (TTYHas' <=> TTYHas) /\ (TTYAnswers' <=> TTYAnswers) /\ (TTYResumes' <=> TTYResumes)
          /\ ~FSAwaits' /\ ~FSAwaits
      BY <1>3, <1>5, <2>1, <3>1, Names DEF TTYHas, TTYAnswers, TTYResumes, FSAwaits
    <3>7. Conversation'
      BY <1>1, <1>2, <1>3, <1>5, <2>1, <3>1, <3>6 DEF Conversation
    <3>8. Readers'
      <4>1. ASSUME NEW t \in Terminals, Holds(t)
            PROVE  ReaderOf(t) \in Users /\ ReaderOf(t) # u
        BY <1>2, <1>6, <4>1 DEF Readers, Filled, ReaderOf
      <4>2. ASSUME NEW v \in Users, Telling(v)
            PROVE  v # u
        BY <1>2, <1>6, <4>2 DEF Readers
      <4>. QED  BY <1>2, <1>5, <1>8, <2>2, <3>3, <3>4, <4>1, <4>2 DEF Readers
    <3>. QED  BY <3>5, <3>7, <3>8
  <2>4. CASE Queued(u, FS, b)
    <3>1. /\ Sending(u)' /\ (Receiving(FS)' <=> Receiving(FS)) /\ buf'[FS] = buf[FS]
          /\ (Sending(FS)' <=> Sending(FS))
      BY <1>3, <2>4, Names DEF Queued
    <3>2. ~Served(u)'
      BY <1>4, <3>1 DEF Served
    <3>3. \A v \in Users : v # u \/ (~FSHas(u) /\ ~Answering(u))
      BY <1>2, <1>6 DEF Requests
    <3>4. /\ \A x : FSHas(x)' <=> FSHas(x)
          /\ \A v \in Users : /\ (Answering(v)' <=> Answering(v)) /\ (Told(v)' <=> Told(v))
                              /\ (Telling(v)' <=> Telling(v))
      BY <1>1, <1>3, <1>5, <2>1, <3>1, Names DEF Answering, Told, Telling, TTYResumes, FSHas
    <3>5. Requests'
      BY <1>1, <1>2, <1>3, <1>5, <1>6, <2>1, <2>2, <3>1, <3>2, <3>3, <3>4 DEF Requests
    <3>6. /\ (TTYHas' <=> TTYHas) /\ (TTYAnswers' <=> TTYAnswers) /\ (TTYResumes' <=> TTYResumes)
          /\ (FSAwaits' <=> FSAwaits)
      BY <1>3, <1>5, <2>1, <3>1, Names DEF TTYHas, TTYAnswers, TTYResumes, FSAwaits
    <3>7. Conversation'
      <4>1. at[FS] \in {"device", "reply"} => fs.src # u
        BY <1>2, <1>6 DEF Requests
      <4>2. TTYHas => fs.src # u
        BY <1>2, <4>1 DEF Conversation, FSAwaits
      <4>. QED  BY <1>1, <1>2, <1>5, <2>1, <2>2, <3>1, <3>6, <4>2 DEF Conversation
    <3>8. Readers'
      <4>1. ASSUME NEW t \in Terminals, Holds(t)
            PROVE  ReaderOf(t) \in Users /\ ReaderOf(t) # u
        BY <1>2, <1>6, <4>1 DEF Readers, Filled, ReaderOf
      <4>2. ASSUME NEW v \in Users, Telling(v) \/ Told(v)
            PROVE  v # u
        BY <1>2, <1>6, <4>2 DEF Readers
      <4>. QED  BY <1>2, <1>5, <1>8, <2>2, <3>4, <4>1, <4>2 DEF Readers
    <3>. QED  BY <3>5, <3>7, <3>8
  <2>. QED  BY <1>4, <1>11, <2>3, <2>4
<1>. QED  BY <1>4, <1>10, <1>11 DEF TermInv, Talk

LEMMA AwaitKeeps ==
    ASSUME TermInv, NEW u \in Users, Await(u)
    PROVE  TermInv'
<1>1. /\ at[u] = "sent" /\ ~panicked /\ ~Sending(u) /\ ~Receiving(u)
      /\ msg_receive(u, FS) /\ GoTo(u, "run")
      /\ UNCHANGED <<asked, fs, tty, tty_table, deskVars>>
  BY HereRuns DEF Await
<1>2. /\ Consistent /\ NoMissedRendezvous /\ TermTypeOK /\ Placed /\ Filled /\ Noticed
      /\ BlockedFor /\ Requests /\ Conversation /\ Readers
  BY <1>1, Known
<1>3. u \in Procs /\ FS \in Procs /\ u \in Native /\ u # FS /\ u # TTY /\ FS \in Sources /\ FS # ANY
  BY Names DEF Sources
<1>4. /\ Consistent' /\ NoMissedRendezvous' /\ Placed' /\ TypeOK'
      /\ at'[u] = "run" /\ \A x \in Native : x # u => at'[x] = at[x]
      /\ ~panicked' /\ BlockedFor'
      /\ \/ Waits(u, FS)
         \/ \E from \in {TTY, FS} \cup Users :
               from # u /\ Took(u, FS, from) /\ ToSend(from, u, at[from])
               /\ buf[from].source = from
  BY <1>1, <1>2, <1>3, ReceiveStep DEF ToReceive
<1>5. /\ at'[TTY] = at[TTY] /\ at'[FS] = at[FS]
      /\ \A v \in Users : v # u => at'[v] = at[v]
      /\ Request' = Request /\ \A v \in Users : Ask(v)' = Ask(v)
  BY <1>1, <1>3, <1>4, Names DEF Ask, Request
<1>6. Filled' /\ \A t \in Terminals : Holds(t)' = Holds(t) /\ ReaderOf(t)' = ReaderOf(t)
  BY <1>1, <1>2, <1>5, FilledStays
<1>7. Waits(u, FS) \/ (Took(u, FS, FS) /\ at[FS] = "loop")
  BY <1>3, <1>4, Names DEF Took, ToSend
<1>8. /\ \A x \in {TTY} \cup Users : Sending(x)' <=> Sending(x)
      /\ \A x \in {TTY, FS} \cup Users : x # u => (Receiving(x)' <=> Receiving(x))
      /\ \A x \in {TTY, FS} \cup Users : x # u => buf'[x] = buf[x]
  BY <1>3, <1>7, Names DEF Waits, Took
<1>9. Always'
  <2>1. TermTypeOK'
    BY <1>1, <1>2, <1>4 DEF TermTypeOK, Placed, deskVars
  <2>. QED  BY <1>1, <1>2, <1>3, <1>4, <1>5, <1>6, <1>8, <2>1, NoticedStays DEF Always, deskVars
<1>10. /\ \A v \in Users : v # u => (Served(v)' <=> Served(v))
       /\ Served(u)
  BY <1>1, <1>5, <1>8 DEF Served
<1>11. /\ (TTYHas' <=> TTYHas) /\ (TTYAnswers' <=> TTYAnswers) /\ (TTYResumes' <=> TTYResumes)
       /\ \A x : FSHas(x)' <=> FSHas(x)
       /\ \A v \in Users : (Told(v)' <=> Told(v)) /\ (Telling(v)' <=> Telling(v))
  BY <1>1, <1>3, <1>5, <1>8 DEF TTYHas, TTYAnswers, TTYResumes, FSHas, Told, Telling
<1>12. CASE Waits(u, FS)
  <2>1. /\ (Sending(FS)' <=> Sending(FS)) /\ Receiving(u)' /\ p_sendto' = p_sendto
    BY <1>3, <1>12 DEF Waits
  <2>2. Served(u)' /\ (FSAwaits' <=> FSAwaits)
        /\ \A v \in Users : Answering(v)' <=> Answering(v)
    BY <1>3, <1>4, <1>5, <1>8, <2>1 DEF Served, FSAwaits, Answering
  <2>3. \A v \in Users : Served(v)' <=> Served(v)
    BY <1>10, <2>2
  <2>4. Requests'
    BY <1>1, <1>2, <1>3, <1>5, <1>8, <1>11, <2>1, <2>2, <2>3 DEF Requests
  <2>5. Conversation'
    BY <1>1, <1>2, <1>3, <1>5, <1>8, <1>11, <2>2 DEF Conversation
  <2>6. Readers'
    <3>1. \A t \in Terminals : Holds(t) => ReaderOf(t) \in Users
      BY <1>2 DEF Filled, ReaderOf
    <3>. QED  BY <1>1, <1>2, <1>6, <1>11, <2>2, <2>3, <3>1 DEF Readers
  <2>. QED  BY <1>4, <1>9, <2>4, <2>5, <2>6 DEF TermInv, Talk
<1>13. CASE Took(u, FS, FS) /\ at[FS] = "loop"
  <2>1. ~Sending(FS)' /\ Sending(FS) /\ p_sendto[FS] = u /\ ~Receiving(u)'
    BY <1>1, <1>3, <1>13 DEF Took
  <2>2. Answering(u) /\ \A v \in Users : ~Answering(v)'
    BY <1>13, <2>1 DEF Answering
  <2>3. \A x : ~FSHas(x)
    BY <1>13 DEF FSHas
  <2>4. Requests'
    BY <1>1, <1>2, <1>3, <1>5, <1>8, <1>11, <1>13, <2>1, <2>2, <2>3 DEF Requests
  <2>5. ~FSAwaits /\ ~FSAwaits'
    BY <1>5, <1>13 DEF FSAwaits
  <2>6. Conversation'
    BY <1>1, <1>2, <1>3, <1>5, <1>8, <1>11, <1>13, <2>5 DEF Conversation
  <2>7. Readers'
    <3>1. ASSUME NEW t \in Terminals, Holds(t)
          PROVE  ReaderOf(t) \in Users /\ ReaderOf(t) # u
      BY <1>2, <2>2, <3>1 DEF Filled, ReaderOf, Readers
    <3>2. ASSUME NEW v \in Users, Told(v) \/ Telling(v)
          PROVE  v # u
      BY <1>2, <2>2, <3>2 DEF Readers
    <3>. QED  BY <1>1, <1>2, <1>6, <1>10, <1>11, <2>2, <3>1, <3>2 DEF Readers
  <2>. QED  BY <1>4, <1>9, <2>4, <2>6, <2>7 DEF TermInv, Talk
<1>. QED  BY <1>7, <1>12, <1>13

-----------------------------------------------------------------------------
(* FS                                                                      *)

LEMMA FSTakeKeeps ==
    ASSUME TermInv, FSTake
    PROVE  TermInv'
<1>1. /\ at[FS] = "loop" /\ ~panicked /\ ~Sending(FS) /\ ~Receiving(FS)
      /\ msg_receive(FS, ANY) /\ GoTo(FS, "handle")
      /\ UNCHANGED <<asked, fs, tty, tty_table, deskVars>>
  BY HereRuns DEF FSTake
<1>2. /\ Consistent /\ NoMissedRendezvous /\ TermTypeOK /\ Placed /\ Filled /\ Noticed
      /\ BlockedFor /\ Requests /\ Conversation /\ Readers
  BY <1>1, Known
<1>3. /\ Consistent' /\ NoMissedRendezvous' /\ Placed' /\ TypeOK'
      /\ at'[FS] = "handle" /\ \A x \in Native : x # FS => at'[x] = at[x]
      /\ ~panicked' /\ BlockedFor'
      /\ \/ Waits(FS, ANY)
         \/ \E from \in {TTY, FS} \cup Users :
               from # FS /\ Took(FS, ANY, from) /\ ToSend(from, FS, at[from])
               /\ buf[from].source = from
  <2>1. ANY \in Sources
    BY DEF Sources
  <2>. QED  BY <1>1, <1>2, <2>1, Names, ReceiveStep DEF ToReceive
<1>4. /\ at'[TTY] = at[TTY] /\ \A v \in Users : at'[v] = at[v]
      /\ Request' = Request /\ \A v \in Users : Ask(v)' = Ask(v)
  BY <1>1, <1>3, Names DEF Ask, Request
<1>5. Filled' /\ \A t \in Terminals : Holds(t)' = Holds(t) /\ ReaderOf(t)' = ReaderOf(t)
  BY <1>1, <1>2, <1>4, FilledStays
<1>6. /\ \A x \in {TTY} \cup Users : Receiving(x)' <=> Receiving(x)
      /\ \A x \in {TTY} \cup Users : buf'[x] = buf[x]
      /\ ~Sending(FS)'
  BY <1>1, <1>3, Names DEF Waits, Took
<1>7. Always'
  <2>1. TermTypeOK'
    BY <1>1, <1>2, <1>3 DEF TermTypeOK, Placed, deskVars
  <2>. QED  BY <1>1, <1>2, <1>3, <1>4, <1>5, <1>6, <2>1, NoticedStays DEF Always, deskVars
<1>8. /\ ~FSAwaits /\ ~FSAwaits' /\ (TTYHas' <=> TTYHas)
      /\ \A v \in Users : ~Answering(v) /\ ~Answering(v)' /\ ~FSHas(v) /\ ~Told(v)
  BY <1>1, <1>3, <1>4, <1>6 DEF FSAwaits, TTYHas, Answering, FSHas, Told
<1>9. \A t \in Terminals : Holds(t) => ReaderOf(t) \in Users
  BY <1>2 DEF Filled, ReaderOf
<1>10. CASE Waits(FS, ANY)
  <2>1. /\ \A x \in {TTY} \cup Users : Sending(x)' <=> Sending(x)
        /\ Receiving(FS)'
    BY <1>10, Names DEF Waits
  <2>2. /\ \A v \in Users : (Served(v)' <=> Served(v)) /\ (Telling(v)' <=> Telling(v)) /\ ~Told(v)'
        /\ (TTYAnswers' <=> TTYAnswers) /\ (TTYResumes' <=> TTYResumes)
        /\ \A x : ~FSHas(x)'
    BY <1>3, <1>4, <1>6, <2>1 DEF Served, Telling, Told, FSHas, TTYAnswers, TTYResumes
  <2>3. Requests'
    BY <1>2, <1>3, <1>4, <1>6, <1>8, <2>1, <2>2 DEF Requests
  <2>4. Conversation'
    BY <1>1, <1>2, <1>3, <1>4, <1>6, <1>8, <2>2 DEF Conversation
  <2>5. Readers'
    BY <1>1, <1>2, <1>5, <1>8, <1>9, <2>2 DEF Readers
  <2>. QED  BY <1>3, <1>7, <2>3, <2>4, <2>5 DEF TermInv, Talk
<1>11. ASSUME NEW u \in Users, Took(FS, ANY, u), ToSend(u, FS, at[u]), buf[u].source = u
       PROVE  TermInv'
  <2>1. /\ \A x \in {TTY} \cup Users : x # u => (Sending(x)' <=> Sending(x))
        /\ Sending(u) /\ ~Sending(u)' /\ ~Receiving(FS)' /\ buf'[FS] = buf[u]
        /\ at[u] = "sent" /\ u # TTY
    BY <1>1, <1>11, Names DEF Took, ToSend
  <2>2. /\ \A v \in Users : v # u => (Served(v)' <=> Served(v))
        /\ Served(u)' /\ ~Served(u) /\ buf[u].body = Ask(u)
    BY <1>2, <1>4, <1>6, <2>1 DEF Served, Requests
  <2>3. /\ \A v \in Users : (Telling(v)' <=> Telling(v)) /\ ~Told(v)'
        /\ (TTYAnswers' <=> TTYAnswers) /\ (TTYResumes' <=> TTYResumes)
        /\ \A x : FSHas(x)' <=> x = u
    BY <1>3, <1>4, <1>6, <1>11, <2>1, Names DEF Telling, Told, FSHas, TTYAnswers, TTYResumes
  <2>4. Requests'
    BY <1>2, <1>3, <1>4, <1>6, <1>8, <1>11, <2>1, <2>2, <2>3, Names DEF Requests
  <2>5. Conversation'
    BY <1>1, <1>2, <1>3, <1>4, <1>6, <1>8, <2>3 DEF Conversation
  <2>6. Readers'
    <3>1. \A t \in Terminals : Holds(t) => ReaderOf(t) # u
      BY <1>2, <2>2 DEF Readers
    <3>2. \A v \in Users : Telling(v) => v # u
      BY <1>2, <2>2 DEF Readers
    <3>. QED  BY <1>1, <1>2, <1>5, <1>8, <1>9, <2>2, <2>3, <3>1, <3>2 DEF Readers
  <2>. QED  BY <1>3, <1>7, <2>4, <2>5, <2>6 DEF TermInv, Talk
<1>12. CASE Took(FS, ANY, TTY) /\ ToSend(TTY, FS, at[TTY]) /\ buf[TTY].source = TTY
  <2>1. /\ \A x \in Users : Sending(x)' <=> Sending(x)
        /\ Sending(TTY) /\ ~Sending(TTY)' /\ ~Receiving(FS)' /\ buf'[FS] = buf[TTY]
        /\ at[TTY] \in {"read", "write"}
    BY <1>1, <1>12, Names DEF Took, ToSend
  <2>2. TTYResumes /\ ~TTYResumes' /\ ~TTYAnswers /\ ~TTYAnswers' /\ ~TTYHas
    BY <1>2, <1>4, <1>8, <2>1 DEF TTYResumes, TTYAnswers, Conversation
  <2>3. Resumes(buf'[FS].body)
    BY <1>2, <2>1, <2>2 DEF Conversation
  <2>4. /\ \A v \in Users : (Served(v)' <=> Served(v)) /\ ~Telling(v)' /\ (Told(v)' <=> Telling(v))
        /\ \A x : FSHas(x)' <=> x = TTY
    BY <1>3, <1>4, <1>6, <1>12, <2>1, <2>2 DEF Served, Telling, Told, FSHas
  <2>5. \A v \in Users : ~FSHas(v)'
    BY <2>4, Names
  <2>6. Requests'
    BY <1>2, <1>3, <1>4, <1>6, <1>8, <1>12, <2>1, <2>3, <2>4, <2>5 DEF Requests, Resumes
  <2>7. Conversation'
    BY <1>1, <1>2, <1>3, <1>4, <1>6, <1>8, <2>1, <2>2 DEF Conversation
  <2>8. Readers'
    BY <1>1, <1>2, <1>5, <1>8, <1>9, <2>4, <2>5 DEF Readers
  <2>. QED  BY <1>3, <1>7, <2>6, <2>7, <2>8 DEF TermInv, Talk
<1>. QED  BY <1>3, <1>10, <1>11, <1>12

LEMMA FSAsksKeeps ==
    ASSUME TermInv, NEW op \in Calls, FSAsks(op, DevOf(op))
    PROVE  TermInv'
<1>0. PICK u : u = buf[FS].source
  OBVIOUS
<1>1. /\ at[FS] = "handle" /\ ~panicked /\ ~Sending(FS) /\ ~Receiving(FS)
      /\ buf[FS].body.type = op
      /\ msg_send(FS, TTY, Body(DevOf(op), TermOf[u], u, buf[FS].body.cnt))
      /\ fs' = [src |-> u, op |-> op, cnt |-> buf[FS].body.cnt]
      /\ GoTo(FS, "device") /\ UNCHANGED <<asked, tty, tty_table, deskVars>>
  BY <1>0, HereRuns DEF FSAsks, FSHandles
<1>2. /\ Consistent /\ NoMissedRendezvous /\ TermTypeOK /\ Placed /\ Filled /\ Noticed
      /\ BlockedFor /\ Requests /\ Conversation /\ Readers
  BY <1>1, Known
<1>3. FSHas(u)
  BY <1>0, <1>1 DEF FSHas
<1>4. u \in Users
  <2>1. u # TTY
    <3>1. SUFFICES ASSUME u = TTY PROVE FALSE
      OBVIOUS
    <3>2. Resumes(buf[FS].body)
      BY <1>2, <1>3, <3>1 DEF Requests
    <3>3. buf[FS].body.type = "RESUME_PROC"
      BY <3>2 DEF Resumes, Body
    <3>. QED  BY <1>1, <3>3 DEF Calls
  <2>. QED  BY <1>0, <1>1, <1>2, <2>1 DEF Requests
<1>5. /\ Served(u) /\ op = asked[u].op /\ buf[FS].body.cnt = asked[u].cnt
      /\ fs' = [src |-> u, op |-> asked[u].op, cnt |-> asked[u].cnt]
      /\ fs'.src = u /\ fs'.op = op /\ fs'.cnt \in 0..MaxCount
  <2>1. Served(u) /\ buf[FS].body = Ask(u)
    BY <1>2, <1>3, <1>4 DEF Requests
  <2>. QED  BY <1>1, <1>2, <1>4, <2>1, AskFits
<1>6. PICK b \in Bodies : b = Request' /\ msg_send(FS, TTY, b)
  <2>1. Request' = Body(DevOf(op), TermOf[u], u, asked[u].cnt)
    BY <1>5 DEF Request
  <2>2. TermOf[u] \in Terminals /\ DevOf(op) \in Sent /\ asked[u].cnt \in 0..MaxCount
    BY <1>4, <1>2, AskFits, TerminalAssumption DEF DevOf, Calls, Sent
  <2>. QED  BY <1>1, <1>4, <1>5, <2>1, <2>2, Fits
<1>7. /\ Consistent' /\ NoMissedRendezvous' /\ Placed' /\ TypeOK'
      /\ at'[FS] = "device" /\ \A x \in Native : x # FS => at'[x] = at[x]
      /\ panicked' => ~Receiving(FS)' /\ UNCHANGED <<p_flags, p_recvfrom, p_sendto, buf>>
      /\ ~panicked' => BlockedFor' /\ (Delivered(FS, TTY, b) \/ Queued(FS, TTY, b))
  BY <1>1, <1>2, <1>6, Names, SendStep DEF ToSend
<1>8. /\ at'[TTY] = at[TTY] /\ \A v \in Users : at'[v] = at[v]
      /\ \A v \in Users : Ask(v)' = Ask(v)
  BY <1>1, <1>7, Names DEF Ask
<1>9. Filled' /\ \A t \in Terminals : Holds(t)' = Holds(t) /\ ReaderOf(t)' = ReaderOf(t)
  BY <1>1, <1>2, <1>8, FilledStays
<1>10. Always'
  <2>1. TermTypeOK'
    <3>1. fs' \in [src : Users \cup {NO_TASK}, cnt : 0..MaxCount,
                  op : {"OPEN", "READ", "WRITE", "RESUME_PROC"}]
      BY <1>1, <1>4, <1>5 DEF Calls
    <3>. QED  BY <1>1, <1>2, <1>7, <3>1 DEF TermTypeOK, Placed, deskVars
  <2>2. Receiving(TTY)' => Receiving(TTY)
    BY <1>7, Names DEF Delivered, Queued, Receiving
  <2>. QED  BY <1>1, <1>2, <1>7, <1>8, <1>9, <2>1, <2>2, NoticedStays DEF Always, deskVars
<1>11. ASSUME ~panicked'
       PROVE  Requests' /\ Conversation' /\ Readers'
  <2>1. /\ \A x \in {TTY} \cup Users : Sending(x)' <=> Sending(x)
        /\ \A x \in {FS} \cup Users : Receiving(x)' <=> Receiving(x)
        /\ \A x \in Users : buf'[x] = buf[x]
        /\ buf'[FS] = [source |-> FS, body |-> b]
    BY <1>7, <1>11, Names DEF Delivered, Queued
  <2>2. /\ \A v \in Users : (Served(v)' <=> Served(v)) /\ ~Answering(v)' /\ ~Told(v)' /\ ~Told(v)
        /\ \A x : ~FSHas(x)'
    BY <1>0, <1>1, <1>4, <1>7, <1>8, <2>1, <1>3, Names DEF Served, Answering, Told, FSHas
  <2>3. Requests'
    <3>1. \A v \in Users : Sending(v)' => buf'[v].body = Ask(v)'
      BY <1>2, <1>8, <2>1 DEF Requests
    <3>2. Served(u)'
      BY <1>4, <1>5, <2>2
    <3>. QED  BY <1>1, <1>4, <1>5, <1>6, <1>7, <2>1, <2>2, <3>1, <3>2 DEF Requests
  <2>4. ~FSAwaits /\ ~TTYHas /\ ~TTYAnswers
    BY <1>1, <1>2 DEF FSAwaits, Conversation
  <2>5. CASE Delivered(FS, TTY, b)
    <3>1. /\ Receiving(TTY) /\ ~Receiving(TTY)' /\ ~Sending(FS)'
          /\ buf'[TTY] = [source |-> FS, body |-> b] /\ at[TTY] = "handle"
      <4>1. Receiving(TTY) /\ ToReceive(TTY, p_recvfrom[TTY], at[TTY])
        BY <1>2, <2>5, Names DEF Delivered, Accepts, BlockedFor
      <4>. QED  BY <1>1, <2>5, <4>1, Names DEF Delivered, ToReceive
    <3>2. TTYHas' /\ FSAwaits' /\ ~TTYAnswers' /\ ~TTYResumes' /\ ~TTYResumes
      BY <1>7, <1>8, <3>1 DEF TTYHas, FSAwaits, TTYAnswers, TTYResumes
    <3>3. Conversation'
      BY <1>6, <1>7, <3>1, <3>2 DEF Conversation
    <3>4. Readers'
      BY <1>1, <1>2, <1>9, <2>2, <3>2 DEF Readers, Telling, Filled, ReaderOf
    <3>. QED  BY <2>3, <3>3, <3>4
  <2>6. CASE Queued(FS, TTY, b)
    <3>1. Sending(FS)' /\ (Receiving(TTY)' <=> Receiving(TTY)) /\ buf'[TTY] = buf[TTY]
      BY <2>6, Names DEF Queued
    <3>2. ~TTYHas' /\ ~FSAwaits' /\ ~TTYAnswers' /\ (TTYResumes' <=> TTYResumes)
          /\ \A v \in Users : Telling(v)' <=> Telling(v)
      BY <1>7, <1>8, <2>1, <2>4, <3>1 DEF TTYHas, FSAwaits, TTYAnswers, TTYResumes, Telling
    <3>3. Conversation'
      BY <1>2, <1>7, <1>8, <2>4, <3>1, <3>2 DEF Conversation
    <3>4. Readers'
      BY <1>1, <1>2, <1>9, <2>2, <3>2 DEF Readers, Filled, ReaderOf
    <3>. QED  BY <2>3, <3>3, <3>4
  <2>. QED  BY <1>7, <1>11, <2>5, <2>6
<1>. QED  BY <1>7, <1>10, <1>11 DEF TermInv, Talk

LEMMA FSHearsKeeps ==
    ASSUME TermInv, FSHears
    PROVE  TermInv'
<1>1. /\ at[FS] = "device" /\ ~panicked /\ ~Sending(FS) /\ ~Receiving(FS)
      /\ msg_receive(FS, TTY) /\ GoTo(FS, "reply")
      /\ UNCHANGED <<asked, fs, tty, tty_table, deskVars>>
  BY HereRuns DEF FSHears
<1>2. /\ Consistent /\ NoMissedRendezvous /\ TermTypeOK /\ Placed /\ Filled /\ Noticed
      /\ BlockedFor /\ Requests /\ Conversation /\ Readers
  BY <1>1, Known
<1>3. /\ Consistent' /\ NoMissedRendezvous' /\ Placed' /\ TypeOK'
      /\ at'[FS] = "reply" /\ \A x \in Native : x # FS => at'[x] = at[x]
      /\ ~panicked' /\ BlockedFor'
      /\ \/ Waits(FS, TTY)
         \/ Took(FS, TTY, TTY) /\ ToSend(TTY, FS, at[TTY])
  <2>1. TTY \in Sources /\ TTY # ANY
    BY Names DEF Sources
  <2>2. /\ Consistent' /\ NoMissedRendezvous' /\ Placed' /\ TypeOK'
        /\ at'[FS] = "reply" /\ \A x \in Native : x # FS => at'[x] = at[x]
        /\ ~panicked' /\ BlockedFor'
        /\ \/ Waits(FS, TTY)
           \/ \E from \in {TTY, FS} \cup Users :
                 from # FS /\ Took(FS, TTY, from) /\ ToSend(from, FS, at[from])
                 /\ buf[from].source = from
    BY <1>1, <1>2, <2>1, Names, ReceiveStep DEF ToReceive
  <2>. QED  BY <2>1, <2>2 DEF Took
<1>4. /\ at'[TTY] = at[TTY] /\ \A v \in Users : at'[v] = at[v]
      /\ Request' = Request /\ \A v \in Users : Ask(v)' = Ask(v)
  BY <1>1, <1>3, Names DEF Ask, Request
<1>5. Filled' /\ \A t \in Terminals : Holds(t)' = Holds(t) /\ ReaderOf(t)' = ReaderOf(t)
  BY <1>1, <1>2, <1>4, FilledStays
<1>6. /\ \A x \in {TTY} \cup Users : (Receiving(x)' <=> Receiving(x)) /\ buf'[x] = buf[x]
      /\ \A x \in Users : Sending(x)' <=> Sending(x)
      /\ ~Sending(FS)'
  BY <1>1, <1>3, Names DEF Waits, Took
<1>7. Always'
  <2>1. TermTypeOK'
    BY <1>1, <1>2, <1>3 DEF TermTypeOK, Placed, deskVars
  <2>. QED  BY <1>1, <1>2, <1>3, <1>4, <1>5, <1>6, <2>1, Names, NoticedStays DEF Always, deskVars
<1>8. FSAwaits /\ fs.op \in Calls /\ fs.src \in Users /\ Served(fs.src)
  BY <1>1, <1>2 DEF FSAwaits, Requests
<1>9. /\ \A v \in Users : ~Told(v) /\ ~Told(v)' /\ (Served(v)' <=> Served(v))
                          /\ ~Answering(v)' /\ ~Answering(v)
      /\ \A x : ~FSHas(x) /\ ~FSHas(x)'
  BY <1>1, <1>3, <1>4, <1>6, <1>8 DEF Told, Answering, FSHas, Served, Calls
<1>10. Requests'
  BY <1>1, <1>2, <1>3, <1>4, <1>6, <1>8, <1>9 DEF Requests
<1>11. TTYHas \/ TTYAnswers
  BY <1>2, <1>8 DEF Conversation
<1>12. ~TTYResumes /\ ~TTYResumes' /\ (TTYHas' <=> TTYHas)
  BY <1>4, <1>6, <1>11 DEF TTYResumes, TTYHas, TTYAnswers
<1>13. Conversation'
  <2>1. CASE Waits(FS, TTY)
    <3>1. Receiving(FS)' /\ (Sending(TTY)' <=> Sending(TTY))
      BY <2>1, Names DEF Waits
    <3>2. FSAwaits' /\ (TTYAnswers' <=> TTYAnswers)
      BY <1>3, <1>4, <3>1 DEF FSAwaits, TTYAnswers
    <3>. QED  BY <1>1, <1>2, <1>3, <1>4, <1>6, <1>8, <1>12, <3>1, <3>2, Names DEF Conversation
  <2>2. CASE Took(FS, TTY, TTY) /\ ToSend(TTY, FS, at[TTY])
    <3>1. Sending(TTY) /\ ~Sending(TTY)' /\ ~Receiving(FS)' /\ buf'[FS] = buf[TTY]
          /\ at[TTY] # "handle"
      BY <1>1, <2>2, Names DEF Took, ToSend
    <3>2. ~FSAwaits' /\ ~TTYAnswers' /\ ~TTYHas' /\ TTYAnswers
      BY <1>3, <1>4, <1>11, <3>1 DEF FSAwaits, TTYAnswers, TTYHas
    <3>. QED  BY <1>1, <1>2, <1>3, <1>4, <1>8, <1>12, <3>1, <3>2 DEF Conversation
  <2>. QED  BY <1>3, <2>1, <2>2
<1>14. Readers'
  BY <1>1, <1>2, <1>5, <1>9, <1>12 DEF Readers, Telling, Filled, ReaderOf
<1>. QED  BY <1>3, <1>7, <1>10, <1>13, <1>14 DEF TermInv, Talk

LEMMA FSResumesKeeps ==
    ASSUME TermInv, FSResumes
    PROVE  TermInv'
<1>1. /\ at[FS] = "handle" /\ ~panicked /\ ~Sending(FS) /\ ~Receiving(FS)
      /\ buf[FS].body.type = "RESUME_PROC"
      /\ fs' = [src |-> buf[FS].body.nr, op |-> "RESUME_PROC", cnt |-> buf[FS].body.cnt]
      /\ GoTo(FS, "reply") /\ UNCHANGED <<vars, asked, tty, tty_table, deskVars>>
  BY HereRuns DEF FSResumes, FSHandles
<1>2. /\ Consistent /\ NoMissedRendezvous /\ TermTypeOK /\ Placed /\ Filled /\ Noticed
      /\ BlockedFor /\ Requests /\ Conversation /\ Readers
  BY <1>1, Known
<1>3. FSHas(TTY) /\ \A v \in Users : ~FSHas(v)
  <2>1. ASSUME NEW v \in Users, FSHas(v) PROVE FALSE
    <3>1. buf[FS].body = Ask(v)
      BY <1>2, <2>1 DEF Requests
    <3>. QED  BY <1>1, <1>2, <3>1, AskFits DEF Calls
  <2>2. FSHas(buf[FS].source) /\ buf[FS].source \in Users \cup {TTY}
    BY <1>1, <1>2 DEF FSHas, Requests
  <2>. QED  BY <2>1, <2>2
<1>4. PICK u \in Users, n \in 0..MaxCount : buf[FS].body = Body("RESUME_PROC", 0, u, n)
  BY <1>2, <1>3 DEF Requests, Resumes
<1>5. fs'.src = u /\ fs'.op = "RESUME_PROC" /\ fs'.cnt = n /\ buf[FS].body.nr = u
      /\ fs' = [src |-> u, op |-> "RESUME_PROC", cnt |-> n]
  BY <1>1, <1>4 DEF Body
<1>6. /\ Consistent' /\ NoMissedRendezvous' /\ Placed' /\ TypeOK' /\ BlockedFor'
      /\ at'[FS] = "reply" /\ \A x \in Native : x # FS => at'[x] = at[x]
      /\ \A x : (Sending(x)' <=> Sending(x)) /\ (Receiving(x)' <=> Receiving(x))
      /\ UNCHANGED <<buf, p_sendto, p_recvfrom, has_int_msg, panicked>>
  BY <1>1, <1>2, QuietStep, Names DEF LocsOf, FSLocs
<1>7. /\ at'[TTY] = at[TTY] /\ \A v \in Users : at'[v] = at[v]
      /\ \A v \in Users : Ask(v)' = Ask(v)
  BY <1>1, <1>6, Names DEF Ask
<1>8. Filled' /\ \A t \in Terminals : Holds(t)' = Holds(t) /\ ReaderOf(t)' = ReaderOf(t)
  BY <1>1, <1>2, <1>7, FilledStays
<1>9. Always'
  <2>1. TermTypeOK'
    <3>1. fs' \in [src : Users \cup {NO_TASK}, cnt : 0..MaxCount,
                  op : {"OPEN", "READ", "WRITE", "RESUME_PROC"}]
      BY <1>5
    <3>. QED  BY <1>1, <1>2, <1>6, <3>1 DEF TermTypeOK, Placed, deskVars
  <2>. QED  BY <1>1, <1>2, <1>6, <1>7, <1>8, <2>1, NoticedStays DEF Always, deskVars
<1>10. /\ \A v \in Users : (Served(v)' <=> Served(v)) /\ (Told(v)' <=> Told(v))
                           /\ (Telling(v)' <=> Telling(v)) /\ ~Answering(v) /\ ~Answering(v)'
       /\ \A x : ~FSHas(x)'
       /\ (TTYHas' <=> TTYHas) /\ (TTYAnswers' <=> TTYAnswers) /\ (TTYResumes' <=> TTYResumes)
       /\ ~FSAwaits' /\ ~FSAwaits
       /\ Told(u)
  BY <1>1, <1>3, <1>5, <1>6, <1>7
     DEF Served, Told, Telling, Answering, FSHas, TTYHas, TTYAnswers, TTYResumes, FSAwaits
<1>11. Requests'
  BY <1>1, <1>2, <1>5, <1>6, <1>7, <1>10 DEF Requests, Readers, Calls
<1>12. Conversation'
  BY <1>2, <1>5, <1>6, <1>7, <1>10 DEF Conversation, Calls
<1>13. Readers'
  BY <1>1, <1>2, <1>8, <1>10 DEF Readers, Filled, ReaderOf
<1>. QED  BY <1>6, <1>9, <1>11, <1>12, <1>13 DEF TermInv, Talk

\* FS answers nobody who is not to be answered.
LEMMA AnsweredOnce ==
    ASSUME TermInv, Here(FS, "reply"), ~Suspended
    PROVE  /\ fs.src \in Users /\ Served(fs.src) /\ ~Telling(fs.src)
           /\ \A t \in Terminals : Holds(t) => ReaderOf(t) # fs.src
<1>1. at[FS] = "reply" /\ ~panicked /\ ~Receiving(FS)
  BY HereRuns
<1>2. /\ TermTypeOK /\ Filled /\ Requests /\ Conversation /\ Readers
  BY <1>1, Known
<1>3. fs.src \in Users /\ Served(fs.src)
  BY <1>1, <1>2 DEF Requests
<1>4. CASE fs.op = "RESUME_PROC"
  <2>1. Told(fs.src)
    BY <1>1, <1>4 DEF Told
  <2>. QED  BY <1>2, <1>3, <2>1 DEF Readers
<1>5. CASE fs.op \in Calls
  <2>1. fs.op # "READ"
    BY <1>1, <1>2, <1>5 DEF Conversation, Suspended
  <2>2. asked[fs.src].op # "READ"
    BY <1>1, <1>2, <1>5, <2>1 DEF Requests
  <2>. QED  BY <1>2, <1>3, <2>2 DEF Readers, Filled, ReaderOf
<1>. QED  BY <1>2, <1>4, <1>5 DEF TermTypeOK, Calls

LEMMA FSRepliesKeeps ==
    ASSUME TermInv, FSReplies
    PROVE  TermInv'
<1>1. /\ at[FS] = "reply" /\ ~panicked /\ ~Sending(FS) /\ ~Receiving(FS)
      /\ fs' = FSIdle /\ GoTo(FS, "loop") /\ UNCHANGED <<asked, tty, tty_table, deskVars>>
      /\ \/ Suspended /\ UNCHANGED vars
         \/ ~Suspended /\ msg_send(FS, fs.src, Body("SYSCALL_RET", 0, NO_TASK, fs.cnt))
  BY HereRuns DEF FSReplies
<1>2. /\ Consistent /\ NoMissedRendezvous /\ TermTypeOK /\ Placed /\ Filled /\ Noticed
      /\ BlockedFor /\ Requests /\ Conversation /\ Readers
  BY <1>1, Known
<1>3. fs' \in [src : Users \cup {NO_TASK}, cnt : 0..MaxCount,
               op : {"OPEN", "READ", "WRITE", "RESUME_PROC"}]
  BY <1>1, Counted DEF FSIdle
<1>4. ~FSAwaits /\ ~TTYHas /\ ~TTYAnswers
  BY <1>1, <1>2 DEF FSAwaits, Conversation
<1>5. \A x : ~FSHas(x)
  BY <1>1 DEF FSHas
<1>6. CASE Suspended /\ UNCHANGED vars
  <2>1. /\ Consistent' /\ NoMissedRendezvous' /\ Placed' /\ TypeOK' /\ BlockedFor'
        /\ at'[FS] = "loop" /\ \A x \in Native : x # FS => at'[x] = at[x]
        /\ \A x : (Sending(x)' <=> Sending(x)) /\ (Receiving(x)' <=> Receiving(x))
        /\ UNCHANGED <<buf, p_sendto, p_recvfrom, has_int_msg, panicked>>
    BY <1>1, <1>2, <1>6, QuietStep, Names DEF LocsOf, FSLocs
  <2>2. /\ at'[TTY] = at[TTY] /\ \A v \in Users : at'[v] = at[v]
        /\ \A v \in Users : Ask(v)' = Ask(v)
    BY <1>1, <2>1, Names DEF Ask
  <2>3. Filled' /\ \A t \in Terminals : Holds(t)' = Holds(t) /\ ReaderOf(t)' = ReaderOf(t)
    BY <1>1, <1>2, <2>2, FilledStays
  <2>4. Always'
    <3>1. TermTypeOK'
      BY <1>1, <1>2, <1>3, <2>1 DEF TermTypeOK, Placed, deskVars
    <3>. QED  BY <1>1, <1>2, <2>1, <2>2, <2>3, <3>1, NoticedStays DEF Always, deskVars
  <2>5. /\ \A v \in Users : (Served(v)' <=> Served(v)) /\ ~Told(v)' /\ (Telling(v)' <=> Telling(v))
                            /\ ~Answering(v)'
        /\ \A x : ~FSHas(x)'
        /\ ~TTYHas' /\ ~TTYAnswers' /\ (TTYResumes' <=> TTYResumes) /\ ~FSAwaits'
    BY <1>1, <1>4, <2>1, <2>2
       DEF Served, Told, Telling, Answering, FSHas, TTYHas, TTYAnswers, TTYResumes, FSAwaits
  <2>6. Requests'
    BY <1>1, <1>2, <2>1, <2>2, <2>5 DEF Requests
  <2>7. Conversation'
    BY <1>2, <1>4, <2>1, <2>2, <2>5 DEF Conversation, TTYHas
  <2>8. Readers'
    BY <1>1, <1>2, <2>3, <2>5 DEF Readers, Filled, ReaderOf
  <2>. QED  BY <2>1, <2>4, <2>6, <2>7, <2>8 DEF TermInv, Talk
<1>7. CASE ~Suspended /\ msg_send(FS, fs.src, Body("SYSCALL_RET", 0, NO_TASK, fs.cnt))
  <2>1. PICK u \in Users : u = fs.src
    BY <1>1, <1>2 DEF Requests
  <2>2. /\ Served(u) /\ ~Telling(u)
        /\ \A t \in Terminals : Holds(t) => ReaderOf(t) # u
    BY <1>7, <2>1, AnsweredOnce DEF FSReplies
  <2>3. PICK b \in Bodies : b.type = "SYSCALL_RET" /\ msg_send(FS, u, b)
    <3>1. fs.cnt \in 0..MaxCount
      BY <1>2 DEF TermTypeOK
    <3>2. "SYSCALL_RET" \in Sent /\ NO_TASK \in Users \cup {NO_TASK} /\ 0 \in Terminals
      BY Counted DEF Sent
    <3>3. /\ Body("SYSCALL_RET", 0, NO_TASK, fs.cnt) \in Bodies
          /\ Body("SYSCALL_RET", 0, NO_TASK, fs.cnt).type = "SYSCALL_RET"
      BY <3>1, <3>2, Fits
    <3>. QED  BY <1>7, <2>1, <3>3
  <2>4. /\ Consistent' /\ NoMissedRendezvous' /\ Placed' /\ TypeOK'
        /\ at'[FS] = "loop" /\ \A x \in Native : x # FS => at'[x] = at[x]
        /\ panicked' => ~Receiving(FS)' /\ UNCHANGED <<p_flags, p_recvfrom, p_sendto, buf>>
        /\ ~panicked' => BlockedFor' /\ (Delivered(FS, u, b) \/ Queued(FS, u, b))
    BY <1>1, <1>2, <2>3, Names, SendStep DEF ToSend
  <2>5. /\ at'[TTY] = at[TTY] /\ \A v \in Users : at'[v] = at[v]
        /\ \A v \in Users : Ask(v)' = Ask(v)
    BY <1>1, <2>4, Names DEF Ask
  <2>6. Filled' /\ \A t \in Terminals : Holds(t)' = Holds(t) /\ ReaderOf(t)' = ReaderOf(t)
    BY <1>1, <1>2, <2>5, FilledStays
  <2>7. Always'
    <3>1. TermTypeOK'
      BY <1>1, <1>2, <1>3, <2>4 DEF TermTypeOK, Placed, deskVars
    <3>2. Receiving(TTY)' => Receiving(TTY)
      BY <2>4, Names DEF Delivered, Queued, Receiving
    <3>. QED  BY <1>1, <1>2, <2>4, <2>5, <2>6, <3>1, <3>2, NoticedStays DEF Always, deskVars
  <2>8. ASSUME ~panicked'
        PROVE  Requests' /\ Conversation' /\ Readers'
    <3>1. /\ \A x \in {TTY} \cup Users : Sending(x)' <=> Sending(x)
          /\ \A x \in {TTY} \cup Users : x # u => (Receiving(x)' <=> Receiving(x))
          /\ \A x \in {TTY} \cup Users : x # u => buf'[x] = buf[x]
          /\ buf'[FS] = [source |-> FS, body |-> b]
      BY <2>4, <2>8, Names DEF Delivered, Queued
    <3>2. /\ \A v \in Users : v # u => (Served(v)' <=> Served(v))
          /\ \A v \in Users : ~Told(v)' /\ (Telling(v)' <=> Telling(v))
          /\ \A x : ~FSHas(x)'
          /\ ~TTYHas' /\ ~TTYAnswers' /\ (TTYResumes' <=> TTYResumes) /\ ~FSAwaits'
      BY <1>4, <2>4, <2>5, <3>1, Names
         DEF Served, Told, Telling, FSHas, TTYHas, TTYAnswers, TTYResumes, FSAwaits
    <3>3. Conversation'
      BY <1>2, <1>4, <2>4, <2>5, <3>1, <3>2, Names DEF Conversation, TTYHas
    <3>4. /\ \A v \in Users : Answering(v)' => v = u /\ Served(u)'
          /\ \A v \in Users : Sending(v) => v # u
      <4>1. CASE Delivered(FS, u, b)
        <5>1. ~Sending(FS)' /\ Receiving(u)
          BY <1>1, <4>1, Names DEF Delivered, Accepts
        <5>2. ~Sending(u)
          BY <1>2, <5>1, Names DEF Consistent, CallFields, Sending, Receiving
        <5>. QED  BY <5>1, <5>2 DEF Answering
      <4>2. CASE Queued(FS, u, b)
        <5>1. p_sendto'[FS] = u /\ (Receiving(u)' <=> Receiving(u)) /\ (Sending(u)' <=> Sending(u))
          BY <4>2, Names DEF Queued
        <5>2. ~Sending(u)
          BY <1>2, <2>2, Names DEF Served, Consistent, CallFields, Sending, Receiving
        <5>. QED  BY <2>2, <2>5, <5>1, <5>2 DEF Answering, Served
      <4>. QED  BY <2>4, <2>8, <4>1, <4>2
    <3>5. Requests'
      BY <1>2, <2>3, <2>4, <2>5, <3>1, <3>2, <3>4, Names DEF Requests
    <3>6. Readers'
      BY <1>1, <1>2, <2>2, <2>6, <3>2, <3>4 DEF Readers, Filled, ReaderOf
    <3>. QED  BY <3>3, <3>5, <3>6
  <2>. QED  BY <2>4, <2>7, <2>8 DEF TermInv, Talk
<1>. QED  BY <1>1, <1>6, <1>7

-----------------------------------------------------------------------------
(* The interrupts                                                          *)

LEMMA KeyboardHandlerKeeps ==
    ASSUME TermInv, NEW key \in Keys, keyboard_handler(key)
    PROVE  TermInv'
<1>1. /\ ~panicked /\ typed < MaxKeys /\ typed' = typed + 1 /\ key_pressed' = TRUE
      /\ kb_in' = (IF Len(kb_in) < KB_IN_BYTES THEN Append(kb_in, key) ELSE kb_in)
      /\ UNCHANGED <<vars, at, asked, fs, tty, tty_table, current_console>>
  BY DEF keyboard_handler
<1>2. /\ Consistent /\ NoMissedRendezvous /\ TermTypeOK /\ Placed /\ Filled /\ Noticed
      /\ BlockedFor /\ Requests /\ Conversation /\ Readers
  BY <1>1, Known
<1>3. Consistent' /\ NoMissedRendezvous' /\ TypeOK'
  BY <1>1, <1>2, Stays
<1>4. /\ \A x : (Sending(x)' <=> Sending(x)) /\ (Receiving(x)' <=> Receiving(x))
      /\ UNCHANGED <<buf, p_sendto, p_recvfrom, has_int_msg, panicked>>
  BY <1>1 DEF Sending, Receiving, vars
<1>5. TermTypeOK'
  <2>1. kb_in' \in Seq(Keys) /\ Len(kb_in') <= KB_IN_BYTES
    BY <1>1, <1>2, TerminalAssumption DEF TermTypeOK
  <2>2. typed' \in 0..MaxKeys
    BY <1>1, <1>2, TerminalAssumption DEF TermTypeOK
  <2>. QED  BY <1>1, <1>2, <1>3, <2>1, <2>2 DEF TermTypeOK
<1>6. Filled' /\ Placed' /\ Noticed' /\ BlockedFor'
  BY <1>1, <1>2, <1>4 DEF Filled, Holds, Placed, Noticed, BlockedFor
<1>7. /\ \A v \in Users : (Served(v)' <=> Served(v)) /\ (Told(v)' <=> Told(v)) /\ (Ask(v)' = Ask(v))
                          /\ (Telling(v)' <=> Telling(v)) /\ (Answering(v)' <=> Answering(v))
      /\ \A x : FSHas(x)' <=> FSHas(x)
      /\ (TTYHas' <=> TTYHas) /\ (TTYAnswers' <=> TTYAnswers) /\ (TTYResumes' <=> TTYResumes)
      /\ (FSAwaits' <=> FSAwaits) /\ Request' = Request
      /\ \A t \in Terminals : Holds(t)' = Holds(t) /\ ReaderOf(t)' = ReaderOf(t)
  BY <1>1, <1>4 DEF Served, Told, Telling, Answering, FSHas, TTYHas, TTYAnswers, TTYResumes,
                    FSAwaits, Request, Ask, Holds, ReaderOf
<1>8. Requests' /\ Conversation'
  BY <1>1, <1>2, <1>4, <1>7 DEF Requests, Conversation
<1>9. Readers'
  BY <1>1, <1>2, <1>7 DEF Readers, Filled, ReaderOf
<1>. QED  BY <1>1, <1>3, <1>2, <1>4, <1>5, <1>6, <1>8, <1>9 DEF TermInv, Always, Talk

LEMMA ClockHandlerKeeps ==
    ASSUME TermInv, clock_handler
    PROVE  TermInv'
<1>1. inform_int(TTY) /\ UNCHANGED termVars /\ ~panicked
  BY DEF clock_handler, inform_int, InformWakes, InformLatches
<1>2. /\ Consistent /\ NoMissedRendezvous /\ TermTypeOK /\ Placed /\ Filled /\ Noticed
      /\ BlockedFor /\ Requests /\ Conversation /\ Readers
  BY <1>1, Known
<1>3. /\ Consistent' /\ ~panicked' /\ UNCHANGED p_sendto
      /\ \A x \in Procs :
            /\ Sending(x)' <=> Sending(x)
            /\ Receiving(x)' <=> Receiving(x) /\ ~(x = TTY /\ AcceptsInt(TTY))
            /\ x # TTY \/ ~AcceptsInt(TTY) => p_recvfrom'[x] = p_recvfrom[x]
            /\ buf'[x] = IF x = TTY /\ AcceptsInt(TTY) THEN IntMsg ELSE buf[x]
            /\ has_int_msg'[x] <=> IF x = TTY THEN ~AcceptsInt(TTY) ELSE has_int_msg[x]
  BY <1>1, <1>2, Names, InformEffect
<1>4. NoMissedRendezvous' /\ TypeOK'
  BY <1>1, <1>2, <1>3, Names, NextNoMissed DEF Next, Consistent
<1>5. UNCHANGED <<at, asked, fs, kb_in, key_pressed, current_console, tty, tty_table, typed>>
  BY <1>1 DEF termVars
<1>6. /\ Receiving(TTY)' => Receiving(TTY)
      /\ \A x \in {FS} \cup Users : (Receiving(x)' <=> Receiving(x)) /\ buf'[x] = buf[x]
      /\ \A x \in {TTY, FS} \cup Users : Sending(x)' <=> Sending(x)
      /\ Sending(TTY) => buf'[TTY] = buf[TTY]
      /\ at[TTY] # "handle" => (Receiving(TTY)' <=> Receiving(TTY)) /\ buf'[TTY] = buf[TTY]
      /\ at[TTY] = "handle" =>
            \/ (Receiving(TTY)' <=> Receiving(TTY)) /\ buf'[TTY] = buf[TTY]
            \/ Receiving(TTY) /\ ~Receiving(TTY)' /\ buf'[TTY] = IntMsg
  <2>1. AcceptsInt(TTY) => Receiving(TTY) /\ at[TTY] = "handle" /\ ~Sending(TTY)
    BY <1>2, Names DEF AcceptsInt, Noticed, Consistent, CallFields, Sending, Receiving
  <2>. QED  BY <1>3, <2>1, Names
<1>7. Always'
  <2>1. TermTypeOK' /\ Filled' /\ Placed'
    BY <1>2, <1>4, <1>5 DEF TermTypeOK, Filled, Placed, Holds
  <2>. QED  BY <1>2, <1>3, <1>4, <1>5, <1>6, <2>1, NoticedStays DEF Always
<1>8. BlockedFor'
  <2>1. ASSUME NEW x \in Procs
        PROVE  /\ Sending(x)' => ToSend(x, p_sendto'[x], at'[x]) /\ buf'[x].source = x
               /\ Receiving(x)' => ToReceive(x, p_recvfrom'[x], at'[x])
               /\ has_int_msg'[x] => x = TTY
    BY <1>2, <1>3, <1>5, <1>6 DEF BlockedFor
  <2>. QED  BY <2>1 DEF BlockedFor
<1>9. /\ \A v \in Users : (Served(v)' <=> Served(v)) /\ (Told(v)' <=> Told(v)) /\ (Ask(v)' = Ask(v))
                          /\ (Telling(v)' <=> Telling(v)) /\ (Answering(v)' <=> Answering(v))
      /\ \A x : FSHas(x)' <=> FSHas(x)
      /\ (TTYHas' <=> TTYHas) /\ (TTYAnswers' <=> TTYAnswers) /\ (TTYResumes' <=> TTYResumes)
      /\ (FSAwaits' <=> FSAwaits) /\ Request' = Request
      /\ \A t \in Terminals : Holds(t)' = Holds(t) /\ ReaderOf(t)' = ReaderOf(t)
  <2>1. TTYHas' <=> TTYHas
    <3>1. IntMsg.source # FS
      BY Names DEF IntMsg
    <3>. QED  BY <1>5, <1>6, <3>1 DEF TTYHas
  <2>2. TTYResumes' <=> TTYResumes
    BY <1>5, <1>6 DEF TTYResumes
  <2>3. \A v \in Users : Telling(v)' <=> Telling(v)
    BY <1>6, <2>2 DEF Telling, TTYResumes
  <2>. QED  BY <1>3, <1>5, <1>6, <2>1, <2>2, <2>3
            DEF Served, Told, Answering, FSHas, TTYAnswers, FSAwaits, Request, Ask, Holds, ReaderOf
<1>10. Requests'
  BY <1>2, <1>5, <1>6, <1>9 DEF Requests
<1>11. Conversation'
  <2>1. /\ TTYAnswers \/ TTYResumes => buf'[TTY] = buf[TTY]
        /\ TTYHas => buf'[TTY] = buf[TTY]
    BY <1>6 DEF TTYAnswers, TTYResumes, TTYHas
  <2>. QED  BY <1>2, <1>5, <1>6, <1>9, <2>1 DEF Conversation
<1>12. Readers'
  BY <1>2, <1>5, <1>9 DEF Readers, Filled, ReaderOf
<1>. QED  BY <1>7, <1>8, <1>10, <1>11, <1>12 DEF TermInv, Talk

-----------------------------------------------------------------------------
(* TTY: from the keyboard to the rings                                     *)

\* TTY goes on without a call, and no terminal gets another reader.
LEMMA TTYQuiet ==
    ASSUME TermInv, ~panicked, ~Sending(TTY), ~Receiving(TTY), ~TTYHas,
           NEW loc \in TTYLocs \ {"handle"}, GoTo(TTY, loc), UNCHANGED <<vars, asked, fs>>,
           \A t \in Terminals : Holds(t)' => Holds(t) /\ ReaderOf(t)' = ReaderOf(t)
    PROVE  /\ Consistent' /\ NoMissedRendezvous' /\ Placed' /\ TypeOK'
           /\ Talk' /\ Readers' /\ ~panicked' /\ ~Receiving(TTY)' /\ at'[TTY] = loc
<1>1. /\ Consistent /\ NoMissedRendezvous /\ TermTypeOK /\ Placed /\ Filled /\ Noticed
      /\ BlockedFor /\ Requests /\ Conversation /\ Readers
  BY Known
<1>2. /\ Consistent' /\ NoMissedRendezvous' /\ Placed' /\ TypeOK' /\ BlockedFor'
      /\ at'[TTY] = loc /\ \A x \in Native : x # TTY => at'[x] = at[x]
      /\ \A x : (Sending(x)' <=> Sending(x)) /\ (Receiving(x)' <=> Receiving(x))
      /\ UNCHANGED <<buf, p_sendto, p_recvfrom, has_int_msg, panicked>>
  BY <1>1, QuietStep, Names DEF LocsOf
<1>3. at'[FS] = at[FS] /\ \A v \in Users : at'[v] = at[v]
  BY <1>2, Names
<1>4. /\ ~TTYHas' /\ ~TTYAnswers /\ ~TTYAnswers' /\ ~TTYResumes /\ ~TTYResumes'
      /\ (FSAwaits' <=> FSAwaits) /\ Request' = Request
      /\ \A x : FSHas(x)' <=> FSHas(x)
      /\ \A v \in Users : /\ (Served(v)' <=> Served(v)) /\ (Told(v)' <=> Told(v))
                          /\ ~Telling(v) /\ ~Telling(v)' /\ (Answering(v)' <=> Answering(v))
                          /\ Ask(v)' = Ask(v)
  BY <1>2, <1>3 DEF Served, Told, Telling, Answering, FSHas, TTYHas, TTYAnswers, TTYResumes,
                    FSAwaits, Request, Ask
<1>5. Requests'
  BY <1>1, <1>2, <1>3, <1>4 DEF Requests
<1>6. Conversation'
  BY <1>1, <1>2, <1>3, <1>4 DEF Conversation
<1>7. Readers'
  BY <1>1, <1>4 DEF Readers, Filled, ReaderOf
<1>. QED  BY <1>2, <1>5, <1>6, <1>7 DEF Talk

LEMMA TTYDevReadKeeps ==
    ASSUME TermInv, tty_dev_read
    PROVE  TermInv'
<1>. DEFINE loc == IF tty = current_console THEN "keys" ELSE "write"
<1>1. /\ at[TTY] = "read" /\ ~panicked /\ ~Sending(TTY) /\ ~Receiving(TTY)
      /\ GoTo(TTY, loc) /\ UNCHANGED <<vars, asked, fs, tty, tty_table, deskVars>>
  BY HereRuns DEF tty_dev_read
<1>2. TermTypeOK /\ Filled /\ Noticed /\ Placed
  BY <1>1, Known
<1>3. at'[TTY] = loc
  BY <1>1, <1>2, Names, Goes DEF LocsOf, TTYLocs
<1>4. \A t \in Terminals : (Holds(t)' <=> Holds(t)) /\ ReaderOf(t)' = ReaderOf(t)
  BY <1>1, <1>3 DEF Holds, ReaderOf
<1>5. /\ Consistent' /\ NoMissedRendezvous' /\ Placed' /\ TypeOK'
      /\ Talk' /\ Readers' /\ ~panicked' /\ ~Receiving(TTY)'
  BY <1>1, <1>3, <1>4, TTYQuiet DEF TTYHas, TTYLocs
<1>6. TermTypeOK' /\ Filled'
  BY <1>1, <1>2, <1>4, <1>5 DEF TermTypeOK, Placed, Filled, deskVars
<1>7. Noticed'
  <2>1. UNCHANGED <<kb_in, key_pressed, current_console, tty>>
        /\ tty \in Nat /\ current_console \in Nat
    BY <1>1, <1>2 DEF deskVars, TermTypeOK, Terminals
  <2>2. Underway => Underway'
    BY <1>1, <1>3, <2>1 DEF Underway
  <2>. QED  BY <1>2, <1>3, <1>5, <2>1, <2>2 DEF Noticed
<1>. QED  BY <1>5, <1>6, <1>7 DEF TermInv, Always

LEMMA KeyboardReadKeeps ==
    ASSUME TermInv, keyboard_read
    PROVE  TermInv'
<1>1. /\ at[TTY] = "keys" /\ ~panicked /\ ~Sending(TTY) /\ ~Receiving(TTY)
      /\ kb_in # <<>> /\ kb_in' = Tail(kb_in) /\ in_process(Head(kb_in))
      /\ UNCHANGED <<vars, at, asked, fs, key_pressed, typed, tty>>
  BY HereRuns DEF keyboard_read
<1>2. TermTypeOK /\ Filled /\ Noticed /\ Placed
  BY <1>1, Known
<1>3. GoTo(TTY, "keys") /\ at'[TTY] = "keys"
  BY <1>1, <1>2 DEF GoTo, Placed
<1>4. Head(kb_in) \in Keys /\ kb_in' \in Seq(Keys) /\ Len(kb_in') <= KB_IN_BYTES /\ tty \in Terminals
  BY <1>1, <1>2, TerminalAssumption DEF TermTypeOK
<1>5. /\ current_console' \in Terminals
      /\ tty_table' \in [Terminals -> TTYStruct]
      /\ \A t \in Terminals :
            /\ Len(tty_table'[t].ibuf) <= TTY_IN_BYTES
            /\ tty_table'[t].tty_left_cnt = tty_table[t].tty_left_cnt
            /\ tty_table'[t].line = tty_table[t].line
            /\ tty_table'[t].tty_procnr = tty_table[t].tty_procnr
            /\ tty_table'[t].tty_caller = tty_table[t].tty_caller
  <2>1. CASE Selects(Head(kb_in))
    BY <1>1, <1>2, <2>1, TerminalAssumption DEF in_process, Selects, TermTypeOK
  <2>2. CASE ~Selects(Head(kb_in))
    <3>1. PICK r \in TTYStruct : r = tty_table[tty] /\ Len(r.ibuf) <= TTY_IN_BYTES
      BY <1>2, <1>4 DEF TermTypeOK
    <3>2. PICK q : q = put_key(r, Head(kb_in))
      OBVIOUS
    <3>3. /\ q \in TTYStruct /\ Len(q.ibuf) <= TTY_IN_BYTES
          /\ q.tty_left_cnt = r.tty_left_cnt /\ q.line = r.line
          /\ q.tty_procnr = r.tty_procnr /\ q.tty_caller = r.tty_caller
      <4>1. CASE Len(r.ibuf) < TTY_IN_BYTES
        <5>1. q = [r EXCEPT !.ibuf = Append(r.ibuf, Head(kb_in))]
          BY <3>2, <4>1 DEF put_key
        <5>2. Append(r.ibuf, Head(kb_in)) \in Seq(Keys) /\ r.ibuf \in Seq(Keys)
              /\ Len(Append(r.ibuf, Head(kb_in))) = Len(r.ibuf) + 1
          BY <1>4, <3>1 DEF TTYStruct
        <5>3. Len(r.ibuf) + 1 <= TTY_IN_BYTES
          BY <4>1, <5>2, TerminalAssumption
        <5>. QED  BY <3>1, <5>1, <5>2, <5>3 DEF TTYStruct
      <4>2. CASE ~(Len(r.ibuf) < TTY_IN_BYTES)
        BY <3>1, <3>2, <4>2 DEF put_key
      <4>. QED  BY <4>1, <4>2
    <3>4. tty_table' = [tty_table EXCEPT ![tty] = q]
      BY <1>1, <2>2, <3>1, <3>2 DEF in_process
    <3>5. tty_table' \in [Terminals -> TTYStruct]
      BY <1>2, <1>4, <3>3, <3>4 DEF TermTypeOK
    <3>6. current_console' \in Terminals
      BY <1>1, <1>2, <2>2 DEF in_process, TermTypeOK
    <3>. QED  BY <1>2, <1>4, <3>1, <3>3, <3>4, <3>5, <3>6 DEF TermTypeOK
  <2>. QED  BY <2>1, <2>2
<1>6. \A t \in Terminals : (Holds(t)' <=> Holds(t)) /\ ReaderOf(t)' = ReaderOf(t)
  BY <1>1, <1>5 DEF Holds, ReaderOf
<1>7. /\ Consistent' /\ NoMissedRendezvous' /\ Placed' /\ TypeOK'
      /\ Talk' /\ Readers' /\ ~panicked' /\ ~Receiving(TTY)'
  BY <1>1, <1>3, <1>6, TTYQuiet DEF TTYHas, TTYLocs
<1>8. TermTypeOK'
  BY <1>1, <1>2, <1>4, <1>5, <1>7 DEF TermTypeOK
<1>9. Filled'
  BY <1>1, <1>2, <1>5, <1>6 DEF Filled
<1>10. Noticed'
  BY <1>3, <1>7 DEF Noticed, Underway
<1>. QED  BY <1>7, <1>8, <1>9, <1>10 DEF TermInv, Always

LEMMA KeyboardEmptyKeeps ==
    ASSUME TermInv, keyboard_empty
    PROVE  TermInv'
<1>1. /\ at[TTY] = "keys" /\ ~panicked /\ ~Sending(TTY) /\ ~Receiving(TTY)
      /\ kb_in = <<>> /\ GoTo(TTY, "write")
      /\ UNCHANGED <<vars, asked, fs, tty, tty_table, deskVars>>
  BY HereRuns DEF keyboard_empty
<1>2. TermTypeOK /\ Filled /\ Noticed /\ Placed
  BY <1>1, Known
<1>3. at'[TTY] = "write"
  BY <1>1, <1>2, Names, Goes DEF LocsOf, TTYLocs
<1>4. \A t \in Terminals : (Holds(t)' <=> Holds(t)) /\ ReaderOf(t)' = ReaderOf(t)
  BY <1>1, <1>3 DEF Holds, ReaderOf
<1>5. /\ Consistent' /\ NoMissedRendezvous' /\ Placed' /\ TypeOK'
      /\ Talk' /\ Readers' /\ ~panicked' /\ ~Receiving(TTY)'
  BY <1>1, <1>3, <1>4, TTYQuiet DEF TTYHas, TTYLocs
<1>6. TermTypeOK' /\ Filled'
  BY <1>1, <1>2, <1>4, <1>5 DEF TermTypeOK, Placed, Filled, deskVars
<1>7. Noticed'
  BY <1>1, <1>3, <1>5 DEF Noticed, deskVars
<1>. QED  BY <1>5, <1>6, <1>7 DEF TermInv, Always

LEMMA TTYNextKeeps ==
    ASSUME TermInv, tty_next
    PROVE  TermInv'
<1>1. /\ at[TTY] = "write" /\ ~panicked /\ ~Sending(TTY) /\ ~Receiving(TTY)
      /\ UNCHANGED <<vars, asked, fs, tty_table, deskVars>>
      /\ \/ tty + 1 \in Terminals /\ GoTo(TTY, "read") /\ tty' = tty + 1
         \/ tty + 1 \notin Terminals /\ GoTo(TTY, "receive") /\ tty' = 0
  BY HereRuns DEF tty_next
<1>2. TermTypeOK /\ Filled /\ Noticed /\ Placed
  BY <1>1, Known
<1>3. PICK loc \in {"read", "receive"} : GoTo(TTY, loc) /\ at'[TTY] = loc
                /\ (IF loc = "read" THEN tty' = tty + 1 /\ tty + 1 \in Terminals
                                    ELSE tty' = 0 /\ tty + 1 \notin Terminals)
  BY <1>1, <1>2, Names, Goes DEF LocsOf, TTYLocs
<1>4. \A t \in Terminals : (Holds(t)' <=> Holds(t)) /\ ReaderOf(t)' = ReaderOf(t)
  BY <1>1, <1>3 DEF Holds, ReaderOf
<1>5. /\ Consistent' /\ NoMissedRendezvous' /\ Placed' /\ TypeOK'
      /\ Talk' /\ Readers' /\ ~panicked' /\ ~Receiving(TTY)'
  BY <1>1, <1>3, <1>4, TTYQuiet DEF TTYHas, TTYLocs
<1>6. TermTypeOK' /\ Filled'
  <2>1. tty' \in Terminals
    BY <1>3, Counted
  <2>2. TermTypeOK'
    BY <1>1, <1>2, <1>5, <2>1 DEF TermTypeOK, Placed, deskVars
  <2>. QED  BY <1>1, <1>2, <1>4, <2>2 DEF Filled
<1>7. Noticed'
  <2>1. UNCHANGED <<kb_in, key_pressed, current_console>>
        /\ tty \in 0..NR_CONSOLES - 1 /\ current_console \in 0..NR_CONSOLES - 1
        /\ NR_CONSOLES \in Nat
    BY <1>1, <1>2, Counted DEF deskVars, TermTypeOK, Terminals
  <2>2. Underway => Underway'
    BY <1>1, <1>3, <2>1 DEF Underway, Terminals
  <2>. QED  BY <1>2, <1>3, <1>5, <2>1, <2>2 DEF Noticed
<1>. QED  BY <1>5, <1>6, <1>7 DEF TermInv, Always

\* FS's request is that of the program it works for.
LEMMA TTYHasRequest ==
    ASSUME TermInv, ~panicked, TTYHas
    PROVE  /\ fs.src \in Users /\ fs.op \in Calls /\ Served(fs.src)
           /\ asked[fs.src].op = fs.op /\ asked[fs.src].cnt = fs.cnt
           /\ FSAwaits /\ ~Receiving(TTY) /\ buf[TTY].source = FS /\ buf[TTY].body = Request
           /\ ~Sending(FS)
<1>1. Requests /\ Conversation /\ Consistent
  BY Known
<1>2. FSAwaits /\ ~Receiving(TTY) /\ buf[TTY].source = FS /\ buf[TTY].body = Request
  BY <1>1 DEF Conversation, TTYHas
<1>3. /\ fs.src \in Users /\ fs.op \in Calls /\ Served(fs.src)
      /\ fs = [src |-> fs.src, op |-> asked[fs.src].op, cnt |-> asked[fs.src].cnt]
  BY <1>1, <1>2 DEF FSAwaits, Requests
<1>4. ~Sending(FS)
  BY <1>1, <1>2, Names DEF FSAwaits, Consistent, CallFields, Sending, Receiving
<1>. QED  BY <1>2, <1>3, <1>4

LEMMA TTYHardIntKeeps ==
    ASSUME TermInv, tty_hard_int
    PROVE  TermInv'
<1>1. /\ at[TTY] = "handle" /\ ~panicked /\ ~Sending(TTY) /\ ~Receiving(TTY)
      /\ buf[TTY].body.type = "HARD_INT" /\ key_pressed' = FALSE /\ GoTo(TTY, "read")
      /\ UNCHANGED <<vars, asked, fs, tty, tty_table, kb_in, current_console, typed>>
  BY HereRuns DEF tty_hard_int, TTYHandles
<1>2. TermTypeOK /\ Filled /\ Noticed /\ Placed
  BY <1>1, Known
<1>3. ~TTYHas
  BY <1>1, <1>2, TTYHasRequest, RequestFits
<1>4. at'[TTY] = "read"
  BY <1>1, <1>2, Names, Goes DEF LocsOf, TTYLocs
<1>5. \A t \in Terminals : (Holds(t)' <=> Holds(t)) /\ ReaderOf(t)' = ReaderOf(t)
  BY <1>1, <1>4 DEF Holds, ReaderOf
<1>6. /\ Consistent' /\ NoMissedRendezvous' /\ Placed' /\ TypeOK'
      /\ Talk' /\ Readers' /\ ~panicked' /\ ~Receiving(TTY)'
  BY <1>1, <1>3, <1>5, TTYQuiet DEF TTYLocs
<1>7. TermTypeOK' /\ Filled'
  BY <1>1, <1>2, <1>5, <1>6 DEF TermTypeOK, Placed, Filled
<1>8. Noticed'
  <2>1. tty' = 0 /\ current_console' \in Nat
    BY <1>1, <1>2 DEF Noticed, TermTypeOK, Terminals
  <2>. QED  BY <1>4, <1>6, <2>1 DEF Noticed, Underway
<1>. QED  BY <1>6, <1>7, <1>8 DEF TermInv, Always

-----------------------------------------------------------------------------
(* TTY: from the rings to the readers                                      *)

\* Two states of a terminal with the same reader, to whom the room left and
\* the characters written promise the same.
Alike(q, r) ==
    /\ q \in TTYStruct /\ q.ibuf = r.ibuf
    /\ q.tty_procnr = r.tty_procnr /\ q.tty_caller = r.tty_caller
    /\ q.tty_left_cnt + Len(q.line) = r.tty_left_cnt + Len(r.line)

LEMMA AlikeAll ==
    ASSUME NEW r \in TTYStruct, NEW q, Alike(q, r), NEW s, Alike(s, q)
    PROVE  Alike(s, r)
BY DEF Alike

\* A character takes a place of the line.
LEMMA PutIs ==
    ASSUME NEW r \in TTYStruct, NEW ch \in Printable \cup {"newline"}, r.tty_left_cnt > 0
    PROVE  /\ Alike(Put(r, ch), r) /\ Put(r, ch).tty_left_cnt = r.tty_left_cnt - 1
           /\ Put(r, ch).line = Append(r.line, ch)
           /\ Put(r, ch).line # <<>> /\ Last(Put(r, ch).line) = ch
<1>. DEFINE line == Append(r.line, ch)
<1>1. /\ r.line \in Seq(Printable \cup {"newline"}) /\ r.tty_left_cnt \in 0..MaxCount
      /\ MaxCount \in Nat
  BY Counted DEF TTYStruct
<1>2. /\ line \in Seq(Printable \cup {"newline"}) /\ Len(line) = Len(r.line) + 1
      /\ line[Len(line)] = ch /\ line # <<>> /\ Len(r.line) \in Nat
  BY <1>1
<1>3. r.tty_left_cnt - 1 \in 0..MaxCount
  BY <1>1
<1>. HIDE DEF line
<1>4. Put(r, ch) = [r EXCEPT !.line = line, !.tty_left_cnt = r.tty_left_cnt - 1]
  BY DEF Put, line
<1>5. /\ Put(r, ch) \in TTYStruct /\ Put(r, ch).ibuf = r.ibuf
      /\ Put(r, ch).tty_procnr = r.tty_procnr /\ Put(r, ch).tty_caller = r.tty_caller
      /\ Put(r, ch).line = line /\ Put(r, ch).tty_left_cnt = r.tty_left_cnt - 1
  BY <1>2, <1>3, <1>4 DEF TTYStruct
<1>6. Alike(Put(r, ch), r)
  BY <1>1, <1>2, <1>5 DEF Alike
<1>. QED  BY <1>2, <1>5, <1>6 DEF Last, line

\* The end of an escape: nothing is written, or the backslash.
LEMMA UnescapeIs ==
    ASSUME NEW r \in TTYStruct, NEW ch
    PROVE  LET c == Unescape(r, ch)
           IN  /\ Alike(c.term, r) /\ c.newline \in BOOLEAN
               /\ c.newline => c.ch = "Enter"
               /\ \/ c.term.tty_left_cnt = r.tty_left_cnt /\ c.term.line = r.line
                  \/ /\ r.tty_left_cnt > 0 /\ c.term.tty_left_cnt = r.tty_left_cnt - 1
                     /\ c.term.line # <<>> /\ Last(c.term.line) = "Backslash"
<1>. DEFINE c == Unescape(r, ch)
            s == IF ch \in {"n", "Backslash"} \/ r.tty_left_cnt = 0
                 THEN r ELSE Put(r, "Backslash")
<1>1. /\ Alike(s, r)
      /\ \/ s.tty_left_cnt = r.tty_left_cnt /\ s.line = r.line
         \/ /\ r.tty_left_cnt > 0 /\ s.tty_left_cnt = r.tty_left_cnt - 1
            /\ s.line # <<>> /\ Last(s.line) = "Backslash"
  <2>1. CASE ch \in {"n", "Backslash"} \/ r.tty_left_cnt = 0
    BY <2>1 DEF Alike
  <2>2. CASE ~(ch \in {"n", "Backslash"} \/ r.tty_left_cnt = 0)
    <3>1. r.tty_left_cnt > 0 /\ "Backslash" \in Printable \cup {"newline"}
      BY <2>2, Counted DEF TTYStruct, Printable
    <3>. QED  BY <2>2, <3>1, PutIs
  <2>. QED  BY <2>1, <2>2
<1>. HIDE DEF s
<1>2. c.term = [s EXCEPT !.escape_pending = FALSE] /\ c.newline = (ch = "n")
      /\ c.ch = (IF ch = "n" THEN "Enter" ELSE ch)
  BY DEF Unescape, s
<1>3. /\ c.term \in TTYStruct /\ c.term.ibuf = s.ibuf /\ c.term.tty_procnr = s.tty_procnr
      /\ c.term.tty_caller = s.tty_caller /\ c.term.tty_left_cnt = s.tty_left_cnt
      /\ c.term.line = s.line
  BY <1>1, <1>2 DEF Alike, TTYStruct
<1>4. Alike(c.term, r)
  BY <1>1, <1>3 DEF Alike
<1>. QED  BY <1>1, <1>2, <1>3, <1>4

\* One character changes the line and the room left by as much.
LEMMA EditIs ==
    ASSUME NEW r \in TTYStruct, NEW ch, r.tty_left_cnt > 0,
           r.tty_left_cnt + Len(r.line) <= MaxCount
    PROVE  Alike(Edit(r, ch), r) /\ (ch = "Enter" => Edit(r, ch) = r)
<1>1. Printable \cap {"Enter", "Shift+Enter", "Backspace"} = {}
  BY TerminalAssumption DEF Printable
<1>2. Alike(r, r)
  BY DEF Alike
<1>3. CASE ch = "Shift+Enter"
  BY <1>1, <1>3, PutIs DEF Edit
<1>4. CASE ch \in Printable
  BY <1>1, <1>4, PutIs DEF Edit
<1>5. CASE ch = "Backspace" /\ r.line # <<>>
  <2>. DEFINE line == Front(r.line)
  <2>1. /\ r.line \in Seq(Printable \cup {"newline"}) /\ r.tty_left_cnt \in 0..MaxCount
        /\ MaxCount \in Nat /\ Len(r.line) \in Nat \ {0}
    BY <1>5, Counted DEF TTYStruct
  <2>2. line \in Seq(Printable \cup {"newline"}) /\ Len(line) = Len(r.line) - 1
    BY <2>1 DEF Front
  <2>3. r.tty_left_cnt + 1 \in 0..MaxCount
    BY <2>1
  <2>. HIDE DEF line
  <2>4. Edit(r, ch) = [r EXCEPT !.line = line, !.tty_left_cnt = r.tty_left_cnt + 1]
    BY <1>1, <1>5 DEF Edit, line
  <2>5. /\ Edit(r, ch) \in TTYStruct /\ Edit(r, ch).ibuf = r.ibuf
        /\ Edit(r, ch).tty_procnr = r.tty_procnr /\ Edit(r, ch).tty_caller = r.tty_caller
        /\ Edit(r, ch).line = line /\ Edit(r, ch).tty_left_cnt = r.tty_left_cnt + 1
    BY <2>2, <2>3, <2>4 DEF TTYStruct
  <2>. QED  BY <1>5, <2>1, <2>2, <2>5 DEF Alike
<1>6. CASE ch # "Shift+Enter" /\ ch \notin Printable /\ ~(ch = "Backspace" /\ r.line # <<>>)
  BY <1>2, <1>6 DEF Edit
<1>7. ch = "Enter" => ch # "Shift+Enter" /\ ch \notin Printable /\ ~(ch = "Backspace" /\ r.line # <<>>)
  BY <1>1
<1>8. ch = "Enter" => Edit(r, ch) = r
  BY <1>7 DEF Edit
<1>. QED  BY <1>3, <1>4, <1>5, <1>6, <1>8

\* What tty_dev_write does to its terminal: the room left and the characters
\* stay what the reader asked for, and a line that has got full without being
\* complete ends with a backslash.
DevWrites(q, loc) ==
    LET r == tty_table[tty]
    IN  /\ tty_table' = [tty_table EXCEPT ![tty] = q] /\ GoTo(TTY, loc)
        /\ loc \in {"write", "resume"}
        /\ Alike(q, [r EXCEPT !.ibuf = Tail(@)])
        /\ q.tty_left_cnt > 0 \/ loc = "resume" => r.tty_left_cnt > 0
        /\ q.tty_left_cnt = 0 /\ loc = "write" /\ r.tty_left_cnt > 0 =>
              q.line # <<>> /\ Last(q.line) = "Backslash"
        /\ r.tty_left_cnt = 0 => q.line = r.line

LEMMA DevWriteEffect ==
    ASSUME TermTypeOK, Placed, tty_dev_write
    PROVE  \E q, loc : DevWrites(q, loc)
<1>1. PICK r0 \in TTYStruct : r0 = tty_table[tty] /\ tty \in Terminals /\ r0.ibuf # <<>>
            /\ r0.tty_left_cnt + Len(r0.line) <= MaxCount
  BY DEF TermTypeOK, tty_dev_write
<1>2. PICK key : key = Head(r0.ibuf)
  OBVIOUS
<1>3. PICK r : r = [r0 EXCEPT !.ibuf = Tail(@)]
  OBVIOUS
<1>4. /\ r \in TTYStruct /\ r.tty_left_cnt = r0.tty_left_cnt /\ r.line = r0.line
      /\ r.escape_pending = r0.escape_pending
      /\ r.tty_left_cnt \in Nat /\ Len(r.line) \in Nat
  <2>1. Tail(r0.ibuf) \in Seq(Keys)
    BY <1>1 DEF TTYStruct
  <2>2. r = [r0 EXCEPT !.ibuf = Tail(r0.ibuf)]
    BY <1>1, <1>3 DEF TTYStruct
  <2>3. /\ r \in TTYStruct /\ r.tty_left_cnt = r0.tty_left_cnt /\ r.line = r0.line
        /\ r.escape_pending = r0.escape_pending
    BY <1>1, <2>1, <2>2 DEF TTYStruct
  <2>4. r0.tty_left_cnt \in 0..MaxCount /\ r0.line \in Seq(Printable \cup {"newline"})
    BY <1>1 DEF TTYStruct
  <2>. QED  BY <2>3, <2>4, Counted
<1>5. PICK c : c = IF r.escape_pending THEN Unescape(r, key) ELSE Plain(r, key)
  OBVIOUS
<1>6. PICK e : e = Edit(c.term, c.ch)
  OBVIOUS
<1>7. /\ at[TTY] = "write"
      /\ \/ /\ tty_table' = [tty_table EXCEPT ![tty] = [r EXCEPT !.escape_pending = TRUE]]
            /\ UNCHANGED at
         \/ /\ c.term.tty_left_cnt = 0
            /\ tty_table' = [tty_table EXCEPT ![tty] = c.term]
            /\ UNCHANGED at
         \/ /\ c.term.tty_left_cnt > 0
            /\ IF Complete(e, c.ch)
               THEN /\ GoTo(TTY, "resume")
                    /\ tty_table' = [tty_table EXCEPT ![tty] =
                                        IF c.newline THEN Put(e, "newline") ELSE e]
               ELSE /\ UNCHANGED at
                    /\ tty_table' = [tty_table EXCEPT ![tty] = e]
  BY <1>1, <1>2, <1>3, <1>5, <1>6 DEF tty_dev_write, Here
<1>8. UNCHANGED at => GoTo(TTY, "write")
  BY <1>7 DEF GoTo, Placed
<1>9. /\ Alike(c.term, r) /\ c.newline \in BOOLEAN /\ (c.newline => c.ch = "Enter")
      /\ \/ c.term.tty_left_cnt = r.tty_left_cnt /\ c.term.line = r.line
         \/ /\ r.tty_left_cnt > 0 /\ c.term.tty_left_cnt = r.tty_left_cnt - 1
            /\ c.term.line # <<>> /\ Last(c.term.line) = "Backslash"
  <2>1. CASE r.escape_pending
    BY <1>4, <1>5, <2>1, UnescapeIs
  <2>2. CASE ~r.escape_pending
    BY <1>4, <1>5, <2>2 DEF Plain, Alike
  <2>. QED  BY <2>1, <2>2
<1>10. CASE /\ tty_table' = [tty_table EXCEPT ![tty] = [r EXCEPT !.escape_pending = TRUE]]
            /\ UNCHANGED at
  <2>1. PICK q : q = [r EXCEPT !.escape_pending = TRUE]
    OBVIOUS
  <2>2. Alike(q, r) /\ q.tty_left_cnt = r.tty_left_cnt /\ q.line = r.line
    BY <1>4, <2>1 DEF Alike, TTYStruct
  <2>3. DevWrites(q, "write")
    BY <1>1, <1>3, <1>4, <1>8, <1>10, <2>1, <2>2 DEF DevWrites
  <2>. QED  BY <2>3
<1>11. CASE /\ c.term.tty_left_cnt = 0
            /\ tty_table' = [tty_table EXCEPT ![tty] = c.term]
            /\ UNCHANGED at
  <2>1. DevWrites(c.term, "write")
    BY <1>1, <1>3, <1>4, <1>8, <1>9, <1>11 DEF DevWrites
  <2>. QED  BY <2>1
<1>12. CASE /\ c.term.tty_left_cnt > 0
            /\ IF Complete(e, c.ch)
               THEN /\ GoTo(TTY, "resume")
                    /\ tty_table' = [tty_table EXCEPT ![tty] =
                                        IF c.newline THEN Put(e, "newline") ELSE e]
               ELSE /\ UNCHANGED at
                    /\ tty_table' = [tty_table EXCEPT ![tty] = e]
  <2>1. c.term \in TTYStruct /\ c.term.tty_left_cnt + Len(c.term.line) <= MaxCount
        /\ r.tty_left_cnt > 0
    BY <1>1, <1>4, <1>9, <1>12 DEF Alike
  <2>2. Alike(e, c.term) /\ (c.ch = "Enter" => e = c.term)
    BY <1>6, <1>12, <2>1, EditIs
  <2>3. Alike(e, r) /\ e \in TTYStruct /\ e.tty_left_cnt \in Nat
    BY <1>4, <1>9, <2>2, AlikeAll, Counted DEF Alike, TTYStruct
  <2>4. CASE Complete(e, c.ch)
    <3>1. PICK q : q = IF c.newline THEN Put(e, "newline") ELSE e
      OBVIOUS
    <3>2. Alike(q, r)
      <4>1. CASE c.newline
        <5>1. e.tty_left_cnt > 0
          BY <1>9, <1>12, <2>2, <4>1
        <5>2. Alike(q, e)
          BY <2>3, <3>1, <4>1, <5>1, PutIs
        <5>. QED  BY <1>4, <2>3, <5>2, AlikeAll
      <4>2. CASE ~c.newline
        BY <2>3, <3>1, <4>2
      <4>. QED  BY <4>1, <4>2
    <3>3. DevWrites(q, "resume")
      BY <1>1, <1>3, <1>4, <1>12, <2>1, <2>4, <3>1, <3>2 DEF DevWrites
    <3>. QED  BY <3>3
  <2>5. CASE ~Complete(e, c.ch)
    <3>1. e.tty_left_cnt # 0
      BY <2>5 DEF Complete
    <3>2. DevWrites(e, "write")
      BY <1>1, <1>3, <1>4, <1>8, <1>12, <2>1, <2>3, <2>5, <3>1 DEF DevWrites
    <3>. QED  BY <3>2
  <2>. QED  BY <2>4, <2>5
<1>. QED  BY <1>7, <1>10, <1>11, <1>12

LEMMA TTYDevWriteKeeps ==
    ASSUME TermInv, tty_dev_write
    PROVE  TermInv'
<1>1. /\ at[TTY] = "write" /\ ~panicked /\ ~Sending(TTY) /\ ~Receiving(TTY)
      /\ tty_table[tty].ibuf # <<>> /\ UNCHANGED <<vars, asked, fs, tty, deskVars>>
  BY HereRuns DEF tty_dev_write
<1>2. TermTypeOK /\ Filled /\ Noticed /\ Placed
  BY <1>1, Known
<1>3. PICK q, loc : DevWrites(q, loc)
  BY <1>2, DevWriteEffect
<1>4. /\ tty_table' = [tty_table EXCEPT ![tty] = q] /\ GoTo(TTY, loc)
      /\ loc \in {"write", "resume"}
      /\ q.tty_left_cnt > 0 \/ loc = "resume" => tty_table[tty].tty_left_cnt > 0
  BY <1>3 DEF DevWrites
<1>5. PICK r \in TTYStruct : /\ r = tty_table[tty] /\ tty \in Terminals
                             /\ r.tty_left_cnt + Len(r.line) <= MaxCount
                             /\ Len(r.ibuf) <= TTY_IN_BYTES
  BY <1>2 DEF TermTypeOK
<1>6. /\ q \in TTYStruct /\ q.tty_procnr = r.tty_procnr /\ q.tty_caller = r.tty_caller
      /\ q.tty_left_cnt + Len(q.line) = r.tty_left_cnt + Len(r.line)
      /\ Len(q.ibuf) <= TTY_IN_BYTES
  <2>1. Alike(q, [r EXCEPT !.ibuf = Tail(r.ibuf)])
    BY <1>3, <1>5 DEF DevWrites
  <2>2. q \in TTYStruct /\ q.ibuf = Tail(r.ibuf) /\ q.tty_procnr = r.tty_procnr
        /\ q.tty_caller = r.tty_caller
        /\ q.tty_left_cnt + Len(q.line) = r.tty_left_cnt + Len(r.line)
    BY <1>5, <2>1 DEF Alike, TTYStruct
  <2>3. Len(Tail(r.ibuf)) <= TTY_IN_BYTES
    <3>1. r.ibuf \in Seq(Keys) /\ r.ibuf # <<>>
      BY <1>1, <1>5 DEF TTYStruct
    <3>2. Len(Tail(r.ibuf)) = Len(r.ibuf) - 1 /\ Len(r.ibuf) \in Nat
      BY <3>1
    <3>. QED  BY <1>5, <3>2, TerminalAssumption
  <2>. QED  BY <2>2, <2>3
<1>7. tty_table' \in [Terminals -> TTYStruct] /\ tty_table'[tty] = q
      /\ \A t \in Terminals : t # tty => tty_table'[t] = tty_table[t]
  BY <1>2, <1>4, <1>5, <1>6 DEF TermTypeOK
<1>8. at'[TTY] = loc /\ UNCHANGED <<asked, tty>>
  BY <1>1, <1>2, <1>4, Names, Goes DEF LocsOf, TTYLocs
<1>9. \A t \in Terminals : Holds(t)' => Holds(t) /\ ReaderOf(t)' = ReaderOf(t)
  BY <1>4, <1>5, <1>6, <1>7, <1>8 DEF Holds, ReaderOf
<1>10. /\ Consistent' /\ NoMissedRendezvous' /\ Placed' /\ TypeOK'
       /\ Talk' /\ Readers' /\ ~panicked' /\ ~Receiving(TTY)'
  BY <1>1, <1>4, <1>9, TTYQuiet DEF TTYHas, TTYLocs
<1>11. TermTypeOK'
  <2>1. \A t \in Terminals : /\ Len(tty_table'[t].ibuf) <= TTY_IN_BYTES
                             /\ tty_table'[t].tty_left_cnt + Len(tty_table'[t].line) <= MaxCount
    BY <1>2, <1>5, <1>6, <1>7 DEF TermTypeOK
  <2>. QED  BY <1>1, <1>2, <1>7, <1>10, <2>1 DEF TermTypeOK, Placed, deskVars
<1>12. Filled'
  <2>1. ASSUME NEW t \in Terminals, Holds(t)'
        PROVE  /\ tty_table'[t].tty_procnr \in Users /\ tty_table'[t].tty_caller = FS
               /\ asked'[tty_table'[t].tty_procnr].op = "READ"
               /\ tty_table'[t].tty_left_cnt + Len(tty_table'[t].line)
                     = asked'[tty_table'[t].tty_procnr].cnt
    <3>1. /\ tty_table[t].tty_procnr \in Users /\ tty_table[t].tty_caller = FS
          /\ asked[tty_table[t].tty_procnr].op = "READ"
          /\ tty_table[t].tty_left_cnt + Len(tty_table[t].line) = asked[tty_table[t].tty_procnr].cnt
      BY <1>2, <1>9, <2>1 DEF Filled
    <3>. QED  BY <1>5, <1>6, <1>7, <1>8, <3>1
  <2>. QED  BY <2>1 DEF Filled
<1>13. Noticed'
  BY <1>1, <1>2, <1>4, <1>8, <1>10 DEF Noticed, Underway, deskVars
<1>. QED  BY <1>10, <1>11, <1>12, <1>13 DEF TermInv, Always

-----------------------------------------------------------------------------
(* TTY: requests                                                           *)

\* TTY answers the request that it has, and has at most registered its reader.
LEMMA TTYReplyKeeps ==
    ASSUME TermInv, Here(TTY, "handle"), TTYHas, NEW b \in Bodies,
           b.type = IF fs.op = "READ" THEN "SUSPEND_PROC" ELSE "SYSCALL_RET",
           msg_send(TTY, FS, b), GoTo(TTY, "read"), UNCHANGED <<asked, fs, tty, deskVars>>,
           tty_table' \in [Terminals -> TTYStruct],
           \A t \in Terminals :
              /\ Len(tty_table'[t].ibuf) <= TTY_IN_BYTES
              /\ tty_table'[t].tty_left_cnt + Len(tty_table'[t].line) <= MaxCount
              /\ \/ tty_table'[t] = tty_table[t]
                 \/ /\ t = TermOf[fs.src] /\ fs.op = "READ"
                    /\ tty_table'[t].tty_procnr = fs.src /\ tty_table'[t].tty_caller = FS
                    /\ tty_table'[t].tty_left_cnt + Len(tty_table'[t].line) = fs.cnt
    PROVE  TermInv'
<1>1. at[TTY] = "handle" /\ ~panicked /\ ~Sending(TTY) /\ ~Receiving(TTY)
  BY HereRuns
<1>2. /\ Consistent /\ NoMissedRendezvous /\ TermTypeOK /\ Placed /\ Filled /\ Noticed
      /\ BlockedFor /\ Requests /\ Conversation /\ Readers
  BY <1>1, Known
<1>3. PICK u \in Users : /\ u = fs.src /\ fs.op \in Calls /\ Served(u)
                         /\ asked[u].op = fs.op /\ asked[u].cnt = fs.cnt
                         /\ FSAwaits /\ ~Sending(FS)
  BY <1>1, TTYHasRequest
<1>4. /\ Consistent' /\ NoMissedRendezvous' /\ Placed' /\ TypeOK'
      /\ at'[TTY] = "read" /\ \A x \in Native : x # TTY => at'[x] = at[x]
      /\ panicked' => ~Receiving(FS)' /\ UNCHANGED <<p_flags, p_recvfrom, p_sendto, buf>>
      /\ ~panicked' => BlockedFor' /\ (Delivered(TTY, FS, b) \/ Queued(TTY, FS, b))
  BY <1>2, Names, SendStep DEF ToSend
<1>5. /\ at'[FS] = at[FS] /\ \A v \in Users : at'[v] = at[v]
      /\ \A v \in Users : Ask(v)' = Ask(v)
      /\ Request' = Request
  BY <1>4, Names DEF Ask, Request
<1>6. ~Receiving(TTY)'
  BY <1>1, <1>4, Names DEF Delivered, Queued, Receiving
<1>7. ASSUME NEW t \in Terminals, Holds(t)'
      PROVE  \/ tty_table'[t] = tty_table[t] /\ Holds(t)
             \/ /\ t = TermOf[u] /\ fs.op = "READ"
                /\ tty_table'[t].tty_procnr = u /\ tty_table'[t].tty_caller = FS
                /\ tty_table'[t].tty_left_cnt + Len(tty_table'[t].line) = fs.cnt
  BY <1>3, <1>4, <1>7 DEF Holds
<1>8. Always'
  <2>1. TermTypeOK'
    BY <1>2, <1>4 DEF TermTypeOK, Placed, deskVars
  <2>2. Filled'
    <3>1. ASSUME NEW t \in Terminals, Holds(t)'
          PROVE  /\ tty_table'[t].tty_procnr \in Users /\ tty_table'[t].tty_caller = FS
                 /\ asked'[tty_table'[t].tty_procnr].op = "READ"
                 /\ tty_table'[t].tty_left_cnt + Len(tty_table'[t].line)
                       = asked'[tty_table'[t].tty_procnr].cnt
      <4>1. CASE tty_table'[t] = tty_table[t] /\ Holds(t)
        BY <1>2, <4>1 DEF Filled
      <4>2. CASE /\ t = TermOf[u] /\ fs.op = "READ"
                 /\ tty_table'[t].tty_procnr = u /\ tty_table'[t].tty_caller = FS
                 /\ tty_table'[t].tty_left_cnt + Len(tty_table'[t].line) = fs.cnt
        BY <1>3, <4>2
      <4>. QED  BY <1>7, <3>1, <4>1, <4>2
    <3>. QED  BY <3>1 DEF Filled
  <2>3. Noticed'
    <3>1. tty' = 0 /\ current_console' \in Nat
      BY <1>1, <1>2 DEF Noticed, TermTypeOK, Terminals, deskVars
    <3>. QED  BY <1>4, <1>6, <3>1 DEF Noticed, Underway
  <2>. QED  BY <1>4, <2>1, <2>2, <2>3 DEF Always
<1>9. ASSUME ~panicked'
      PROVE  Requests' /\ Conversation' /\ Readers'
  <2>1. /\ \A x \in Users : (Sending(x)' <=> Sending(x)) /\ (Receiving(x)' <=> Receiving(x))
        /\ (Sending(FS)' <=> Sending(FS))
        /\ \A x \in Users : buf'[x] = buf[x]
        /\ buf'[TTY] = [source |-> TTY, body |-> b]
    BY <1>4, <1>9, Names DEF Delivered, Queued
  <2>2. /\ \A v \in Users : /\ (Served(v)' <=> Served(v))
                            /\ ~Told(v)' /\ ~Telling(v)' /\ ~Answering(v)'
        /\ \A x : ~FSHas(x)'
        /\ ~TTYHas' /\ ~TTYResumes'
    BY <1>3, <1>4, <1>5, <2>1
       DEF Served, Told, Telling, Answering, FSHas, TTYHas, TTYResumes, FSAwaits, Calls
  <2>3. at[FS] \in {"device", "reply"}
    BY <1>3 DEF FSAwaits
  <2>4. Readers'
    <3>1. ASSUME NEW t \in Terminals, Holds(t)'
          PROVE  (/\ Served(ReaderOf(t)) /\ TermOf[ReaderOf(t)] = t
                  /\ ~FSHas(ReaderOf(t)) /\ ~Answering(ReaderOf(t))
                  /\ ~Told(ReaderOf(t)) /\ ~Telling(ReaderOf(t)))'
      <4>1. CASE tty_table'[t] = tty_table[t] /\ Holds(t)
        BY <1>2, <2>2, <4>1 DEF Readers, ReaderOf, Filled
      <4>2. CASE t = TermOf[u] /\ tty_table'[t].tty_procnr = u
        BY <1>3, <2>2, <4>2 DEF ReaderOf
      <4>. QED  BY <1>7, <3>1, <4>1, <4>2
    <3>. QED  BY <2>2, <3>1 DEF Readers
  <2>5. CASE Delivered(TTY, FS, b)
    <3>1. /\ at[FS] = "reply" /\ ~Receiving(FS)' /\ ~Sending(TTY)'
          /\ buf'[FS] = [source |-> TTY, body |-> b]
      <4>1. Receiving(FS) /\ ToReceive(FS, p_recvfrom[FS], at[FS])
        BY <1>2, <2>5, Names DEF Delivered, Accepts, BlockedFor
      <4>. QED  BY <1>1, <2>3, <2>5, <4>1, Names DEF Delivered, ToReceive
    <3>2. ~FSAwaits' /\ ~TTYAnswers'
      BY <1>5, <3>1 DEF FSAwaits, TTYAnswers
    <3>3. Requests'
      BY <1>2, <1>3, <1>5, <2>1, <2>2, <3>1 DEF Requests
    <3>4. Conversation'
      BY <1>4, <1>5, <2>2, <3>1, <3>2 DEF Conversation
    <3>. QED  BY <2>4, <3>3, <3>4
  <2>6. CASE Queued(TTY, FS, b)
    <3>1. Sending(TTY)' /\ (Receiving(FS)' <=> Receiving(FS)) /\ buf'[FS] = buf[FS]
      BY <2>6, Names DEF Queued
    <3>2. FSAwaits' /\ TTYAnswers'
      BY <1>3, <1>4, <1>5, <2>1, <3>1 DEF FSAwaits, TTYAnswers
    <3>3. Requests'
      BY <1>2, <1>3, <1>5, <2>1, <2>2, <3>1 DEF Requests
    <3>4. Conversation'
      BY <1>3, <1>4, <1>5, <2>1, <2>2, <3>1, <3>2 DEF Conversation, FSAwaits
    <3>. QED  BY <2>4, <3>3, <3>4
  <2>. QED  BY <1>4, <1>9, <2>5, <2>6
<1>. QED  BY <1>4, <1>8, <1>9 DEF TermInv, Talk

\* Whatever TTY handles but an interrupt is FS's request.
LEMMA TTYHandlesRequest ==
    ASSUME TermInv, NEW request, request # "HARD_INT", TTYHandles(request)
    PROVE  /\ Here(TTY, "handle") /\ at[TTY] = "handle" /\ ~panicked /\ TTYHas
           /\ buf[TTY].source = FS /\ buf[TTY].body = Request /\ Request.type = request
           /\ fs.src \in Users /\ fs.op \in Calls
<1>1. at[TTY] = "handle" /\ ~panicked /\ ~Receiving(TTY) /\ buf[TTY].body.type = request
  BY HereRuns DEF TTYHandles
<1>2. TTYHas
  <2>1. buf[TTY] # IntMsg
    BY <1>1, MessagesAssumption DEF IntMsg
  <2>. QED  BY <1>1, <2>1, Known DEF Conversation
<1>. QED  BY <1>1, <1>2, TTYHasRequest DEF TTYHandles

LEMMA TTYOpenKeeps ==
    ASSUME TermInv, tty_do_open
    PROVE  TermInv'
<1>1. /\ Here(TTY, "handle") /\ ~panicked /\ TTYHas /\ Request.type = "DEV_OPEN"
      /\ fs.src \in Users /\ fs.op \in Calls
      /\ msg_send(TTY, FS, Body("SYSCALL_RET", 0, NO_TASK, 0))
      /\ GoTo(TTY, "read") /\ UNCHANGED <<asked, fs, tty, tty_table, deskVars>>
  BY TTYHandlesRequest DEF tty_do_open
<1>2. TermTypeOK
  BY <1>1, Known
<1>3. fs.op # "READ"
  BY <1>1, <1>2, RequestFits
<1>4. PICK b \in Bodies : b.type = "SYSCALL_RET" /\ msg_send(TTY, FS, b)
  <2>1. "SYSCALL_RET" \in Sent /\ 0 \in Terminals /\ 0 \in 0..MaxCount
    BY Counted DEF Sent
  <2>. QED  BY <1>1, <2>1, Fits
<1>5. /\ tty_table' \in [Terminals -> TTYStruct]
      /\ \A t \in Terminals :
            /\ Len(tty_table'[t].ibuf) <= TTY_IN_BYTES
            /\ tty_table'[t].tty_left_cnt + Len(tty_table'[t].line) <= MaxCount
            /\ tty_table'[t] = tty_table[t]
  BY <1>1, <1>2 DEF TermTypeOK
<1>. QED  BY <1>1, <1>3, <1>4, <1>5, TTYReplyKeeps

\* The request with another type is a message too.
LEMMA Retyped ==
    ASSUME TermTypeOK, fs.src \in Users, fs.op \in Calls, NEW type \in Sent
    PROVE  [Request EXCEPT !.type = type] \in Bodies
           /\ [Request EXCEPT !.type = type].type = type
<1>1. [Request EXCEPT !.type = type] = Body(type, TermOf[fs.src], fs.src, fs.cnt)
  BY DEF Request, Body
<1>2. TermOf[fs.src] \in Terminals /\ fs.cnt \in 0..MaxCount
  BY RequestFits
<1>. QED  BY <1>1, <1>2, Fits

LEMMA TTYWriteKeeps ==
    ASSUME TermInv, tty_do_write
    PROVE  TermInv'
<1>1. /\ Here(TTY, "handle") /\ ~panicked /\ TTYHas /\ Request.type = "DEV_WRITE"
      /\ fs.src \in Users /\ fs.op \in Calls
      /\ msg_send(TTY, FS, [Request EXCEPT !.type = "SYSCALL_RET"])
      /\ GoTo(TTY, "read") /\ UNCHANGED <<asked, fs, tty, tty_table, deskVars>>
  BY TTYHandlesRequest DEF tty_do_write
<1>2. TermTypeOK
  BY <1>1, Known
<1>3. fs.op # "READ"
  BY <1>1, <1>2, RequestFits
<1>4. PICK b \in Bodies : b.type = "SYSCALL_RET" /\ msg_send(TTY, FS, b)
  BY <1>1, <1>2, Retyped DEF Sent
<1>5. /\ tty_table' \in [Terminals -> TTYStruct]
      /\ \A t \in Terminals :
            /\ Len(tty_table'[t].ibuf) <= TTY_IN_BYTES
            /\ tty_table'[t].tty_left_cnt + Len(tty_table'[t].line) <= MaxCount
            /\ tty_table'[t] = tty_table[t]
  BY <1>1, <1>2 DEF TermTypeOK
<1>. QED  BY <1>1, <1>3, <1>4, <1>5, TTYReplyKeeps

\* What registering a reader makes of its terminal.
LEMMA RegisteredIs ==
    ASSUME NEW r \in TTYStruct, NEW m, m.nr \in Users, m.cnt \in 0..MaxCount
    PROVE  LET q == Registered(r, FS, m)
           IN  /\ q \in TTYStruct /\ q.ibuf = r.ibuf
               /\ q.tty_procnr = m.nr /\ q.tty_caller = FS /\ q.tty_left_cnt = m.cnt
               /\ q.line = <<>> /\ q.tty_left_cnt + Len(q.line) = m.cnt
<1>. DEFINE q == Registered(r, FS, m)
<1>1. /\ q \in TTYStruct /\ q.ibuf = r.ibuf
      /\ q.tty_procnr = m.nr /\ q.tty_caller = FS /\ q.tty_left_cnt = m.cnt /\ q.line = <<>>
  <2>1. q = [r EXCEPT !.tty_caller = FS, !.tty_procnr = m.nr,
                      !.tty_left_cnt = m.cnt, !.line = <<>>]
    BY DEF Registered
  <2>2. <<>> \in Seq(Printable \cup {"newline"})
    OBVIOUS
  <2>. HIDE DEF q
  <2>. QED  BY <2>1, <2>2 DEF TTYStruct
<1>2. q.tty_left_cnt + Len(q.line) = m.cnt
  BY <1>1, Counted
<1>. QED  BY <1>1, <1>2

LEMMA TTYReadKeeps ==
    ASSUME TermInv, tty_do_read
    PROVE  TermInv'
<1>1. /\ Here(TTY, "handle") /\ ~panicked /\ TTYHas /\ Request.type = "DEV_READ"
      /\ fs.src \in Users /\ fs.op \in Calls
      /\ tty_table' = [tty_table EXCEPT ![Request.dev] = Registered(@, FS, Request)]
      /\ msg_send(TTY, FS, [Request EXCEPT !.type = "SUSPEND_PROC"])
      /\ GoTo(TTY, "read") /\ UNCHANGED <<asked, fs, tty, deskVars>>
  BY TTYHandlesRequest DEF tty_do_read
<1>2. TermTypeOK
  BY <1>1, Known
<1>3. /\ fs.op = "READ" /\ Request.dev = TermOf[fs.src] /\ TermOf[fs.src] \in Terminals
      /\ Request.nr = fs.src /\ Request.cnt = fs.cnt /\ fs.cnt \in 0..MaxCount
  BY <1>1, <1>2, RequestFits
<1>4. PICK b \in Bodies : b.type = "SUSPEND_PROC" /\ msg_send(TTY, FS, b)
  BY <1>1, <1>2, Retyped DEF Sent
<1>5. PICK r \in TTYStruct : /\ r = tty_table[TermOf[fs.src]] /\ Len(r.ibuf) <= TTY_IN_BYTES
  BY <1>2, <1>3 DEF TermTypeOK
<1>6. PICK q \in TTYStruct :
            /\ q = Registered(r, FS, Request) /\ Len(q.ibuf) <= TTY_IN_BYTES
            /\ q.tty_procnr = fs.src /\ q.tty_caller = FS
            /\ q.tty_left_cnt + Len(q.line) = fs.cnt
  BY <1>1, <1>3, <1>5, RegisteredIs
<1>7. tty_table' = [tty_table EXCEPT ![TermOf[fs.src]] = q]
  BY <1>1, <1>3, <1>5, <1>6
<1>8. tty_table' \in [Terminals -> TTYStruct]
      /\ \A t \in Terminals : tty_table'[t] = IF t = TermOf[fs.src] THEN q ELSE tty_table[t]
  BY <1>2, <1>3, <1>7 DEF TermTypeOK
<1>9. \A t \in Terminals :
            /\ Len(tty_table'[t].ibuf) <= TTY_IN_BYTES
            /\ tty_table'[t].tty_left_cnt + Len(tty_table'[t].line) <= MaxCount
            /\ \/ tty_table'[t] = tty_table[t]
               \/ /\ t = TermOf[fs.src] /\ fs.op = "READ"
                  /\ tty_table'[t].tty_procnr = fs.src /\ tty_table'[t].tty_caller = FS
                  /\ tty_table'[t].tty_left_cnt + Len(tty_table'[t].line) = fs.cnt
  BY <1>2, <1>3, <1>6, <1>8, Counted DEF TermTypeOK
<1>. QED  BY <1>1, <1>3, <1>4, <1>8, <1>9, TTYReplyKeeps

\* TTY has FS resume the reader of its terminal, and forgets it.
LEMMA TTYResumeKeeps ==
    ASSUME TermInv, tty_resume
    PROVE  TermInv'
<1>1. /\ at[TTY] = "resume" /\ ~panicked /\ ~Sending(TTY) /\ ~Receiving(TTY)
      /\ msg_send(TTY, tty_table[tty].tty_caller,
                  Body("RESUME_PROC", 0, tty_table[tty].tty_procnr, Len(tty_table[tty].line)))
      /\ tty_table' = [tty_table EXCEPT ![tty].tty_left_cnt = 0]
      /\ GoTo(TTY, "write") /\ UNCHANGED <<asked, fs, tty, deskVars>>
  BY HereRuns DEF tty_resume
<1>2. /\ Consistent /\ NoMissedRendezvous /\ TermTypeOK /\ Placed /\ Filled /\ Noticed
      /\ BlockedFor /\ Requests /\ Conversation /\ Readers
  BY <1>1, Known
<1>3. tty \in Terminals /\ Holds(tty)
  BY <1>1, <1>2 DEF TermTypeOK, Holds
<1>4. PICK r \in TTYStruct : r = tty_table[tty] /\ Len(r.ibuf) <= TTY_IN_BYTES
  BY <1>2, <1>3 DEF TermTypeOK
<1>5. PICK u \in Users : /\ u = r.tty_procnr /\ r.tty_caller = FS /\ asked[u].op = "READ"
                         /\ r.tty_left_cnt + Len(r.line) = asked[u].cnt
                         /\ TermOf[u] = tty /\ Served(u) /\ ~FSHas(u) /\ ~Answering(u)
                         /\ ~Told(u) /\ ~Telling(u)
  BY <1>2, <1>3, <1>4 DEF Filled, Readers, ReaderOf
<1>6. Len(r.line) \in 0..MaxCount
  <2>1. /\ r.tty_left_cnt \in 0..MaxCount /\ r.line \in Seq(Printable \cup {"newline"})
        /\ asked[u].cnt \in 0..MaxCount /\ MaxCount \in Nat
    BY <1>2, AskFits, Counted DEF TTYStruct
  <2>2. Len(r.line) \in Nat
    BY <2>1
  <2>. QED  BY <1>5, <2>1, <2>2
<1>7. PICK b \in Bodies : b.nr = u /\ Resumes(b) /\ msg_send(TTY, FS, b)
  <2>1. PICK b : b = Body("RESUME_PROC", 0, u, Len(r.line))
    OBVIOUS
  <2>2. b \in Bodies /\ b.nr = u
    BY <1>6, <2>1, Fits, Counted DEF Sent
  <2>. QED  BY <1>1, <1>4, <1>5, <1>6, <2>1, <2>2 DEF Resumes
<1>8. /\ Consistent' /\ NoMissedRendezvous' /\ Placed' /\ TypeOK'
      /\ at'[TTY] = "write" /\ \A x \in Native : x # TTY => at'[x] = at[x]
      /\ panicked' => ~Receiving(FS)' /\ UNCHANGED <<p_flags, p_recvfrom, p_sendto, buf>>
      /\ ~panicked' => BlockedFor' /\ (Delivered(TTY, FS, b) \/ Queued(TTY, FS, b))
  BY <1>1, <1>2, <1>7, Names, SendStep DEF ToSend
<1>9. /\ at'[FS] = at[FS] /\ \A v \in Users : at'[v] = at[v]
      /\ \A v \in Users : Ask(v)' = Ask(v)
      /\ Request' = Request
  BY <1>1, <1>8, Names DEF Ask, Request
<1>10. ~Receiving(TTY)'
  BY <1>1, <1>8, Names DEF Delivered, Queued, Receiving
<1>11. PICK q \in TTYStruct : /\ tty_table' = [tty_table EXCEPT ![tty] = q]
                              /\ q.ibuf = r.ibuf /\ q.line = r.line /\ q.tty_left_cnt = 0
  <2>1. PICK q : q = [r EXCEPT !.tty_left_cnt = 0]
    OBVIOUS
  <2>2. q \in TTYStruct /\ q.ibuf = r.ibuf /\ q.line = r.line /\ q.tty_left_cnt = 0
    BY <1>4, <2>1, Counted DEF TTYStruct
  <2>3. tty_table' = [tty_table EXCEPT ![tty] = q]
    BY <1>1, <1>4, <2>1
  <2>. QED  BY <2>2, <2>3
<1>12. /\ tty_table' \in [Terminals -> TTYStruct] /\ tty_table'[tty] = q
       /\ \A t \in Terminals : t # tty => tty_table'[t] = tty_table[t]
  BY <1>2, <1>3, <1>11 DEF TermTypeOK
<1>13. \A t \in Terminals : Holds(t)' => t # tty /\ Holds(t) /\ ReaderOf(t)' = ReaderOf(t)
  BY <1>1, <1>8, <1>11, <1>12 DEF Holds, ReaderOf
<1>14. Always'
  <2>1. TermTypeOK'
    <3>1. \A t \in Terminals : /\ Len(tty_table'[t].ibuf) <= TTY_IN_BYTES
                               /\ tty_table'[t].tty_left_cnt + Len(tty_table'[t].line) <= MaxCount
      BY <1>2, <1>4, <1>6, <1>11, <1>12 DEF TermTypeOK
    <3>. QED  BY <1>1, <1>2, <1>8, <1>12, <3>1 DEF TermTypeOK, Placed, deskVars
  <2>2. Filled'
    BY <1>1, <1>2, <1>12, <1>13 DEF Filled
  <2>3. Noticed'
    BY <1>1, <1>2, <1>8, <1>10 DEF Noticed, Underway, deskVars
  <2>. QED  BY <1>8, <2>1, <2>2, <2>3 DEF Always
<1>15. ASSUME ~panicked'
       PROVE  Requests' /\ Conversation' /\ Readers'
  <2>1. /\ \A x \in Users : (Sending(x)' <=> Sending(x)) /\ (Receiving(x)' <=> Receiving(x))
        /\ (Sending(FS)' <=> Sending(FS)) /\ p_sendto'[FS] = p_sendto[FS]
        /\ \A x \in Users : buf'[x] = buf[x]
        /\ buf'[TTY] = [source |-> TTY, body |-> b]
    BY <1>8, <1>15, Names DEF Delivered, Queued
  <2>2. /\ \A v \in Users : (Served(v)' <=> Served(v)) /\ (Answering(v)' <=> Answering(v))
        /\ ~TTYHas /\ ~TTYHas' /\ ~TTYAnswers /\ ~TTYAnswers' /\ ~FSAwaits
        /\ \A v \in Users : ~Telling(v)
    BY <1>1, <1>2, <1>8, <1>9, <2>1
       DEF Served, Answering, TTYHas, TTYAnswers, Conversation, Telling, TTYResumes
  <2>3. ASSUME NEW t \in Terminals, Holds(t)'
        PROVE  Holds(t) /\ ReaderOf(t)' = ReaderOf(t) /\ ReaderOf(t) \in Users /\ ReaderOf(t) # u
    <3>1. t # tty /\ Holds(t) /\ ReaderOf(t)' = ReaderOf(t)
      BY <1>13, <2>3
    <3>2. TermOf[ReaderOf(t)] = t /\ ReaderOf(t) \in Users
      BY <1>2, <3>1 DEF Readers, Filled, ReaderOf
    <3>. QED  BY <1>5, <3>1, <3>2
  <2>4. CASE Delivered(TTY, FS, b)
    <3>1. Receiving(FS) /\ ToReceive(FS, p_recvfrom[FS], at[FS])
      BY <1>2, <2>4, Names DEF Delivered, Accepts, BlockedFor
    <3>2. /\ at[FS] = "handle" /\ ~Receiving(FS)' /\ ~Sending(TTY)'
          /\ buf'[FS] = [source |-> TTY, body |-> b]
      BY <1>1, <2>2, <2>4, <3>1, Names DEF Delivered, ToReceive, FSAwaits
    <3>3. /\ FSHas(TTY)' /\ ~FSAwaits' /\ ~TTYResumes'
          /\ \A v \in Users : /\ ~FSHas(v)' /\ ~FSHas(v) /\ ~Answering(v)' /\ ~Telling(v)'
                              /\ (Told(v)' <=> v = u)
      BY <1>7, <1>9, <3>1, <3>2, Names DEF FSHas, FSAwaits, TTYResumes, Answering, Telling, Told
    <3>4. Requests'
      BY <1>2, <1>7, <1>9, <2>1, <2>2, <3>2, <3>3 DEF Requests
    <3>5. Conversation'
      BY <1>8, <1>9, <2>2, <3>2, <3>3 DEF Conversation
    <3>6. Readers'
      BY <1>1, <1>2, <1>5, <2>2, <2>3, <3>3 DEF Readers
    <3>. QED  BY <3>4, <3>5, <3>6
  <2>5. CASE Queued(TTY, FS, b)
    <3>1. Sending(TTY)' /\ (Receiving(FS)' <=> Receiving(FS)) /\ buf'[FS] = buf[FS]
      BY <2>5, Names DEF Queued
    <3>2. /\ TTYResumes' /\ ~FSAwaits'
          /\ \A x : FSHas(x)' <=> FSHas(x)
          /\ \A v \in Users : (Told(v)' <=> Told(v)) /\ (Telling(v)' <=> v = u)
      BY <1>1, <1>7, <1>8, <1>9, <2>1, <2>2, <3>1 DEF TTYResumes, FSAwaits, FSHas, Told, Telling
    <3>3. Requests'
      BY <1>1, <1>2, <1>9, <2>1, <2>2, <3>1, <3>2 DEF Requests
    <3>4. Conversation'
      BY <1>1, <1>2, <1>7, <1>8, <1>9, <2>1, <2>2, <3>1, <3>2 DEF Conversation
    <3>5. Readers'
      BY <1>1, <1>2, <1>5, <2>2, <2>3, <3>2 DEF Readers
    <3>. QED  BY <3>3, <3>4, <3>5
  <2>. QED  BY <1>8, <1>15, <2>4, <2>5
<1>. QED  BY <1>8, <1>14, <1>15 DEF TermInv, Talk

LEMMA TTYReceiveKeeps ==
    ASSUME TermInv, tty_receive
    PROVE  TermInv'
<1>1. /\ at[TTY] = "receive" /\ ~panicked /\ ~Sending(TTY) /\ ~Receiving(TTY)
      /\ msg_receive(TTY, ANY) /\ GoTo(TTY, "handle")
      /\ UNCHANGED <<asked, fs, tty, tty_table, deskVars>>
  BY HereRuns DEF tty_receive
<1>2. /\ Consistent /\ NoMissedRendezvous /\ TermTypeOK /\ Placed /\ Filled /\ Noticed
      /\ BlockedFor /\ Requests /\ Conversation /\ Readers
  BY <1>1, Known
<1>3. /\ Consistent' /\ NoMissedRendezvous' /\ Placed' /\ TypeOK'
      /\ at'[TTY] = "handle" /\ \A x \in Native : x # TTY => at'[x] = at[x]
      /\ ~panicked' /\ BlockedFor'
      /\ \/ TookInt(TTY, ANY) \/ Waits(TTY, ANY)
         \/ \E from \in {TTY, FS} \cup Users :
               from # TTY /\ Took(TTY, ANY, from) /\ ToSend(from, TTY, at[from])
               /\ buf[from].source = from
  BY <1>1, <1>2, Names, ReceiveStep DEF ToReceive, Sources
<1>4. \/ TookInt(TTY, ANY) \/ Waits(TTY, ANY)
      \/ Took(TTY, ANY, FS) /\ at[FS] = "device" /\ buf[FS].source = FS
  BY <1>3, Names DEF ToSend
<1>5. /\ at'[FS] = at[FS] /\ \A v \in Users : at'[v] = at[v]
      /\ \A v \in Users : Ask(v)' = Ask(v)
      /\ Request' = Request
  BY <1>1, <1>3, Names DEF Ask, Request
<1>6. /\ \A x \in {FS} \cup Users : (Receiving(x)' <=> Receiving(x)) /\ buf'[x] = buf[x]
      /\ \A x \in {TTY} \cup Users : Sending(x)' <=> Sending(x)
      /\ Sending(FS)' => Sending(FS) /\ p_sendto'[FS] = p_sendto[FS]
  BY <1>4, Names DEF TookInt, Waits, Took, Sending, Receiving
<1>7. \A t \in Terminals : (Holds(t)' <=> Holds(t)) /\ ReaderOf(t)' = ReaderOf(t)
  BY <1>1, <1>3 DEF Holds, ReaderOf
<1>8. Always'
  <2>1. TermTypeOK' /\ Filled'
    BY <1>1, <1>2, <1>3, <1>7 DEF TermTypeOK, Placed, Filled, deskVars
  <2>2. Noticed'
    BY <1>1, <1>2, <1>3 DEF Noticed, Underway, deskVars
  <2>. QED  BY <1>3, <2>1, <2>2 DEF Always
<1>9. at[FS] # "device" => (Sending(FS)' <=> Sending(FS))
  BY <1>4, Names DEF TookInt, Waits, Sending
<1>10. /\ \A x : FSHas(x)' <=> FSHas(x)
       /\ \A v \in Users : /\ (Served(v)' <=> Served(v)) /\ (Answering(v)' <=> Answering(v))
                           /\ (Told(v)' <=> Told(v)) /\ ~Telling(v) /\ ~Telling(v)'
       /\ ~TTYHas /\ ~TTYAnswers /\ ~TTYAnswers' /\ ~TTYResumes' /\ ~FSAwaits
  BY <1>1, <1>2, <1>3, <1>5, <1>6, <1>9
     DEF FSHas, Served, Answering, Told, Telling, TTYHas, TTYAnswers, TTYResumes, FSAwaits,
         Conversation
<1>11. Requests'
  BY <1>1, <1>2, <1>5, <1>6, <1>10 DEF Requests
<1>12. Readers'
  BY <1>1, <1>2, <1>7, <1>10 DEF Readers, Filled, ReaderOf
<1>13. Conversation'
  <2>1. CASE TookInt(TTY, ANY)
    <3>1. buf'[TTY] = IntMsg /\ (Sending(FS)' <=> Sending(FS)) /\ IntMsg.source # FS
      BY <2>1, Names DEF TookInt, IntMsg, Sending
    <3>2. ~TTYHas' /\ ~FSAwaits'
      BY <1>5, <1>6, <1>10, <3>1 DEF TTYHas, FSAwaits
    <3>. QED  BY <1>1, <1>2, <1>5, <1>6, <1>10, <3>1, <3>2 DEF Conversation
  <2>2. CASE Waits(TTY, ANY)
    <3>1. Receiving(TTY)' /\ (Sending(FS)' <=> Sending(FS))
      BY <2>2, Names DEF Waits
    <3>2. ~TTYHas' /\ ~FSAwaits'
      BY <1>5, <1>6, <1>10, <3>1 DEF TTYHas, FSAwaits
    <3>. QED  BY <1>1, <1>2, <1>5, <1>6, <1>10, <3>1, <3>2 DEF Conversation
  <2>3. CASE Took(TTY, ANY, FS) /\ at[FS] = "device" /\ buf[FS].source = FS
    <3>1. /\ buf'[TTY] = buf[FS] /\ ~Sending(FS)' /\ Sending(FS) /\ ~Receiving(TTY)'
      BY <1>1, <2>3, Names DEF Took
    <3>2. TTYHas' /\ FSAwaits' /\ buf'[TTY].body = Request
      BY <1>2, <1>3, <1>5, <2>3, <3>1 DEF TTYHas, FSAwaits, Requests
    <3>. QED  BY <1>5, <1>10, <2>3, <3>1, <3>2 DEF Conversation
  <2>. QED  BY <1>4, <2>1, <2>2, <2>3
<1>. QED  BY <1>3, <1>8, <1>11, <1>12, <1>13 DEF TermInv, Talk

-----------------------------------------------------------------------------
(* The theorems                                                            *)

LEMMA TermInitHolds == TermInit => TermInv
<1>. SUFFICES ASSUME TermInit  PROVE TermInv
  OBVIOUS
<1>1. /\ Consistent /\ NoMissedRendezvous /\ ~panicked
      /\ \A p \in Procs : ~Sending(p) /\ ~Receiving(p) /\ ~has_int_msg[p]
  <2>1. Init
    BY DEF TermInit
  <2>2. \A p \in Procs : p_flags[p] \in {{}, {"FREE_SLOT"}}
    BY <2>1 DEF Init
  <2>3. ~panicked /\ \A p \in Procs : ~has_int_msg[p]
    BY <2>1 DEF Init
  <2>. QED  BY <2>1, <2>2, <2>3, InitConsistent DEF Sending, Receiving, NoMissedRendezvous
<1>2. /\ asked = [u \in Users |-> [op |-> "OPEN", cnt |-> 0]] /\ fs = FSIdle
      /\ kb_in = <<>> /\ key_pressed = FALSE /\ current_console = 0 /\ tty = 0
      /\ tty_table = [t \in Terminals |-> init_tty] /\ typed = 0
  BY DEF TermInit
<1>3. /\ at \in [Native -> Locs] /\ at[TTY] = "read" /\ at[FS] = "loop"
      /\ \A u \in Users : at[u] = "run"
  <2>1. at = [p \in Native |-> CASE p = TTY -> "read" [] p = FS -> "loop" [] OTHER -> "run"]
    BY DEF TermInit
  <2>. QED  BY <2>1, Names DEF Locs, TTYLocs, FSLocs
<1>4. Placed
  BY <1>3 DEF Placed, TTYLocs, FSLocs
<1>5. TermTypeOK
  <2>1. init_tty \in TTYStruct /\ init_tty.ibuf = <<>> /\ init_tty.line = <<>>
        /\ init_tty.tty_left_cnt = 0
    BY Counted DEF init_tty, TTYStruct
  <2>2. /\ tty_table \in [Terminals -> TTYStruct]
        /\ \A t \in Terminals : /\ Len(tty_table[t].ibuf) <= TTY_IN_BYTES
                                /\ tty_table[t].tty_left_cnt + Len(tty_table[t].line) <= MaxCount
    BY <1>2, <2>1, Counted, TerminalAssumption
  <2>3. /\ asked \in [Users -> [op : {"OPEN", "READ", "WRITE"}, cnt : 0..MaxCount]]
        /\ fs \in [src : Users \cup {NO_TASK}, cnt : 0..MaxCount,
                   op : {"OPEN", "READ", "WRITE", "RESUME_PROC"}]
    BY <1>2, Counted DEF FSIdle
  <2>4. kb_in \in Seq(Keys) /\ Len(kb_in) <= KB_IN_BYTES /\ typed \in 0..MaxKeys
    BY <1>2, TerminalAssumption
  <2>. QED  BY <1>1, <1>2, <1>3, <2>2, <2>3, <2>4, Counted DEF TermTypeOK, Consistent
<1>6. \A t \in Terminals : ~Holds(t)
  BY <1>2, <1>3, Counted DEF Holds, init_tty
<1>7. Filled /\ Noticed
  BY <1>1, <1>2, <1>3, <1>6, Names DEF Filled, Noticed
<1>8. BlockedFor
  BY <1>1 DEF BlockedFor
<1>9. /\ \A x : ~FSHas(x)
      /\ ~FSAwaits /\ ~TTYHas /\ ~TTYAnswers /\ ~TTYResumes
      /\ \A u \in Users : ~Answering(u) /\ ~Told(u) /\ ~Telling(u)
  BY <1>1, <1>3, Names DEF FSHas, FSAwaits, TTYHas, TTYAnswers, TTYResumes, Answering, Told, Telling
<1>10. Requests /\ Conversation /\ Readers
  BY <1>1, <1>3, <1>6, <1>9, Names DEF Requests, Conversation, Readers
<1>. QED  BY <1>1, <1>4, <1>5, <1>7, <1>8, <1>10 DEF TermInv, Always, Talk

LEMMA TermIdle ==
    ASSUME TermInv, UNCHANGED allVars
    PROVE  TermInv'
<1>1. /\ UNCHANGED vars /\ \A x : (Sending(x)' <=> Sending(x)) /\ (Receiving(x)' <=> Receiving(x))
      /\ UNCHANGED <<at, asked, fs, kb_in, key_pressed, current_console, tty, tty_table, typed>>
      /\ UNCHANGED <<buf, p_sendto, p_recvfrom, has_int_msg, panicked>>
  BY DEF allVars, termVars, vars, Sending, Receiving
<1>2. Consistent' /\ NoMissedRendezvous' /\ TypeOK'
  BY <1>1, Stays DEF TermInv, Always
<1>3. TermTypeOK' /\ Placed' /\ Filled' /\ Noticed'
  BY <1>1, <1>2 DEF TermInv, Always, TermTypeOK, Placed, Filled, Holds, Noticed, Underway
<1>4. /\ \A v \in Users : (Served(v)' <=> Served(v)) /\ (Told(v)' <=> Told(v)) /\ (Ask(v)' = Ask(v))
                          /\ (Telling(v)' <=> Telling(v)) /\ (Answering(v)' <=> Answering(v))
      /\ \A x : FSHas(x)' <=> FSHas(x)
      /\ (TTYHas' <=> TTYHas) /\ (TTYAnswers' <=> TTYAnswers) /\ (TTYResumes' <=> TTYResumes)
      /\ (FSAwaits' <=> FSAwaits) /\ Request' = Request
      /\ \A t \in Terminals : Holds(t)' = Holds(t) /\ ReaderOf(t)' = ReaderOf(t)
  BY <1>1 DEF Served, Told, Telling, Answering, FSHas, TTYHas, TTYAnswers, TTYResumes,
              FSAwaits, Request, Ask, Holds, ReaderOf
<1>5. ASSUME ~panicked
      PROVE  BlockedFor' /\ Requests' /\ Conversation' /\ Readers'
  <2>1. BlockedFor' /\ Requests' /\ Conversation'
    BY <1>1, <1>4, <1>5, Known DEF BlockedFor, Requests, Conversation
  <2>2. Readers'
    BY <1>1, <1>4, <1>5, Known DEF Readers, Filled, ReaderOf
  <2>. QED  BY <2>1, <2>2
<1>. QED  BY <1>1, <1>2, <1>3, <1>5 DEF TermInv, Always, Talk

\* What FS passes on to TTY.
LEMMA Asks ==
    FSStep <=> \/ FSTake \/ FSHears \/ FSResumes \/ FSReplies
               \/ \E op \in Calls : FSAsks(op, DevOf(op))
BY DEF FSStep, Calls, DevOf

\* What programs ask for.
LEMMA Calling ==
    ASSUME NEW u \in Users
    PROVE  /\ Call(u, "OPEN", 0) \/ Call(u, "WRITE", 1)
              \/ (\E cnt \in Counts : Call(u, "READ", cnt))
           => \E op \in Calls, cnt \in 0..MaxCount : Call(u, op, cnt)
<1>1. 0 \in 0..MaxCount /\ 1 \in 0..MaxCount /\ \A cnt \in Counts : cnt \in 0..MaxCount
  BY Counted
<1>. QED  BY <1>1 DEF Calls

LEMMA TermStepKeeps ==
    ASSUME TermInv, [TermNext]_allVars
    PROVE  TermInv'
<1>1. ASSUME NEW u \in Users, NEW op \in Calls, NEW cnt \in 0..MaxCount, Call(u, op, cnt)
      PROVE  TermInv'
  BY <1>1, CallKeeps
<1>2. ASSUME NEW u \in Users, Await(u)  PROVE TermInv'
  BY <1>2, AwaitKeeps
<1>3. ASSUME FSStep  PROVE TermInv'
  BY <1>3, Asks, FSTakeKeeps, FSHearsKeeps, FSResumesKeeps, FSRepliesKeeps, FSAsksKeeps
<1>4. ASSUME TTYStep  PROVE TermInv'
  BY <1>4, TTYDevReadKeeps, KeyboardReadKeeps, KeyboardEmptyKeeps, TTYDevWriteKeeps,
     TTYResumeKeeps, TTYNextKeeps, TTYReceiveKeeps, TTYHardIntKeeps, TTYOpenKeeps,
     TTYReadKeeps, TTYWriteKeeps DEF TTYStep
<1>5. ASSUME clock_handler  PROVE TermInv'
  BY <1>5, ClockHandlerKeeps
<1>6. ASSUME NEW key \in Keys, keyboard_handler(key)  PROVE TermInv'
  BY <1>6, KeyboardHandlerKeeps
<1>7. ASSUME UNCHANGED allVars  PROVE TermInv'
  BY <1>7, TermIdle
<1>8. ASSUME NEW u \in Users, Call(u, "OPEN", 0) \/ Call(u, "WRITE", 1)
                                \/ (\E cnt \in Counts : Call(u, "READ", cnt))
      PROVE  TermInv'
  BY <1>1, <1>8, Calling
<1>. QED  BY <1>2, <1>3, <1>4, <1>5, <1>6, <1>7, <1>8 DEF TermNext

\* The invariant holds in every state, one in which the machine has stopped
\* included, for programs that share terminals as well.
THEOREM TermInvariant == TermSpec => []TermInv
<1>1. TermInit => TermInv
  BY TermInitHolds
<1>2. TermInv /\ [TermNext]_allVars => TermInv'
  BY TermStepKeeps
<1>. QED  BY <1>1, <1>2, PTL DEF TermSpec

\* A key that has been pressed is noticed: while TTY waits for a message, the
\* clock tells it of a key in the keyboard buffer, whatever the order in which
\* TTY's reset of key_pressed, its round of the terminals, a change of the
\* console and the interrupts came.
THEOREM KeysAlwaysNoticed == TermSpec => []KeysNoticed
<1>1. TermInv => KeysNoticed
  <2>. SUFFICES ASSUME TermInv, kb_in # <<>>, Receiving(TTY)  PROVE key_pressed
    BY DEF KeysNoticed
  <2>1. Noticed
    BY DEF TermInv, Always
  <2>2. at[TTY] = "handle"
    BY <2>1 DEF Noticed
  <2>3. ~Underway
    BY <2>2 DEF Underway
  <2>. QED  BY <2>1, <2>3 DEF Noticed
<1>. QED  BY <1>1, TermInvariant, PTL

\* TTY writes only into the buffer of a program that is still in its read, and
\* never beyond what it asked for, also when programs share a terminal and one
\* takes it over from another.
LEMMA BufferIsReaders == TermInv => BufferOfReader
<1>. SUFFICES ASSUME TermInv, NEW t \in Terminals, tty_table[t].tty_left_cnt > 0
              PROVE  LET r == tty_table[t]
                     IN  /\ r.tty_procnr \in Users
                         /\ Reading(r.tty_procnr)
                         /\ r.tty_left_cnt + Len(r.line) = asked[r.tty_procnr].cnt
  BY DEF BufferOfReader
<1>1. Holds(t)
  BY DEF Holds
<1>2. PICK u : u = tty_table[t].tty_procnr
  OBVIOUS
<1>3. /\ u \in Users /\ asked[u].op = "READ"
      /\ tty_table[t].tty_left_cnt + Len(tty_table[t].line) = asked[u].cnt
  BY <1>1, <1>2 DEF TermInv, Always, Filled
<1>4. ~Here(u, "run")
  <2>. SUFFICES ASSUME Here(u, "run")  PROVE FALSE
    OBVIOUS
  <2>1. at[u] = "run" /\ ~panicked /\ ~Sending(u) /\ ~Receiving(u)
    BY HereRuns
  <2>2. Served(u)
    BY <1>1, <1>2, <2>1, Known DEF Readers, ReaderOf
  <2>. QED  BY <2>1, <2>2 DEF Served
<1>. QED  BY <1>2, <1>3, <1>4 DEF Reading

\* TTY writes only into the buffer of a program that waits for its characters,
\* and room and characters make up what that program asked for, also when
\* programs share a terminal and one takes the other's place.
THEOREM BufferAlwaysOfReader == TermSpec => []BufferOfReader
BY BufferIsReaders, TermInvariant, PTL

-----------------------------------------------------------------------------
(* Programs with terminals of their own: no reader is forgotten            *)

\* The terminal of u, and what u has asked, stay.
SameLine(u) ==
    /\ asked'[u] = asked[u]
    /\ tty_table'[TermOf[u]].line = tty_table[TermOf[u]].line
    /\ tty_table'[TermOf[u]].tty_procnr = tty_table[TermOf[u]].tty_procnr
    /\ tty_table'[TermOf[u]].tty_left_cnt = tty_table[TermOf[u]].tty_left_cnt

\* Nothing starts to be told, and nothing that is being told changes.
NothingNew(u) ==
    /\ Suspends(u)' => Suspends(u)
    /\ Telling(u)' => Telling(u) /\ buf'[TTY] = buf[TTY]
    /\ Told(u)' => Told(u) /\ ToldCount' = ToldCount
    /\ Answering(u)' => Answering(u) /\ buf'[FS] = buf[FS]
    /\ at'[u] = "run" /\ ~Receiving(u)' =>
          at[u] = "run" /\ ~Receiving(u) /\ buf'[u] = buf[u]

LEMMA KeptStays ==
    ASSUME NEW u \in Users, Kept(u), SameLine(u), NothingNew(u),
           Holds(TermOf[u]) => Holds(TermOf[u])'
    PROVE  Kept(u)'
<1>1. asked'[u].op = "READ" => asked'[u].cnt > 0
  BY DEF Kept, SameLine
<1>2. \A cnt : Tells(u, cnt)' <=> Tells(u, cnt)
  BY DEF SameLine, Tells, LineOf
<1>3. (Suspends(u) => Swallowed(u) \/ (ReaderOf(TermOf[u]) = u /\ Holds(TermOf[u])))'
  <2>1. Swallowed(u)' <=> Swallowed(u)
    BY DEF SameLine, Swallowed
  <2>2. ReaderOf(TermOf[u])' = ReaderOf(TermOf[u])
    BY DEF SameLine, ReaderOf
  <2>. QED  BY <2>1, <2>2 DEF Kept, NothingNew
<1>4. (Telling(u) => Tells(u, buf[TTY].body.cnt))'
  BY DEF Kept, NothingNew, SameLine, Tells, LineOf
<1>5. (Told(u) => Tells(u, ToldCount))'
  BY DEF Kept, NothingNew, SameLine, Tells, LineOf
<1>6. (asked[u].op = "READ" /\ Answering(u) => Tells(u, buf[FS].body.cnt))'
  BY DEF Kept, NothingNew, SameLine, Tells, LineOf
<1>7. (asked[u].op = "READ" /\ at[u] = "run" /\ ~Receiving(u) =>
          buf[u].body.type = "SYSCALL_RET" /\ Tells(u, buf[u].body.cnt))'
  BY DEF Kept, NothingNew, SameLine, Tells, LineOf
<1>. QED  BY <1>1, <1>3, <1>4, <1>5, <1>6, <1>7 DEF Kept

\* A reader in the hands of its terminal has nothing else to fear.
LEMMA KeptByTerminal ==
    ASSUME NEW u \in Users, (Served(u) /\ ~Telling(u) /\ ~Told(u) /\ ~Answering(u))',
           (asked[u].op = "READ" => asked[u].cnt > 0)',
           (Suspends(u) => Swallowed(u) \/ (ReaderOf(TermOf[u]) = u /\ Holds(TermOf[u])))'
    PROVE  Kept(u)'
BY DEF Kept, Served

\* Steps without a call leave everything as it is told.
LEMMA QuietKept ==
    ASSUME NEW u \in Users, Kept(u), SameLine(u), UNCHANGED <<p_flags, p_sendto, buf, fs>>,
           \A x \in Native : x # TTY => at'[x] = at[x],
           at' = at \/ ~Sending(TTY), TTYHas' <=> TTYHas,
           Holds(TermOf[u]) => Holds(TermOf[u])'
    PROVE  Kept(u)'
<1>1. /\ \A x : (Sending(x)' <=> Sending(x)) /\ (Receiving(x)' <=> Receiving(x))
      /\ at'[u] = at[u] /\ at'[FS] = at[FS]
  BY Names DEF Sending, Receiving
<1>2. Telling(u)' <=> Telling(u)
  BY <1>1 DEF Telling, TTYResumes
<1>3. (Served(u)' <=> Served(u)) /\ (Pending(u)' <=> Pending(u)) /\ (Told(u)' <=> Told(u))
      /\ (Answering(u)' <=> Answering(u)) /\ ToldCount' = ToldCount
  BY <1>1 DEF Served, Pending, FSHas, Told, Answering, ToldCount
<1>4. NothingNew(u)
  BY <1>1, <1>2, <1>3 DEF NothingNew, Suspends, SameLine
<1>. QED  BY <1>4, KeptStays

LEMMA KeyboardHandlerOwn ==
    ASSUME TermInv, NEW u \in Users, Kept(u), NEW key, keyboard_handler(key)
    PROVE  Kept(u)'
<1>1. UNCHANGED <<p_flags, p_sendto, buf, fs, at, tty, asked, tty_table>>
  BY DEF keyboard_handler, vars
<1>2. SameLine(u) /\ (TTYHas' <=> TTYHas) /\ (Holds(TermOf[u]) => Holds(TermOf[u])')
  BY <1>1 DEF SameLine, TTYHas, Receiving, Holds
<1>. QED  BY <1>1, <1>2, QuietKept

LEMMA IdleOwn ==
    ASSUME NEW u \in Users, Kept(u), UNCHANGED allVars
    PROVE  Kept(u)'
<1>1. UNCHANGED <<p_flags, p_sendto, buf, fs, at, tty, asked, tty_table>>
  BY DEF allVars, vars, termVars
<1>2. SameLine(u) /\ (TTYHas' <=> TTYHas) /\ (Holds(TermOf[u]) => Holds(TermOf[u])')
  BY <1>1 DEF SameLine, TTYHas, Receiving, Holds
<1>. QED  BY <1>1, <1>2, QuietKept

\* The clock's message is for a TTY that has nothing else in its hands.
LEMMA ClockOwn ==
    ASSUME TermInv, NEW u \in Users, Kept(u), clock_handler
    PROVE  Kept(u)'
<1>1. inform_int(TTY) /\ UNCHANGED termVars /\ ~panicked
  BY DEF clock_handler, inform_int, InformWakes, InformLatches
<1>2. /\ Consistent /\ Noticed /\ Placed
  BY <1>1, Known
<1>3. /\ UNCHANGED p_sendto
      /\ \A x \in Procs :
            /\ Sending(x)' <=> Sending(x)
            /\ Receiving(x)' <=> Receiving(x) /\ ~(x = TTY /\ AcceptsInt(TTY))
            /\ buf'[x] = IF x = TTY /\ AcceptsInt(TTY) THEN IntMsg ELSE buf[x]
  BY <1>1, <1>2, Names, InformEffect
<1>4. UNCHANGED <<at, asked, fs, tty, tty_table>>
  BY <1>1 DEF termVars
<1>5. /\ \A x \in {FS} \cup Users : (Receiving(x)' <=> Receiving(x)) /\ buf'[x] = buf[x]
      /\ \A x \in {TTY, FS} \cup Users : Sending(x)' <=> Sending(x)
      /\ Sending(TTY) => buf'[TTY] = buf[TTY]
  <2>1. AcceptsInt(TTY) => ~Sending(TTY)
    BY <1>2, Names DEF AcceptsInt, Consistent, CallFields, Sending, Receiving
  <2>. QED  BY <1>3, <2>1, Names
<1>6. TTYHas => TTYHas'
  <2>1. ~Receiving(TTY) => ~AcceptsInt(TTY)
    BY DEF AcceptsInt
  <2>. QED  BY <1>3, <1>4, <2>1, Names DEF TTYHas
<1>7. (Served(u)' <=> Served(u)) /\ (Told(u)' <=> Told(u)) /\ (Telling(u)' <=> Telling(u))
      /\ (Answering(u)' <=> Answering(u)) /\ (Pending(u) => Pending(u)') /\ ToldCount' = ToldCount
  BY <1>3, <1>4, <1>5, <1>6, Names
     DEF Served, Pending, FSHas, Told, Answering, ToldCount, Telling, TTYResumes
<1>8. NothingNew(u) /\ SameLine(u) /\ (Holds(TermOf[u]) => Holds(TermOf[u])')
  BY <1>4, <1>5, <1>7 DEF NothingNew, Suspends, SameLine, Telling, TTYResumes, Holds
<1>. QED  BY <1>8, KeptStays

\* TTY's round of the terminals changes no line but in tty_dev_write.
LEMMA RoundOwn ==
    ASSUME TermInv, NEW u \in Users, Kept(u),
           tty_dev_read \/ keyboard_empty \/ tty_next \/ tty_hard_int
    PROVE  Kept(u)'
<1>1. /\ ~panicked /\ ~Sending(TTY) /\ at[TTY] # "resume"
      /\ UNCHANGED <<p_flags, p_sendto, buf, fs, asked, tty_table>>
      /\ \E loc \in {"keys", "write", "read", "receive"} : GoTo(TTY, loc)
  BY HereRuns
     DEF tty_dev_read, keyboard_empty, tty_next, tty_hard_int, TTYHandles, vars
<1>2. Placed
  BY <1>1, Known
<1>3. PICK loc \in TTYLocs : loc # "handle" /\ GoTo(TTY, loc)
  BY <1>1 DEF TTYLocs
<1>4. at'[TTY] # "handle" /\ \A x \in Native : x # TTY => at'[x] = at[x]
  BY <1>2, <1>3, Names, Goes DEF LocsOf
<1>5. ~TTYHas /\ ~TTYHas'
  <2>1. CASE tty_hard_int
    BY <1>1, <1>4, <2>1, TTYHasRequest, Known, RequestFits, HereRuns
       DEF TTYHas, tty_hard_int, TTYHandles
  <2>2. CASE tty_dev_read \/ keyboard_empty \/ tty_next
    BY <1>4, <2>2 DEF TTYHas, tty_dev_read, keyboard_empty, tty_next, Here
  <2>. QED  BY <2>1, <2>2
<1>6. SameLine(u) /\ (Holds(TermOf[u]) => Holds(TermOf[u])')
  BY <1>1 DEF SameLine, Holds
<1>. QED  BY <1>1, <1>4, <1>5, <1>6, QuietKept

LEMMA KeyboardReadOwn ==
    ASSUME TermInv, NEW u \in Users, Kept(u), keyboard_read
    PROVE  Kept(u)'
<1>1. /\ ~panicked /\ UNCHANGED <<p_flags, p_sendto, buf, fs, asked, at, tty>>
      /\ in_process(Head(kb_in)) /\ at[TTY] = "keys"
  BY HereRuns DEF keyboard_read, vars
<1>2. TermTypeOK
  BY <1>1, Known
<1>3. PICK r : r = tty_table[tty] /\ r \in TTYStruct /\ tty \in Terminals
  BY <1>2 DEF TermTypeOK
<1>4. \/ UNCHANGED tty_table
      \/ tty_table' = [tty_table EXCEPT ![tty] = put_key(r, Head(kb_in))]
  BY <1>1, <1>3 DEF in_process
<1>5. PICK q : q = put_key(r, Head(kb_in))
  OBVIOUS
<1>6. q.line = r.line /\ q.tty_procnr = r.tty_procnr /\ q.tty_left_cnt = r.tty_left_cnt
  <2>1. PICK k : k = Append(r.ibuf, Head(kb_in))
    OBVIOUS
  <2>2. q = r \/ q = [r EXCEPT !.ibuf = k]
    BY <1>3, <1>5, <2>1 DEF put_key, TTYStruct
  <2>. QED  BY <1>3, <2>2 DEF TTYStruct
<1>7. TermOf[u] \in Terminals
  BY TerminalAssumption
<1>8. SameLine(u)
  BY <1>1, <1>2, <1>3, <1>4, <1>5, <1>6, <1>7 DEF SameLine, TermTypeOK
<1>9. (TTYHas' <=> TTYHas) /\ (Holds(TermOf[u]) => Holds(TermOf[u])')
  BY <1>1, <1>8 DEF TTYHas, Receiving, Holds, SameLine
<1>. QED  BY <1>1, <1>8, <1>9, QuietKept

\* The reader of a terminal of one's own is oneself.
LEMMA OwnReader ==
    ASSUME OwnTerminals, TermInv, ~panicked, NEW u \in Users, Holds(TermOf[u])
    PROVE  /\ ReaderOf(TermOf[u]) = u /\ Served(u) /\ asked[u].op = "READ"
           /\ ~FSHas(u) /\ ~Answering(u) /\ ~Told(u) /\ ~Telling(u)
<1>1. TermOf[u] \in Terminals
  BY TerminalAssumption
<1>2. PICK v \in Users : v = ReaderOf(TermOf[u]) /\ asked[v].op = "READ"
  BY <1>1, Known DEF Filled, ReaderOf
<1>3. TermOf[v] = TermOf[u]
  BY <1>1, <1>2, Known DEF Readers
<1>4. u = v
  BY <1>2, <1>3 DEF OwnTerminals
<1>. QED  BY <1>1, <1>2, <1>4, Known DEF Readers

LEMMA DevWriteOwn ==
    ASSUME OwnTerminals, TermInv, NEW u \in Users, Kept(u), tty_dev_write
    PROVE  Kept(u)'
<1>1. /\ ~panicked /\ ~Sending(TTY) /\ at[TTY] = "write"
      /\ UNCHANGED <<p_flags, p_sendto, buf, fs, asked, tty>>
  BY HereRuns DEF tty_dev_write, vars
<1>2. TermTypeOK /\ Placed
  BY <1>1, Known
<1>3. PICK q, loc : DevWrites(q, loc)
  BY <1>2, DevWriteEffect
<1>4. PICK r \in TTYStruct : r = tty_table[tty] /\ tty \in Terminals
  BY <1>2 DEF TermTypeOK
<1>5. /\ tty_table' = [tty_table EXCEPT ![tty] = q] /\ GoTo(TTY, loc)
      /\ loc \in {"write", "resume"} /\ q.tty_procnr = r.tty_procnr
      /\ q.tty_left_cnt \in Nat /\ r.tty_left_cnt \in Nat
      /\ q.tty_left_cnt > 0 \/ loc = "resume" => r.tty_left_cnt > 0
      /\ q.tty_left_cnt = 0 /\ loc = "write" /\ r.tty_left_cnt > 0 =>
            q.line # <<>> /\ Last(q.line) = "Backslash"
      /\ r.tty_left_cnt = 0 => q.line = r.line
  <2>1. Alike(q, [r EXCEPT !.ibuf = Tail(r.ibuf)])
    BY <1>3, <1>4 DEF DevWrites
  <2>2. q \in TTYStruct /\ q.tty_procnr = r.tty_procnr
    BY <1>4, <2>1 DEF Alike, TTYStruct
  <2>3. q.tty_left_cnt \in Nat /\ r.tty_left_cnt \in Nat
    BY <1>4, <2>2, Counted DEF TTYStruct
  <2>. QED  BY <1>3, <1>4, <2>2, <2>3 DEF DevWrites
<1>6. at'[TTY] = loc /\ \A x \in Native : x # TTY => at'[x] = at[x]
  BY <1>2, <1>5, Names, Goes DEF LocsOf, TTYLocs
<1>7. TermOf[u] \in Terminals
  BY TerminalAssumption
<1>8. ~TTYHas /\ ~TTYHas'
  BY <1>1, <1>5, <1>6 DEF TTYHas
<1>9. CASE TermOf[u] = tty /\ r.tty_left_cnt > 0
  <2>1. Holds(TermOf[u])
    BY <1>4, <1>9 DEF Holds
  <2>2. /\ r.tty_procnr = u /\ Served(u) /\ ~Answering(u) /\ ~Told(u) /\ ~Telling(u)
    BY <1>1, <1>4, <1>9, <2>1, OwnReader DEF ReaderOf
  <2>3. (Served(u) /\ ~Telling(u) /\ ~Told(u) /\ ~Answering(u))'
    BY <1>1, <1>6, <2>2, Names
       DEF Served, Answering, Told, FSHas, Telling, TTYResumes, Sending, Receiving
  <2>4. tty_table'[tty] = q
    BY <1>2, <1>4, <1>5 DEF TermTypeOK
  <2>5. (Suspends(u) => Swallowed(u) \/ (ReaderOf(TermOf[u]) = u /\ Holds(TermOf[u])))'
    BY <1>1, <1>5, <1>6, <1>9, <2>2, <2>4 DEF Swallowed, ReaderOf, Holds
  <2>6. (asked[u].op = "READ" => asked[u].cnt > 0)'
    BY <1>1 DEF Kept
  <2>. QED  BY <2>3, <2>5, <2>6, KeptByTerminal
<1>10. CASE ~(TermOf[u] = tty /\ r.tty_left_cnt > 0)
  <2>1. SameLine(u)
    BY <1>1, <1>2, <1>4, <1>5, <1>7, <1>10 DEF SameLine, TermTypeOK
  <2>2. Holds(TermOf[u]) => Holds(TermOf[u])'
    BY <1>1, <2>1 DEF Holds, SameLine
  <2>. QED  BY <1>1, <1>6, <1>8, <2>1, <2>2, QuietKept
<1>. QED  BY <1>9, <1>10

-----------------------------------------------------------------------------
(* ... the calls of programs                                               *)

LEMMA CallOwn ==
    ASSUME TermInv, NEW u \in Users, Kept(u), ~panicked', NEW v \in Users, NEW op \in Calls,
           NEW cnt \in 0..MaxCount, Call(v, op, cnt), op = "READ" => cnt > 0
    PROVE  Kept(u)'
<1>. DEFINE b == Body(op, 0, NO_TASK, cnt)
<1>1. /\ at[v] = "run" /\ ~panicked /\ ~Sending(v) /\ ~Receiving(v)
      /\ msg_send(v, FS, b) /\ asked' = [asked EXCEPT ![v] = [op |-> op, cnt |-> cnt]]
      /\ GoTo(v, "sent") /\ UNCHANGED <<fs, tty, tty_table>>
  BY HereRuns DEF Call
<1>2. /\ Consistent /\ NoMissedRendezvous /\ TermTypeOK /\ Placed
      /\ BlockedFor /\ Requests /\ Conversation /\ Readers
  BY <1>1, Known
<1>3. b \in Bodies
  BY Fits, Counted DEF Calls, Sent
<1>. HIDE DEF b
<1>4. /\ at'[v] = "sent" /\ \A x \in Native : x # v => at'[x] = at[x]
      /\ Delivered(v, FS, b) \/ Queued(v, FS, b)
  BY <1>1, <1>2, <1>3, Names, SendStep DEF ToSend
<1>5. /\ at'[TTY] = at[TTY] /\ at'[FS] = at[FS] /\ (u # v => at'[u] = at[u])
      /\ (u # v => asked'[u] = asked[u]) /\ asked'[v] = [op |-> op, cnt |-> cnt]
  BY <1>1, <1>2, <1>4, Names DEF TermTypeOK
<1>6. /\ \A x \in {TTY, FS, u} : x # v => (Sending(x)' <=> Sending(x))
      /\ \A x \in {TTY, u} : Receiving(x)' <=> Receiving(x)
      /\ p_sendto'[FS] = p_sendto[FS] /\ buf'[TTY] = buf[TTY]
      /\ u # v => buf'[u] = buf[u]
  BY <1>4, Names DEF Delivered, Queued
<1>7. /\ (TTYHas' <=> TTYHas) /\ (Telling(u)' <=> Telling(u)) /\ (u # v => (Served(u)' <=> Served(u)))
      /\ Holds(TermOf[u])' = Holds(TermOf[u])
  BY <1>1, <1>5, <1>6, Names DEF TTYHas, Telling, TTYResumes, Served, Holds
<1>8. \/ /\ at[FS] = "handle" /\ Receiving(FS) /\ ~Receiving(FS)' /\ ~Sending(FS) /\ ~Sending(FS)'
         /\ buf'[FS].source = v /\ ~Sending(v)'
      \/ /\ (Receiving(FS)' <=> Receiving(FS)) /\ (Sending(FS)' <=> Sending(FS))
         /\ buf'[FS] = buf[FS] /\ Sending(v)'
  <2>1. CASE Delivered(v, FS, b)
    <3>1. Receiving(FS) /\ ToReceive(FS, p_recvfrom[FS], at[FS]) /\ p_recvfrom[FS] \in {v, ANY}
      BY <1>2, <2>1, Names DEF Delivered, Accepts, BlockedFor
    <3>2. at[FS] = "handle" /\ ~Sending(FS)
      BY <1>2, <3>1, Names DEF ToReceive, Consistent, CallFields, Sending, Receiving
    <3>. QED  BY <1>1, <2>1, <3>1, <3>2, Names DEF Delivered
  <2>2. CASE Queued(v, FS, b)
    BY <2>2, Names DEF Queued
  <2>. QED  BY <1>4, <2>1, <2>2
<1>9. CASE u # v
  <2>1. /\ (Told(u)' => Told(u) /\ ToldCount' = ToldCount)
        /\ (Answering(u)' => Answering(u) /\ buf'[FS] = buf[FS])
        /\ (Pending(u) => Pending(u)') /\ (Told(u) => Told(u)') /\ (Answering(u) => Answering(u)')
    BY <1>1, <1>5, <1>6, <1>7, <1>8, <1>9, Names DEF Told, FSHas, ToldCount, Answering, Pending
  <2>2. NothingNew(u) /\ SameLine(u)
    BY <1>1, <1>5, <1>6, <1>7, <1>9, <2>1 DEF NothingNew, Suspends, SameLine
  <2>. QED  BY <1>7, <2>2, KeptStays
<1>10. CASE u = v
  <2>1. ~Served(u)
    BY <1>1, <1>10 DEF Served
  <2>2. ~Telling(u) /\ ~Told(u) /\ ~Answering(u)
    BY <1>2, <2>1 DEF Readers, Requests
  <2>3. ~Told(u)' /\ ~Answering(u)' /\ ~Telling(u)' /\ ~Suspends(u)'
    BY <1>1, <1>4, <1>5, <1>6, <1>7, <1>8, <1>10, <2>2, Names
       DEF Told, FSHas, Answering, Suspends, Pending, Served
  <2>. QED  BY <1>4, <1>5, <1>10, <2>3 DEF Kept
<1>. QED  BY <1>9, <1>10

LEMMA AwaitOwn ==
    ASSUME TermInv, NEW u \in Users, Kept(u), NEW v \in Users, Await(v)
    PROVE  Kept(u)'
<1>1. /\ at[v] = "sent" /\ ~panicked /\ ~Sending(v) /\ ~Receiving(v)
      /\ msg_receive(v, FS) /\ GoTo(v, "run") /\ UNCHANGED <<asked, fs, tty, tty_table>>
  BY HereRuns DEF Await
<1>2. /\ Consistent /\ NoMissedRendezvous /\ Placed /\ BlockedFor /\ Requests /\ Readers
  BY <1>1, Known
<1>3. FS \in Sources /\ FS # ANY
  BY Names DEF Sources
<1>4. /\ at'[v] = "run" /\ \A x \in Native : x # v => at'[x] = at[x]
      /\ \/ Waits(v, FS)
         \/ \E from \in {TTY, FS} \cup Users :
               from # v /\ Took(v, FS, from) /\ ToSend(from, v, at[from])
               /\ buf[from].source = from
  BY <1>1, <1>2, <1>3, Names, ReceiveStep DEF ToReceive
<1>5. /\ at'[TTY] = at[TTY] /\ at'[FS] = at[FS] /\ (u # v => at'[u] = at[u])
  BY <1>4, Names
<1>6. Waits(v, FS) \/ (Took(v, FS, FS) /\ at[FS] = "loop")
  BY <1>3, <1>4, Names DEF Took, ToSend
<1>7. /\ \A x \in {TTY, u} : Sending(x)' <=> Sending(x)
      /\ \A x \in {TTY, FS, u} : x # v => (Receiving(x)' <=> Receiving(x)) /\ buf'[x] = buf[x]
      /\ buf'[TTY] = buf[TTY] /\ buf'[FS] = buf[FS]
      /\ Sending(FS)' => Sending(FS) /\ p_sendto'[FS] = p_sendto[FS]
      /\ at[FS] # "loop" => (Sending(FS)' <=> Sending(FS)) /\ p_sendto'[FS] = p_sendto[FS]
  BY <1>6, Names DEF Waits, Took
<1>8. /\ (TTYHas' <=> TTYHas) /\ (Telling(u)' <=> Telling(u)) /\ (u # v => (Served(u)' <=> Served(u)))
      /\ (Told(u)' <=> Told(u)) /\ ToldCount' = ToldCount
      /\ (Answering(u)' => Answering(u)) /\ (Pending(u)' <=> Pending(u))
      /\ Holds(TermOf[u])' = Holds(TermOf[u])
      /\ SameLine(u)
  BY <1>1, <1>5, <1>7, Names
     DEF TTYHas, Telling, TTYResumes, Served, Told, ToldCount, FSHas, Answering, Pending, Holds, SameLine
<1>9. CASE u # v
  <2>1. Answering(u) => Answering(u)'
    <3>1. Took(v, FS, FS) => ~Answering(u)
      BY <1>9 DEF Took, Answering
    <3>2. Waits(v, FS) => (Sending(FS)' <=> Sending(FS)) /\ p_sendto'[FS] = p_sendto[FS]
      BY Names DEF Waits
    <3>. QED  BY <1>5, <1>6, <3>1, <3>2 DEF Answering
  <2>2. NothingNew(u)
    BY <1>5, <1>7, <1>8, <1>9, <2>1 DEF NothingNew, Suspends, SameLine
  <2>. QED  BY <1>8, <2>2, KeptStays
<1>10. CASE u = v /\ Waits(v, FS)
  <2>1. Served(u) /\ Receiving(u)' /\ (Sending(FS)' <=> Sending(FS)) /\ p_sendto'[FS] = p_sendto[FS]
    BY <1>1, <1>10, Names DEF Served, Waits
  <2>2. Answering(u) <=> Answering(u)'
    BY <1>5, <2>1 DEF Answering
  <2>3. NothingNew(u)
    BY <1>5, <1>7, <1>8, <2>1, <2>2 DEF NothingNew, Suspends, SameLine
  <2>. QED  BY <1>8, <2>3, KeptStays
<1>11. CASE u = v /\ Took(v, FS, FS) /\ at[FS] = "loop"
  <2>1. /\ Answering(u) /\ buf'[u] = buf[FS] /\ ~Receiving(u)' /\ ~Answering(u)'
    BY <1>1, <1>5, <1>11, Names DEF Answering, Took
  <2>2. buf[FS].body.type = "SYSCALL_RET"
    BY <1>2, <2>1 DEF Requests
  <2>3. ~Told(u) /\ ~Telling(u)
    BY <1>2, <2>1 DEF Readers
  <2>4. ~Suspends(u)'
    BY <1>4, <1>11, <2>1 DEF Suspends, Served
  <2>5. asked'[u].op = "READ" => buf'[u].body.type = "SYSCALL_RET" /\ Tells(u, buf[u].body.cnt)'
    BY <1>1, <2>1, <2>2 DEF Kept, Tells, LineOf
  <2>. QED  BY <1>1, <1>8, <2>1, <2>3, <2>4, <2>5 DEF Kept
<1>. QED  BY <1>6, <1>9, <1>10, <1>11

-----------------------------------------------------------------------------
(* ... the steps of FS                                                     *)

LEMMA FSTakeOwn ==
    ASSUME TermInv, NEW u \in Users, Kept(u), FSTake
    PROVE  Kept(u)'
<1>1. /\ at[FS] = "loop" /\ ~panicked /\ ~Sending(FS) /\ ~Receiving(FS)
      /\ msg_receive(FS, ANY) /\ GoTo(FS, "handle") /\ UNCHANGED <<asked, fs, tty, tty_table>>
  BY HereRuns DEF FSTake
<1>2. /\ Consistent /\ NoMissedRendezvous /\ Placed /\ BlockedFor /\ Requests /\ Conversation /\ Readers
  BY <1>1, Known
<1>3. /\ at'[FS] = "handle" /\ \A x \in Native : x # FS => at'[x] = at[x]
      /\ \/ Waits(FS, ANY)
         \/ \E from \in {TTY, FS} \cup Users :
               from # FS /\ Took(FS, ANY, from) /\ ToSend(from, FS, at[from])
               /\ buf[from].source = from
  <2>1. ANY \in Sources
    BY DEF Sources
  <2>. QED  BY <1>1, <1>2, <2>1, Names, ReceiveStep DEF ToReceive
<1>4. at'[TTY] = at[TTY] /\ at'[u] = at[u]
  BY <1>3, Names
<1>5. /\ \A x \in {TTY, u} : (Receiving(x)' <=> Receiving(x)) /\ buf'[x] = buf[x]
      /\ ~Sending(FS)'
  BY <1>1, <1>3, Names DEF Waits, Took
<1>6. /\ SameLine(u) /\ (TTYHas' <=> TTYHas) /\ Holds(TermOf[u])' = Holds(TermOf[u])
      /\ ~Told(u) /\ ~Answering(u) /\ ~Answering(u)' /\ (Pending(u) => TTYHas /\ fs.src = u)
  BY <1>1, <1>3, <1>4, <1>5
     DEF SameLine, TTYHas, Holds, Told, FSHas, Answering, Pending
<1>7. ~TTYHas /\ ~TTYAnswers
  BY <1>1, <1>2 DEF Conversation, FSAwaits
<1>8. CASE Waits(FS, ANY)
  <2>1. Receiving(FS)' /\ \A x \in {TTY, u} : Sending(x)' <=> Sending(x)
    BY <1>8, Names DEF Waits
  <2>2. /\ (Served(u)' <=> Served(u)) /\ (Telling(u)' <=> Telling(u)) /\ ~Told(u)'
    BY <1>3, <1>4, <1>5, <2>1 DEF Served, Telling, TTYResumes, Told, FSHas
  <2>3. NothingNew(u)
    BY <1>1, <1>4, <1>5, <1>6, <1>7, <2>2 DEF NothingNew, Suspends
  <2>. QED  BY <1>6, <2>3, KeptStays
<1>9. CASE \E from \in Users : Took(FS, ANY, from) /\ buf[from].source = from
  <2>1. PICK from \in Users : Took(FS, ANY, from) /\ buf[from].source = from
    BY <1>9
  <2>2. /\ (Sending(TTY)' <=> Sending(TTY)) /\ (u # from => (Sending(u)' <=> Sending(u)))
        /\ buf'[FS].source = from /\ ~Receiving(FS)'
    BY <1>1, <2>1, Names DEF Took
  <2>3. /\ (u # from => (Served(u)' <=> Served(u))) /\ (Telling(u)' <=> Telling(u)) /\ ~Told(u)'
    BY <1>3, <1>4, <1>5, <2>2, Names DEF Served, Telling, TTYResumes, Told, FSHas
  <2>4. u = from => Pending(u)'
    BY <1>3, <2>2 DEF Pending, FSHas
  <2>5. NothingNew(u)
    BY <1>1, <1>4, <1>5, <1>6, <1>7, <2>3, <2>4 DEF NothingNew, Suspends
  <2>. QED  BY <1>6, <2>5, KeptStays
<1>10. CASE Took(FS, ANY, TTY) /\ ToSend(TTY, FS, at[TTY])
  <2>1. /\ Sending(TTY) /\ ~Sending(TTY)' /\ (Sending(u)' <=> Sending(u)) /\ buf'[FS] = buf[TTY]
        /\ ~Receiving(FS)'
    BY <1>1, <1>10, Names DEF Took
  <2>2. TTYResumes /\ ~TTYResumes' /\ buf[TTY].source = TTY
    BY <1>2, <1>7, <1>10, <2>1, Names DEF ToSend, TTYAnswers, TTYResumes, BlockedFor
  <2>3. /\ (Served(u)' <=> Served(u)) /\ ~Telling(u)'
        /\ (Told(u)' <=> Telling(u)) /\ ToldCount' = buf[TTY].body.cnt
    BY <1>3, <1>4, <1>5, <2>1, <2>2 DEF Served, Telling, Told, FSHas, ToldCount
  <2>4. Suspends(u)' => Suspends(u)
    BY <1>1, <1>6, <1>7, <2>3 DEF Suspends
  <2>5. (Suspends(u) => Swallowed(u) \/ (ReaderOf(TermOf[u]) = u /\ Holds(TermOf[u])))'
    BY <1>6, <2>4 DEF Kept, SameLine, Swallowed, ReaderOf
  <2>6. (Told(u) => Tells(u, ToldCount))'
    BY <1>6, <2>3 DEF Kept, SameLine, Tells, LineOf
  <2>7. (asked[u].op = "READ" /\ at[u] = "run" /\ ~Receiving(u) =>
            buf[u].body.type = "SYSCALL_RET" /\ Tells(u, buf[u].body.cnt))'
    BY <1>4, <1>5, <1>6 DEF Kept, SameLine, Tells, LineOf
  <2>. QED  BY <1>1, <1>6, <2>3, <2>5, <2>6, <2>7 DEF Kept
<1>. QED  BY <1>3, <1>8, <1>9, <1>10

LEMMA FSAsksOwn ==
    ASSUME TermInv, NEW u \in Users, Kept(u), ~panicked', NEW op \in Calls, FSAsks(op, DevOf(op))
    PROVE  Kept(u)'
<1>0. PICK v : v = buf[FS].source
  OBVIOUS
<1>1. /\ at[FS] = "handle" /\ ~panicked /\ ~Sending(FS) /\ ~Receiving(FS)
      /\ buf[FS].body.type = op
      /\ msg_send(FS, TTY, Body(DevOf(op), TermOf[v], v, buf[FS].body.cnt))
      /\ fs' = [src |-> v, op |-> op, cnt |-> buf[FS].body.cnt]
      /\ GoTo(FS, "device") /\ UNCHANGED <<asked, tty, tty_table>>
  BY <1>0, HereRuns DEF FSAsks, FSHandles
<1>2. /\ Consistent /\ NoMissedRendezvous /\ TermTypeOK /\ Placed
      /\ BlockedFor /\ Requests /\ Conversation
  BY <1>1, Known
<1>3. FSHas(v)
  BY <1>0, <1>1 DEF FSHas
<1>4. v \in Users
  <2>1. v # TTY
    <3>1. SUFFICES ASSUME v = TTY PROVE FALSE
      OBVIOUS
    <3>2. Resumes(buf[FS].body)
      BY <1>2, <1>3, <3>1 DEF Requests
    <3>3. buf[FS].body.type = "RESUME_PROC"
      BY <3>2 DEF Resumes, Body
    <3>. QED  BY <1>1, <3>3 DEF Calls
  <2>. QED  BY <1>0, <1>1, <1>2, <2>1 DEF Requests
<1>5. PICK b \in Bodies : msg_send(FS, TTY, b)
  <2>1. buf[FS].body.cnt \in 0..MaxCount
    BY <1>2, <1>3, <1>4, AskFits DEF Requests
  <2>2. TermOf[v] \in Terminals /\ DevOf(op) \in Sent
    BY <1>4, TerminalAssumption DEF DevOf, Calls, Sent
  <2>. QED  BY <1>1, <1>4, <2>1, <2>2, Fits
<1>6. /\ at'[FS] = "device" /\ \A x \in Native : x # FS => at'[x] = at[x]
      /\ Delivered(FS, TTY, b) \/ Queued(FS, TTY, b)
  BY <1>1, <1>2, <1>5, Names, SendStep DEF ToSend
<1>7. at'[TTY] = at[TTY] /\ at'[u] = at[u] /\ fs'.src = v
  BY <1>1, <1>6, Names
<1>8. /\ \A x \in {TTY, u} : Sending(x)' <=> Sending(x)
      /\ Receiving(u)' <=> Receiving(u)
      /\ buf'[u] = buf[u]
  BY <1>6, Names DEF Delivered, Queued
<1>9. ~FSAwaits /\ ~TTYHas /\ ~TTYAnswers
  BY <1>1, <1>2 DEF FSAwaits, Conversation
<1>10. (TTYHas' \/ (at'[FS] = "device" /\ Sending(FS)')) /\ (TTYResumes => buf'[TTY] = buf[TTY])
  <2>1. CASE Delivered(FS, TTY, b)
    <3>1. Receiving(TTY) /\ ToReceive(TTY, p_recvfrom[TTY], at[TTY])
      BY <1>2, <2>1, Names DEF Delivered, Accepts, BlockedFor
    <3>2. ~Receiving(TTY)' /\ buf'[TTY].source = FS /\ at[TTY] = "handle"
      BY <2>1, <3>1, Names DEF Delivered, ToReceive
    <3>. QED  BY <1>7, <3>2 DEF TTYHas, TTYResumes
  <2>2. CASE Queued(FS, TTY, b)
    BY <1>6, <2>2, Names DEF Queued
  <2>. QED  BY <1>6, <2>1, <2>2
<1>11. /\ (Served(u)' <=> Served(u)) /\ (Telling(u)' => Telling(u) /\ buf'[TTY] = buf[TTY])
       /\ (Telling(u) => Telling(u)')
       /\ ~Told(u) /\ ~Told(u)' /\ ~Answering(u) /\ ~Answering(u)'
  <2>1. Served(u)' <=> Served(u)
    BY <1>7, <1>8 DEF Served
  <2>2. TTYResumes' <=> TTYResumes
    BY <1>7, <1>8 DEF TTYResumes
  <2>3. ~Told(u) /\ ~Told(u)' /\ ~Answering(u) /\ ~Answering(u)'
    BY <1>0, <1>1, <1>4, <1>6, Names DEF Told, FSHas, Answering
  <2>. QED  BY <1>10, <2>1, <2>2, <2>3 DEF Telling
<1>12. Suspends(u)' => Suspends(u)
  <2>1. u = v => Pending(u)'
    BY <1>7, <1>10 DEF Pending
  <2>2. u # v => ~Pending(u)
    BY <1>0, <1>1, <1>9 DEF Pending, FSHas
  <2>. QED  BY <1>1, <1>11, <2>1, <2>2 DEF Suspends
<1>13. NothingNew(u) /\ SameLine(u) /\ (Holds(TermOf[u]) => Holds(TermOf[u])')
  BY <1>1, <1>7, <1>8, <1>11, <1>12 DEF NothingNew, SameLine, Holds
<1>. QED  BY <1>13, KeptStays

LEMMA FSHearsOwn ==
    ASSUME TermInv, NEW u \in Users, Kept(u), FSHears
    PROVE  Kept(u)'
<1>1. /\ at[FS] = "device" /\ ~panicked /\ ~Sending(FS) /\ ~Receiving(FS)
      /\ msg_receive(FS, TTY) /\ GoTo(FS, "reply") /\ UNCHANGED <<asked, fs, tty, tty_table>>
  BY HereRuns DEF FSHears
<1>2. /\ Consistent /\ NoMissedRendezvous /\ Placed /\ BlockedFor /\ Requests /\ Conversation
  BY <1>1, Known
<1>3. TTY \in Sources /\ TTY # ANY
  BY Names DEF Sources
<1>4. /\ at'[FS] = "reply" /\ \A x \in Native : x # FS => at'[x] = at[x]
      /\ \/ Waits(FS, TTY)
         \/ \E from \in {TTY, FS} \cup Users :
               from # FS /\ Took(FS, TTY, from) /\ ToSend(from, FS, at[from])
               /\ buf[from].source = from
  BY <1>1, <1>2, <1>3, Names, ReceiveStep DEF ToReceive
<1>5. Waits(FS, TTY) \/ Took(FS, TTY, TTY)
  BY <1>3, <1>4 DEF Took
<1>6. at'[TTY] = at[TTY] /\ at'[u] = at[u]
  BY <1>4, Names
<1>7. /\ \A x \in {TTY, u} : (Receiving(x)' <=> Receiving(x)) /\ buf'[x] = buf[x]
      /\ Sending(u)' <=> Sending(u)
      /\ ~Sending(FS)'
  BY <1>1, <1>5, Names DEF Waits, Took
<1>8. FSAwaits /\ fs.op \in Calls
  BY <1>1, <1>2 DEF FSAwaits, Requests
<1>9. TTYHas \/ TTYAnswers
  BY <1>2, <1>8 DEF Conversation
<1>10. /\ (TTYHas' <=> TTYHas) /\ (Served(u)' <=> Served(u)) /\ ~Telling(u) /\ ~Telling(u)'
       /\ ~Told(u) /\ ~Told(u)' /\ ~Answering(u) /\ ~Answering(u)' /\ (Pending(u) <=> Pending(u)')
  BY <1>1, <1>4, <1>6, <1>7, <1>8, <1>9
     DEF TTYHas, TTYAnswers, Served, Telling, TTYResumes, Told, FSHas, Answering, Pending, Calls
<1>11. NothingNew(u) /\ SameLine(u) /\ (Holds(TermOf[u]) => Holds(TermOf[u])')
  BY <1>1, <1>6, <1>7, <1>10 DEF NothingNew, Suspends, SameLine, Holds
<1>. QED  BY <1>11, KeptStays

LEMMA FSResumesOwn ==
    ASSUME TermInv, NEW u \in Users, Kept(u), FSResumes
    PROVE  Kept(u)'
<1>1. /\ at[FS] = "handle" /\ ~panicked /\ ~Sending(FS) /\ ~Receiving(FS)
      /\ buf[FS].body.type = "RESUME_PROC"
      /\ fs' = [src |-> buf[FS].body.nr, op |-> "RESUME_PROC", cnt |-> buf[FS].body.cnt]
      /\ GoTo(FS, "reply") /\ UNCHANGED <<vars, asked, tty, tty_table>>
  BY HereRuns DEF FSResumes, FSHandles
<1>2. /\ TermTypeOK /\ Placed /\ Requests /\ Conversation
  BY <1>1, Known
<1>3. /\ at'[FS] = "reply" /\ at'[TTY] = at[TTY] /\ at'[u] = at[u]
      /\ \A x : (Sending(x)' <=> Sending(x)) /\ (Receiving(x)' <=> Receiving(x))
      /\ UNCHANGED <<buf, p_sendto>>
  BY <1>1, <1>2, Names, Goes DEF LocsOf, FSLocs, Sending, Receiving, vars
<1>4. buf[FS].source = TTY
  <2>1. SUFFICES ASSUME buf[FS].source \in Users  PROVE FALSE
    BY <1>1, <1>2 DEF Requests
  <2>2. PICK v \in Users : v = buf[FS].source /\ FSHas(v)
    BY <1>1, <2>1 DEF FSHas
  <2>3. buf[FS].body = Ask(v)
    BY <1>2, <2>2 DEF Requests
  <2>. QED  BY <1>1, <1>2, <2>3, AskFits DEF Calls
<1>5. ~TTYHas /\ ~TTYHas'
  BY <1>1, <1>2, <1>3 DEF Conversation, FSAwaits, TTYHas
<1>6. /\ (Told(u)' <=> Told(u)) /\ ToldCount' = ToldCount
  BY <1>1, <1>3, <1>4 DEF Told, FSHas, ToldCount
<1>7. /\ (Served(u)' <=> Served(u)) /\ (Telling(u)' <=> Telling(u)) /\ ~Pending(u)
      /\ ~Answering(u) /\ ~Answering(u)'
  BY <1>1, <1>3, <1>4, <1>5, Names DEF Served, Telling, TTYResumes, Pending, FSHas, Answering
<1>8. NothingNew(u) /\ SameLine(u) /\ (Holds(TermOf[u]) => Holds(TermOf[u])')
  BY <1>1, <1>3, <1>6, <1>7 DEF NothingNew, Suspends, SameLine, Holds
<1>. QED  BY <1>8, KeptStays

\* FS answers a read when it has been told to, and not otherwise.
LEMMA AnswersTheTold ==
    ASSUME TermInv, Here(FS, "reply"), ~Suspended, asked[fs.src].op = "READ"
    PROVE  Told(fs.src)
<1>1. at[FS] = "reply" /\ ~panicked /\ ~Receiving(FS)
  BY HereRuns
<1>2. /\ TermTypeOK /\ Requests /\ Conversation
  BY <1>1, Known
<1>3. fs.op \notin Calls
  <2>1. SUFFICES ASSUME fs.op \in Calls  PROVE FALSE
    OBVIOUS
  <2>2. fs.op # "READ"
    BY <1>1, <1>2, <2>1 DEF Conversation, Suspended
  <2>. QED  BY <1>1, <1>2, <2>1, <2>2 DEF Requests
<1>. QED  BY <1>1, <1>2, <1>3 DEF TermTypeOK, Calls, Told

LEMMA FSRepliesOwn ==
    ASSUME TermInv, NEW u \in Users, Kept(u), ~panicked', FSReplies
    PROVE  Kept(u)'
<1>1. /\ at[FS] = "reply" /\ ~panicked /\ ~Sending(FS) /\ ~Receiving(FS)
      /\ fs' = FSIdle /\ GoTo(FS, "loop") /\ UNCHANGED <<asked, tty, tty_table>>
      /\ \/ Suspended /\ UNCHANGED vars
         \/ ~Suspended /\ msg_send(FS, fs.src, Body("SYSCALL_RET", 0, NO_TASK, fs.cnt))
  BY HereRuns DEF FSReplies
<1>2. /\ Consistent /\ NoMissedRendezvous /\ TermTypeOK /\ Placed
      /\ BlockedFor /\ Requests /\ Conversation /\ Readers
  BY <1>1, Known
<1>3. /\ ~FSAwaits /\ ~TTYHas /\ ~TTYAnswers /\ ~Pending(u) /\ ~Answering(u)
  BY <1>1, <1>2 DEF FSAwaits, Conversation, Pending, FSHas, Answering
<1>4. /\ at'[FS] = "loop" /\ at'[TTY] = at[TTY] /\ at'[u] = at[u]
  BY <1>1, <1>2, Names, Goes DEF LocsOf, FSLocs
<1>5. SameLine(u) /\ (Holds(TermOf[u]) => Holds(TermOf[u])') /\ ~Told(u)'
  BY <1>1, <1>4 DEF SameLine, Holds, Told, FSHas
<1>6. CASE Suspended /\ UNCHANGED vars
  <2>1. /\ \A x : (Sending(x)' <=> Sending(x)) /\ (Receiving(x)' <=> Receiving(x))
        /\ UNCHANGED <<buf, p_sendto>>
    BY <1>6 DEF Sending, Receiving, vars
  <2>2. (Served(u)' <=> Served(u)) /\ (Telling(u)' <=> Telling(u)) /\ ~Told(u) /\ ~Answering(u)'
    BY <1>1, <1>4, <1>6, <2>1 DEF Served, Telling, TTYResumes, Told, FSHas, Answering, Suspended
  <2>3. NothingNew(u)
    BY <1>1, <1>3, <1>4, <1>5, <2>1, <2>2 DEF NothingNew, Suspends
  <2>. QED  BY <1>5, <2>3, KeptStays
<1>7. CASE ~Suspended /\ msg_send(FS, fs.src, Body("SYSCALL_RET", 0, NO_TASK, fs.cnt))
  <2>1. PICK v \in Users : v = fs.src
    BY <1>1, <1>2 DEF Requests
  <2>2. Served(v) /\ ~Telling(v)
    BY <1>7, <2>1, AnsweredOnce DEF FSReplies
  <2>3. PICK b \in Bodies : b.type = "SYSCALL_RET" /\ b.cnt = fs.cnt /\ msg_send(FS, v, b)
    <3>1. fs.cnt \in 0..MaxCount
      BY <1>2 DEF TermTypeOK
    <3>2. "SYSCALL_RET" \in Sent /\ NO_TASK \in Users \cup {NO_TASK} /\ 0 \in Terminals
      BY Counted DEF Sent
    <3>3. /\ Body("SYSCALL_RET", 0, NO_TASK, fs.cnt) \in Bodies
          /\ Body("SYSCALL_RET", 0, NO_TASK, fs.cnt).type = "SYSCALL_RET"
          /\ Body("SYSCALL_RET", 0, NO_TASK, fs.cnt).cnt = fs.cnt
      BY <3>1, <3>2, Fits
    <3>. QED  BY <1>7, <2>1, <3>3
  <2>4. Delivered(FS, v, b) \/ Queued(FS, v, b)
    BY <1>1, <1>2, <2>3, Names, SendStep DEF ToSend
  <2>5. /\ \A x \in {TTY, u} : Sending(x)' <=> Sending(x)
        /\ \A x \in {TTY, u} : x # v => (Receiving(x)' <=> Receiving(x)) /\ buf'[x] = buf[x]
        /\ buf'[FS] = [source |-> FS, body |-> b]
    BY <2>4, Names DEF Delivered, Queued
  <2>6. /\ (u # v => (Served(u)' <=> Served(u))) /\ (Telling(u)' <=> Telling(u)) /\ ~TTYHas'
        /\ buf'[TTY] = buf[TTY]
    BY <1>3, <1>4, <2>5, Names DEF Served, Telling, TTYResumes, TTYHas
  <2>7. CASE u # v
    <3>1. ~Told(u)
      BY <1>1, <2>1, <2>7, Names DEF Told, FSHas
    <3>2. ~Answering(u)'
      <4>1. Sending(FS)' => p_sendto'[FS] = v
        BY <1>1, <2>4, Names DEF Delivered, Queued
      <4>. QED  BY <2>7, <4>1 DEF Answering
    <3>3. NothingNew(u)
      BY <1>1, <1>3, <1>4, <1>5, <2>5, <2>6, <2>7, <3>1, <3>2, Names DEF NothingNew, Suspends
    <3>. QED  BY <1>5, <3>3, KeptStays
  <2>8. CASE u = v
    <3>1. ~Telling(u)' /\ ~Told(u)'
      BY <1>5, <2>2, <2>6, <2>8
    <3>2. asked[u].op = "READ" => Tells(u, b.cnt)'
      <4>1. SUFFICES ASSUME asked[u].op = "READ"  PROVE Tells(u, b.cnt)
        BY <1>5 DEF SameLine, Tells, LineOf
      <4>2. Told(u)
        BY <1>7, <2>1, <2>8, <4>1, AnswersTheTold DEF FSReplies
      <4>3. ToldCount = fs.cnt
        BY <1>1 DEF ToldCount
      <4>. QED  BY <2>3, <4>2, <4>3 DEF Kept
    <3>3. CASE Delivered(FS, v, b)
      <4>1. Receiving(u) /\ ToReceive(u, p_recvfrom[u], at[u])
        BY <1>2, <2>8, <3>3, Names DEF Delivered, Accepts, BlockedFor
      <4>2. /\ at[u] = "run" /\ ~Receiving(u)' /\ ~Sending(FS)'
            /\ buf'[u].body = b
        BY <1>1, <2>8, <3>3, <4>1, Names DEF Delivered, ToReceive
      <4>3. ~Served(u)' /\ ~Answering(u)'
        BY <1>4, <4>2 DEF Served, Answering
      <4>4. asked'[u].op = "READ" => buf'[u].body.type = "SYSCALL_RET" /\ Tells(u, buf[u].body.cnt)'
        BY <1>1, <2>3, <3>2, <4>2 DEF Tells
      <4>. QED  BY <1>1, <3>1, <4>3, <4>4 DEF Kept, Suspends
    <3>4. CASE Queued(FS, v, b)
      <4>1. /\ Sending(FS)' /\ p_sendto'[FS] = u /\ (Receiving(u)' <=> Receiving(u))
        BY <2>8, <3>4, Names DEF Queued
      <4>2. Answering(u)' /\ Served(u)'
        BY <1>4, <2>2, <2>5, <2>8, <4>1 DEF Answering, Served
      <4>3. asked'[u].op = "READ" => Tells(u, buf[FS].body.cnt)'
        BY <1>1, <2>5, <3>2 DEF Tells
      <4>. QED  BY <1>1, <3>1, <4>2, <4>3 DEF Kept, Suspends, Served
    <3>. QED  BY <2>4, <3>3, <3>4
  <2>. QED  BY <2>7, <2>8
<1>. QED  BY <1>1, <1>6, <1>7

-----------------------------------------------------------------------------
(* ... and the calls of TTY                                                *)

LEMMA TTYReceiveOwn ==
    ASSUME TermInv, NEW u \in Users, Kept(u), tty_receive
    PROVE  Kept(u)'
<1>1. /\ at[TTY] = "receive" /\ ~panicked /\ ~Sending(TTY) /\ ~Receiving(TTY)
      /\ msg_receive(TTY, ANY) /\ GoTo(TTY, "handle") /\ UNCHANGED <<asked, fs, tty, tty_table>>
  BY HereRuns DEF tty_receive
<1>2. /\ Consistent /\ NoMissedRendezvous /\ Placed /\ BlockedFor
  BY <1>1, Known
<1>3. /\ at'[TTY] = "handle" /\ \A x \in Native : x # TTY => at'[x] = at[x]
      /\ \/ TookInt(TTY, ANY) \/ Waits(TTY, ANY)
         \/ \E from \in {TTY, FS} \cup Users :
               from # TTY /\ Took(TTY, ANY, from) /\ ToSend(from, TTY, at[from])
               /\ buf[from].source = from
  BY <1>1, <1>2, Names, ReceiveStep DEF ToReceive, Sources
<1>4. \/ TookInt(TTY, ANY) \/ Waits(TTY, ANY)
      \/ Took(TTY, ANY, FS) /\ at[FS] = "device" /\ buf[FS].source = FS
  BY <1>3, Names DEF ToSend
<1>5. at'[FS] = at[FS] /\ at'[u] = at[u]
  BY <1>3, Names
<1>6. /\ \A x \in {FS, u} : (Receiving(x)' <=> Receiving(x)) /\ buf'[x] = buf[x]
      /\ Sending(u)' <=> Sending(u)
      /\ at[FS] # "device" => (Sending(FS)' <=> Sending(FS)) /\ p_sendto'[FS] = p_sendto[FS]
  BY <1>4, Names DEF TookInt, Waits, Took, Sending, Receiving
<1>7. /\ (Served(u)' <=> Served(u)) /\ ~Telling(u) /\ ~Telling(u)'
      /\ (Told(u)' <=> Told(u)) /\ ToldCount' = ToldCount
      /\ (Answering(u)' <=> Answering(u))
  BY <1>1, <1>3, <1>5, <1>6 DEF Served, Telling, TTYResumes, Told, FSHas, ToldCount, Answering
<1>8. Pending(u) => Pending(u)'
  <2>1. CASE Took(TTY, ANY, FS) /\ at[FS] = "device" /\ buf[FS].source = FS
    <3>1. TTYHas'
      BY <1>1, <1>3, <2>1, Names DEF TTYHas, Took
    <3>. QED  BY <1>1, <1>5, <1>6, <2>1, <3>1 DEF Pending, FSHas, TTYHas
  <2>2. CASE TookInt(TTY, ANY) \/ Waits(TTY, ANY)
    <3>1. Sending(FS)' <=> Sending(FS)
      BY <2>2, Names DEF TookInt, Waits, Sending
    <3>. QED  BY <1>1, <1>5, <1>6, <3>1 DEF Pending, FSHas, TTYHas
  <2>. QED  BY <1>4, <2>1, <2>2
<1>9. NothingNew(u) /\ SameLine(u) /\ (Holds(TermOf[u]) => Holds(TermOf[u])')
  BY <1>1, <1>5, <1>6, <1>7, <1>8 DEF NothingNew, Suspends, SameLine, Holds
<1>. QED  BY <1>9, KeptStays

\* TTY answers the request that it has.
LEMMA TTYReplyOwn ==
    ASSUME TermInv, NEW u \in Users, Kept(u), ~panicked',
           Here(TTY, "handle"), TTYHas, NEW b \in Bodies,
           msg_send(TTY, FS, b), GoTo(TTY, "read"), UNCHANGED <<asked, fs, tty>>,
           \/ SameLine(u) /\ (u = fs.src => fs.op # "READ")
           \/ /\ u = fs.src /\ tty_table'[TermOf[u]].tty_procnr = u
              /\ tty_table'[TermOf[u]].tty_left_cnt = fs.cnt
    PROVE  Kept(u)'
<1>1. at[TTY] = "handle" /\ ~panicked /\ ~Sending(TTY) /\ ~Receiving(TTY)
  BY HereRuns
<1>2. /\ Consistent /\ NoMissedRendezvous /\ Placed /\ BlockedFor
  BY <1>1, Known
<1>3. /\ fs.src \in Users /\ fs.op \in Calls /\ Served(fs.src)
      /\ asked[fs.src].op = fs.op /\ asked[fs.src].cnt = fs.cnt
      /\ FSAwaits /\ ~Sending(FS)
  BY <1>1, TTYHasRequest
<1>4. /\ at'[TTY] = "read" /\ \A x \in Native : x # TTY => at'[x] = at[x]
      /\ Delivered(TTY, FS, b) \/ Queued(TTY, FS, b)
  BY <1>2, Names, SendStep DEF ToSend
<1>5. at'[FS] = at[FS] /\ at'[u] = at[u]
  BY <1>4, Names
<1>6. /\ \A x \in {FS, u} : Sending(x)' <=> Sending(x)
      /\ (Receiving(u)' <=> Receiving(u)) /\ buf'[u] = buf[u]
  BY <1>3, <1>4, Names DEF Delivered, Queued
<1>7. /\ (Served(u)' <=> Served(u)) /\ ~Telling(u) /\ ~Telling(u)' /\ ~Told(u) /\ ~Told(u)'
      /\ ~Answering(u) /\ ~Answering(u)' /\ ~Pending(u)' /\ (Pending(u) => u = fs.src)
  BY <1>1, <1>3, <1>4, <1>5, <1>6
     DEF Served, Telling, TTYResumes, Told, FSHas, Answering, Pending, TTYHas, FSAwaits, Calls
<1>8. CASE SameLine(u) /\ (u = fs.src => fs.op # "READ")
  <2>1. Suspends(u)' => Suspends(u)
    BY <1>3, <1>7, <1>8 DEF Suspends
  <2>2. NothingNew(u) /\ (Holds(TermOf[u]) => Holds(TermOf[u])')
    BY <1>1, <1>5, <1>6, <1>7, <1>8, <2>1 DEF NothingNew, SameLine, Holds
  <2>. QED  BY <1>8, <2>2, KeptStays
<1>9. CASE /\ u = fs.src /\ tty_table'[TermOf[u]].tty_procnr = u
           /\ tty_table'[TermOf[u]].tty_left_cnt = fs.cnt
  <2>1. (Suspends(u) => ReaderOf(TermOf[u]) = u /\ Holds(TermOf[u]))'
    BY <1>3, <1>9 DEF Suspends, Kept, ReaderOf, Holds
  <2>2. (asked[u].op = "READ" => asked[u].cnt > 0)'
    BY DEF Kept
  <2>3. (Served(u) /\ ~Telling(u) /\ ~Told(u) /\ ~Answering(u))'
    BY <1>3, <1>7, <1>9
  <2>. QED  BY <2>1, <2>2, <2>3, KeptByTerminal
<1>. QED  BY <1>8, <1>9

LEMMA TTYRequestOwn ==
    ASSUME OwnTerminals, TermInv, NEW u \in Users, Kept(u), ~panicked',
           tty_do_open \/ tty_do_read \/ tty_do_write
    PROVE  Kept(u)'
<1>1. CASE tty_do_open
  <2>1. /\ Here(TTY, "handle") /\ ~panicked /\ TTYHas /\ Request.type = "DEV_OPEN"
        /\ fs.src \in Users /\ fs.op \in Calls
        /\ msg_send(TTY, FS, Body("SYSCALL_RET", 0, NO_TASK, 0))
        /\ GoTo(TTY, "read") /\ UNCHANGED <<asked, fs, tty, tty_table>>
    BY <1>1, TTYHandlesRequest DEF tty_do_open
  <2>2. fs.op # "READ"
    BY <2>1, Known, RequestFits
  <2>3. Body("SYSCALL_RET", 0, NO_TASK, 0) \in Bodies
    <3>1. "SYSCALL_RET" \in Sent /\ 0 \in Terminals /\ 0 \in 0..MaxCount
      BY Counted DEF Sent
    <3>. QED  BY <3>1, Fits
  <2>4. SameLine(u)
    BY <2>1 DEF SameLine
  <2>. QED  BY <2>1, <2>2, <2>3, <2>4, TTYReplyOwn
<1>2. CASE tty_do_write
  <2>1. /\ Here(TTY, "handle") /\ ~panicked /\ TTYHas /\ Request.type = "DEV_WRITE"
        /\ fs.src \in Users /\ fs.op \in Calls
        /\ msg_send(TTY, FS, [Request EXCEPT !.type = "SYSCALL_RET"])
        /\ GoTo(TTY, "read") /\ UNCHANGED <<asked, fs, tty, tty_table>>
    BY <1>2, TTYHandlesRequest DEF tty_do_write
  <2>2. fs.op # "READ"
    BY <2>1, Known, RequestFits
  <2>3. [Request EXCEPT !.type = "SYSCALL_RET"] \in Bodies
    BY <2>1, Known, Retyped DEF Sent
  <2>4. SameLine(u)
    BY <2>1 DEF SameLine
  <2>. QED  BY <2>1, <2>2, <2>3, <2>4, TTYReplyOwn
<1>3. CASE tty_do_read
  <2>1. /\ Here(TTY, "handle") /\ ~panicked /\ TTYHas /\ Request.type = "DEV_READ"
        /\ fs.src \in Users /\ fs.op \in Calls
        /\ tty_table' = [tty_table EXCEPT ![Request.dev] = Registered(@, FS, Request)]
        /\ msg_send(TTY, FS, [Request EXCEPT !.type = "SUSPEND_PROC"])
        /\ GoTo(TTY, "read") /\ UNCHANGED <<asked, fs, tty>>
    BY <1>3, TTYHandlesRequest DEF tty_do_read
  <2>2. TermTypeOK
    BY <2>1, Known
  <2>3. [Request EXCEPT !.type = "SUSPEND_PROC"] \in Bodies
    BY <2>1, <2>2, Retyped DEF Sent
  <2>4. /\ Request.dev = TermOf[fs.src] /\ TermOf[fs.src] \in Terminals
        /\ Request.nr = fs.src /\ Request.cnt = fs.cnt /\ fs.cnt \in 0..MaxCount
    BY <2>1, <2>2, RequestFits
  <2>5. PICK r \in TTYStruct : r = tty_table[TermOf[fs.src]]
    BY <2>2, <2>4 DEF TermTypeOK
  <2>6. PICK q : /\ q = Registered(r, FS, Request) /\ q.tty_procnr = fs.src
                 /\ q.tty_left_cnt = fs.cnt
    BY <2>1, <2>4, <2>5, RegisteredIs
  <2>7. /\ tty_table'[TermOf[fs.src]] = q
        /\ \A t \in Terminals : t # TermOf[fs.src] => tty_table'[t] = tty_table[t]
    BY <2>1, <2>2, <2>4, <2>5, <2>6 DEF TermTypeOK
  <2>8. TermOf[u] \in Terminals
    BY TerminalAssumption
  <2>9. u # fs.src => SameLine(u)
    BY <2>1, <2>7, <2>8 DEF OwnTerminals, SameLine
  <2>. QED  BY <2>1, <2>3, <2>6, <2>7, <2>9, TTYReplyOwn
<1>. QED  BY <1>1, <1>2, <1>3

\* TTY has FS told to resume u, with as many characters as u has got.
LEMMA TTYResumeOwn ==
    ASSUME OwnTerminals, TermInv, NEW u \in Users, Kept(u), ~panicked', tty_resume
    PROVE  Kept(u)'
<1>1. /\ at[TTY] = "resume" /\ ~panicked /\ ~Sending(TTY) /\ ~Receiving(TTY)
      /\ msg_send(TTY, tty_table[tty].tty_caller,
                  Body("RESUME_PROC", 0, tty_table[tty].tty_procnr, Len(tty_table[tty].line)))
      /\ tty_table' = [tty_table EXCEPT ![tty].tty_left_cnt = 0]
      /\ GoTo(TTY, "write") /\ UNCHANGED <<asked, fs, tty>>
  BY HereRuns DEF tty_resume
<1>2. /\ Consistent /\ NoMissedRendezvous /\ TermTypeOK /\ Placed /\ Filled
      /\ BlockedFor /\ Conversation /\ Readers
  BY <1>1, Known
<1>3. tty \in Terminals /\ Holds(tty) /\ TermOf[u] \in Terminals
  BY <1>1, <1>2, TerminalAssumption DEF TermTypeOK, Holds
<1>4. PICK r \in TTYStruct : r = tty_table[tty]
  BY <1>2, <1>3 DEF TermTypeOK
<1>5. PICK v \in Users : /\ v = r.tty_procnr /\ r.tty_caller = FS
                         /\ r.tty_left_cnt + Len(r.line) = asked[v].cnt
                         /\ TermOf[v] = tty /\ Served(v) /\ ~Answering(v)
  BY <1>2, <1>3, <1>4 DEF Filled, Readers, ReaderOf
<1>6. Len(r.line) \in 0..MaxCount /\ Len(r.line) <= asked[v].cnt
  <2>1. /\ r.tty_left_cnt \in 0..MaxCount /\ r.line \in Seq(Printable \cup {"newline"})
        /\ asked[v].cnt \in 0..MaxCount /\ MaxCount \in Nat
    BY <1>2, AskFits, Counted DEF TTYStruct
  <2>2. Len(r.line) \in Nat
    BY <2>1
  <2>. QED  BY <1>5, <2>1, <2>2
<1>7. PICK b \in Bodies : b.nr = v /\ b.cnt = Len(r.line) /\ msg_send(TTY, FS, b)
  <2>1. PICK b : b = Body("RESUME_PROC", 0, v, Len(r.line))
    OBVIOUS
  <2>2. b \in Bodies /\ b.nr = v /\ b.cnt = Len(r.line)
    BY <1>6, <2>1, Fits, Counted DEF Sent
  <2>. QED  BY <1>1, <1>4, <1>5, <2>1, <2>2
<1>8. /\ at'[TTY] = "write" /\ \A x \in Native : x # TTY => at'[x] = at[x]
      /\ Delivered(TTY, FS, b) \/ Queued(TTY, FS, b)
  BY <1>1, <1>2, <1>7, Names, SendStep DEF ToSend
<1>9. at'[FS] = at[FS] /\ at'[u] = at[u]
  BY <1>8, Names
<1>10. PICK q \in TTYStruct : tty_table' = [tty_table EXCEPT ![tty] = q] /\ q.line = r.line
  <2>1. PICK q : q = [r EXCEPT !.tty_left_cnt = 0]
    OBVIOUS
  <2>2. q \in TTYStruct /\ q.line = r.line
    BY <1>4, <2>1, Counted DEF TTYStruct
  <2>3. tty_table' = [tty_table EXCEPT ![tty] = q]
    BY <1>1, <1>4, <2>1
  <2>. QED  BY <2>2, <2>3
<1>11. /\ tty_table'[tty] = q
       /\ \A t \in Terminals : t # tty => tty_table'[t] = tty_table[t]
  BY <1>2, <1>3, <1>10 DEF TermTypeOK
<1>12. /\ \A x \in {FS, u} : Sending(x)' <=> Sending(x)
       /\ (Receiving(u)' <=> Receiving(u)) /\ buf'[u] = buf[u]
       /\ p_sendto'[FS] = p_sendto[FS] /\ buf'[TTY].body = b
  BY <1>8, Names DEF Delivered, Queued
<1>13. ~TTYHas /\ ~TTYHas' /\ ~TTYAnswers /\ ~FSAwaits /\ ~Telling(u)
  BY <1>1, <1>2, <1>8 DEF TTYHas, TTYAnswers, Conversation, Telling, TTYResumes
<1>14. (Served(u)' <=> Served(u)) /\ (Answering(u)' <=> Answering(u))
  BY <1>9, <1>12 DEF Served, Answering
<1>15. \/ /\ Receiving(FS) /\ at[FS] = "handle" /\ ~Receiving(FS)' /\ ~Sending(TTY)'
          /\ buf'[FS].source = TTY /\ buf'[FS].body = b
       \/ (Receiving(FS)' <=> Receiving(FS)) /\ buf'[FS] = buf[FS] /\ Sending(TTY)'
  <2>1. CASE Delivered(TTY, FS, b)
    <3>1. Receiving(FS) /\ ToReceive(FS, p_recvfrom[FS], at[FS])
      BY <1>2, <2>1, Names DEF Delivered, Accepts, BlockedFor
    <3>2. at[FS] = "handle"
      BY <1>13, <3>1, Names DEF ToReceive, FSAwaits
    <3>. QED  BY <1>1, <2>1, <3>1, <3>2, Names DEF Delivered
  <2>2. CASE Queued(TTY, FS, b)
    BY <2>2, Names DEF Queued
  <2>. QED  BY <1>8, <2>1, <2>2
<1>16. CASE u # v
  <2>1. SameLine(u) /\ (Holds(TermOf[u]) => Holds(TermOf[u])')
    <3>1. TermOf[u] # tty
      BY <1>5, <1>16 DEF OwnTerminals
    <3>. QED  BY <1>1, <1>3, <1>11, <3>1 DEF SameLine, Holds
  <2>2. /\ ~Telling(u)'
        /\ Told(u)' => Told(u) /\ ToldCount' = ToldCount
        /\ Answering(u)' => buf'[FS] = buf[FS]
        /\ (Told(u) => Told(u)') /\ (Pending(u) => Pending(u)')
    BY <1>1, <1>7, <1>8, <1>9, <1>12, <1>13, <1>15, <1>16, Names
       DEF Telling, Told, ToldCount, FSHas, Answering, Pending
  <2>3. NothingNew(u)
    BY <1>1, <1>9, <1>12, <1>13, <1>14, <2>2 DEF NothingNew, Suspends
  <2>. QED  BY <2>1, <2>3, KeptStays
<1>17. CASE u = v
  <2>1. Served(u) /\ ~Answering(u) /\ ~Told(u) /\ ~FSHas(u)
    BY <1>1, <1>3, <1>5, <1>17, OwnReader
  <2>2. Served(u)' /\ ~Answering(u)'
    BY <1>14, <2>1
  <2>3. Tells(u, Len(r.line))'
    BY <1>1, <1>5, <1>6, <1>10, <1>11, <1>17 DEF Tells, LineOf
  <2>4. \/ Told(u)' /\ ~Telling(u)' /\ ToldCount' = Len(r.line)
        \/ ~Told(u)' /\ Telling(u)' /\ buf'[TTY].body.cnt = Len(r.line)
    BY <1>1, <1>7, <1>8, <1>9, <1>12, <1>15, <1>17, <2>1
       DEF Told, FSHas, Telling, TTYResumes, ToldCount
  <2>5. (Told(u) => Tells(u, ToldCount))' /\ (Telling(u) => Tells(u, buf[TTY].body.cnt))'
    BY <2>3, <2>4 DEF Tells
  <2>. QED  BY <1>1, <2>2, <2>4, <2>5 DEF Kept, Suspends, Served
<1>. QED  BY <1>16, <1>17

-----------------------------------------------------------------------------
LEMMA TermStepOwn ==
    ASSUME OwnTerminals, TermInv, NEW u \in Users, Kept(u), ~panicked', [TermNext]_allVars
    PROVE  Kept(u)'
<1>1. ASSUME NEW v \in Users, Call(v, "OPEN", 0) \/ Call(v, "WRITE", 1)
      PROVE  Kept(u)'
  <2>1. {"OPEN", "WRITE"} \subseteq Calls /\ {0, 1} \subseteq 0..MaxCount
    BY Counted DEF Calls
  <2>. QED  BY <1>1, <2>1, CallOwn
<1>2. ASSUME NEW v \in Users, NEW cnt \in Counts, Call(v, "READ", cnt)
      PROVE  Kept(u)'
  <2>1. "READ" \in Calls /\ cnt \in 0..MaxCount /\ cnt > 0
    BY Counted, TerminalAssumption DEF Calls
  <2>. QED  BY <1>2, <2>1, CallOwn
<1>3. ASSUME NEW v \in Users, Await(v)  PROVE Kept(u)'
  BY <1>3, AwaitOwn
<1>4. ASSUME FSStep  PROVE Kept(u)'
  BY <1>4, Asks, FSTakeOwn, FSHearsOwn, FSResumesOwn, FSRepliesOwn, FSAsksOwn
<1>5. ASSUME TTYStep  PROVE Kept(u)'
  BY <1>5, RoundOwn, KeyboardReadOwn, DevWriteOwn, TTYResumeOwn, TTYReceiveOwn, TTYRequestOwn
     DEF TTYStep
<1>6. ASSUME clock_handler  PROVE Kept(u)'
  BY <1>6, ClockOwn
<1>7. ASSUME NEW key \in Keys, keyboard_handler(key)  PROVE Kept(u)'
  BY <1>7, KeyboardHandlerOwn
<1>8. ASSUME UNCHANGED allVars  PROVE Kept(u)'
  BY <1>8, IdleOwn
<1>. QED  BY <1>1, <1>2, <1>3, <1>4, <1>5, <1>6, <1>7, <1>8 DEF TermNext

LEMMA InitOwn == TermInit => OwnInv
<1>. SUFFICES ASSUME TermInit, NEW u \in Users  PROVE Kept(u)
  BY DEF OwnInv
<1>1. asked[u].op = "OPEN"
  BY DEF TermInit
<1>2. at[TTY] = "read" /\ at[FS] = "loop"
  <2>1. at = [p \in Native |-> CASE p = TTY -> "read" [] p = FS -> "loop" [] OTHER -> "run"]
    BY DEF TermInit
  <2>. QED  BY <2>1, Names
<1>3. ~Suspends(u) /\ ~Telling(u) /\ ~Told(u)
  BY <1>1, <1>2 DEF Suspends, Telling, TTYResumes, Told, FSHas
<1>. QED  BY <1>1, <1>3 DEF Kept

LEMMA OwnInvariant == ASSUME OwnTerminals  PROVE TermSpec => []OwnInv
<1>1. TermInit => OwnInv
  BY InitOwn
<1>2. TermInv /\ OwnInv /\ [TermNext]_allVars => OwnInv'
  <2>. SUFFICES ASSUME TermInv, OwnInv, [TermNext]_allVars, ~panicked', NEW u \in Users
                PROVE  Kept(u)'
    BY DEF OwnInv
  <2>1. ~panicked
    <3>. SUFFICES ASSUME panicked  PROVE FALSE
      OBVIOUS
    <3>1. UNCHANGED vars
      BY DEF TermNext, Call, Await, FSStep, FSTake, FSHears, FSResumes, FSReplies, FSAsks,
             FSHandles, TTYStep, TTYHandles, tty_dev_read, keyboard_read, keyboard_empty,
             tty_dev_write, tty_resume, tty_next, tty_receive, tty_hard_int, tty_do_open,
             tty_do_read, tty_do_write, Here, keyboard_handler, clock_handler, inform_int,
             InformWakes, InformLatches, allVars
    <3>. QED  BY <3>1 DEF vars
  <2>2. Kept(u)
    BY <2>1 DEF OwnInv
  <2>. QED  BY <2>2, TermStepOwn
<1>. QED  BY <1>1, <1>2, TermInvariant, PTL DEF TermSpec

\* Programs that do not share their terminals are not forgotten: while FS has
\* nothing under way, a program suspended in a read is the one that its
\* terminal will resume, unless the last character was an escape without room
\* for it; and TTY writes into nobody else's buffer.
THEOREM ReadersAlwaysRemembered == OwnTerminals => (TermSpec => []TermSound)
<1>. SUFFICES ASSUME OwnTerminals  PROVE TermSpec => []TermSound
  OBVIOUS
<1>1. TermInv /\ OwnInv => TermSound
  <2>. SUFFICES ASSUME TermInv, OwnInv  PROVE TermSound
    OBVIOUS
  <2>1. TermTypeOK /\ BufferOfReader
    BY BufferIsReaders DEF TermInv, Always
  <2>2. ASSUME NEW u \in Users, Idle(u)
        PROVE  Remembers(u) \/ Swallowed(u)
    <3>1. Receiving(FS) /\ p_recvfrom[FS] = ANY /\ Receiving(u) /\ asked[u].op = "READ" /\ ~panicked
      BY <2>2 DEF Idle, Reading, TermInv, Always
    <3>2. /\ Consistent /\ NoMissedRendezvous /\ BlockedFor /\ Conversation
      BY <3>1, Known
    <3>3. at[FS] = "handle" /\ at[u] = "run"
      BY <3>1, <3>2, Names DEF BlockedFor, ToReceive
    <3>4. ~Sending(FS)
      BY <3>1, <3>2, Names DEF Consistent, CallFields, Sending, Receiving
    <3>5. ~FSAwaits /\ ~TTYHas
      BY <3>2, <3>3 DEF FSAwaits, Conversation
    <3>6. ~Telling(u)
      <4>1. TTYResumes => p_sendto[TTY] = FS
        BY <3>2, Names DEF TTYResumes, BlockedFor, ToSend
      <4>2. ~TTYResumes
        BY <3>1, <3>2, <4>1, Names DEF TTYResumes, NoMissedRendezvous, Accepts
      <4>. QED  BY <4>2 DEF Telling
    <3>7. Suspends(u)
      BY <3>1, <3>3, <3>4, <3>5, <3>6
         DEF Suspends, Served, Pending, FSHas, Told, Answering
    <3>8. Swallowed(u) \/ (ReaderOf(TermOf[u]) = u /\ Holds(TermOf[u]))
      BY <3>1, <3>7 DEF OwnInv, Kept
    <3>. QED  BY <3>8 DEF Remembers, ReaderOf, Holds
  <2>. QED  BY <2>1, <2>2 DEF TermSound, ReaderRemembered
<1>. QED  BY <1>1, TermInvariant, OwnInvariant, PTL

\* A read that has returned tells how many characters its program has got: it
\* was answered once, when the line was complete, and by nothing else.
THEOREM ReadsAlwaysTellTruth == OwnTerminals => (TermSpec => []ReadTellsTruth)
<1>. SUFFICES ASSUME OwnTerminals  PROVE TermSpec => []ReadTellsTruth
  OBVIOUS
<1>1. TermInv /\ OwnInv => ReadTellsTruth
  <2>. SUFFICES ASSUME OwnInv, NEW u \in Users, Here(u, "run"), asked[u].op = "READ"
                PROVE  /\ buf[u].body.type = "SYSCALL_RET"
                       /\ buf[u].body.cnt = Len(tty_table[TermOf[u]].line)
                       /\ buf[u].body.cnt <= asked[u].cnt
    BY DEF ReadTellsTruth
  <2>1. at[u] = "run" /\ ~panicked /\ ~Receiving(u)
    BY HereRuns
  <2>. QED  BY <2>1 DEF OwnInv, Kept, Tells, LineOf
<1>. QED  BY <1>1, TermInvariant, OwnInvariant, PTL
=============================================================================
