------------------------------ MODULE Terminal ------------------------------
(***************************************************************************)
(* Reading and writing terminals: the keyboard and clock interrupts, the   *)
(* TTY task (kernel/tty.c, kernel/keyboard.c), the part of FS that passes  *)
(* requests on to it (fs/main.c, fs/open.c, fs/read_write.c) and the       *)
(* programs, on top of the kernel's IPC (Ipc).                             *)
(*                                                                         *)
(* A read is answered in two halves: TTY tells FS to leave the reader      *)
(* suspended (SUSPEND_PROC), and when its line is complete to resume it    *)
(* (RESUME_PROC).  As in ProcLife, `at' is where each program is and a     *)
(* step goes to the next kernel call; TTY's loops take a step per key.     *)
(* Interrupts come between any two steps; IpcSteps looks inside the calls. *)
(*                                                                         *)
(* A key is a model value for what one press puts into the keyboard        *)
(* buffer.  Modifier keys, break codes and screen output are left out.     *)
(***************************************************************************)
EXTENDS Ipc, FiniteSets

CONSTANTS
    TTY, FS,     \* the tasks
    Users,       \* the programs
    NR_CONSOLES, \* terminals are numbered from 0
    TermOf,      \* the terminal each program has opened
    Chars,       \* the printable keys besides "n" and "Backslash" pressed
    Keys,        \* all the keys that are pressed
    Console,     \* the console that Alt+F1, ... select
    Ops,         \* the system calls that programs make
    Counts,      \* how many characters programs ask for
    KB_IN_BYTES, TTY_IN_BYTES,   \* room in the keyboard buffer, in a ring
    MaxKeys      \* bound: how many keys are pressed

Terminals == 0..NR_CONSOLES - 1
Printable == Chars \cup {"n", "Backslash"}

Selects(key) == key \in DOMAIN Console

MaxCount == CHOOSE n \in Counts : \A m \in Counts : m <= n

ASSUME TerminalAssumption ==
    /\ NR_CONSOLES \in Nat \ {0}
    /\ {TTY, FS} \cup Users \subseteq Native
    /\ TTY \in IntTasks
    /\ TTY # FS /\ {TTY, FS} \cap Users = {}
    /\ TermOf \in [Users -> Terminals]
    /\ Console \in [DOMAIN Console -> Terminals]
    /\ Ops \subseteq {"OPEN", "READ", "WRITE"}
    /\ Chars \cap {"Enter", "Shift+Enter", "Backspace"} = {}
    /\ Counts \subseteq Nat \ {0}
    /\ {KB_IN_BYTES, TTY_IN_BYTES, MaxKeys} \subseteq Nat \ {0}
    /\ MaxCount \in Counts /\ \A n \in Counts : n <= MaxCount

\* What is sent fits into a MESSAGE, and only the kernel sends HARD_INT.
ASSUME MessagesAssumption ==
    /\ [type : {"OPEN", "READ", "WRITE", "DEV_OPEN", "DEV_READ", "DEV_WRITE",
                "SUSPEND_PROC", "RESUME_PROC", "SYSCALL_RET"},
        dev : Terminals, nr : Users \cup {NO_TASK}, cnt : 0..MaxCount] \subseteq Bodies
    /\ HARD_INT.type = "HARD_INT"

VARIABLES
    at,          \* where each program is
    asked,       \* the system call each program made last
    fs,          \* FS: the call it serves and the process it will answer
    kb_in,       \* the keyboard buffer, written by the interrupt
    key_pressed, \* set by the interrupt, reset by TTY
    current_console,
    tty,         \* TTY: the terminal its loop is at
    tty_table,   \* the struct of each terminal
    typed        \* how many keys have been pressed

deskVars == <<kb_in, key_pressed, current_console, typed>>
termVars == <<at, asked, fs, kb_in, key_pressed, current_console, tty,
              tty_table, typed>>
allVars  == <<vars, termVars>>

Body(t, dev, nr, cnt) == [type |-> t, dev |-> dev, nr |-> nr, cnt |-> cnt]

\* `line' stands for the first tty_trans_cnt characters at tty_req_buf.
init_tty == [ibuf |-> <<>>, tty_caller |-> NO_TASK, tty_procnr |-> NO_TASK,
             tty_left_cnt |-> 0, line |-> <<>>, escape_pending |-> FALSE]

FSIdle == [src |-> NO_TASK, op |-> "OPEN", cnt |-> 0]

TermInit ==
    /\ Init
    /\ at = [p \in Native |-> CASE p = TTY -> "read"
                                [] p = FS  -> "loop"
                                [] OTHER   -> "run"]
    /\ asked = [u \in Users |-> [op |-> "OPEN", cnt |-> 0]]
    /\ fs = FSIdle
    /\ kb_in = <<>>
    /\ key_pressed = FALSE
    /\ current_console = 0
    /\ tty = 0
    /\ tty_table = [t \in Terminals |-> init_tty]
    /\ typed = 0

Here(p, loc) == at[p] = loc /\ Runnable(p) /\ ~panicked
GoTo(p, loc) == at' = [at EXCEPT ![p] = loc]

-----------------------------------------------------------------------------
(* The programs                                                            *)

\* open(), read() and write() on a terminal: the SEND of send_recv(BOTH, ...)
Call(u, op, cnt) ==
    /\ op \in Ops
    /\ Here(u, "run")
    /\ msg_send(u, FS, Body(op, 0, NO_TASK, cnt))
    /\ asked' = [asked EXCEPT ![u] = [op |-> op, cnt |-> cnt]]
    /\ GoTo(u, "sent")
    /\ UNCHANGED <<fs, tty, tty_table, deskVars>>

\* ... and its RECEIVE.
Await(u) ==
    /\ Here(u, "sent")
    /\ msg_receive(u, FS)
    /\ GoTo(u, "run")
    /\ UNCHANGED <<asked, fs, tty, tty_table, deskVars>>

-----------------------------------------------------------------------------
(* FS                                                                      *)

FSTake ==
    /\ Here(FS, "loop")
    /\ msg_receive(FS, ANY)
    /\ GoTo(FS, "handle")
    /\ UNCHANGED <<asked, fs, tty, tty_table, deskVars>>

\* FS has received a request of kind op.
FSHandles(op) == Here(FS, "handle") /\ buf[FS].body.type = op

\* do_open and do_rdwt on a terminal: the SEND to TTY ...
FSAsks(op, request) ==
    LET src == buf[FS].source
        cnt == buf[FS].body.cnt
    IN
    /\ FSHandles(op)
    /\ msg_send(FS, TTY, Body(request, TermOf[src], src, cnt))
    /\ fs' = [src |-> src, op |-> op, cnt |-> cnt]
    /\ GoTo(FS, "device")
    /\ UNCHANGED <<asked, tty, tty_table, deskVars>>

\* ... and the RECEIVE.
FSHears ==
    /\ Here(FS, "device")
    /\ msg_receive(FS, TTY)
    /\ GoTo(FS, "reply")
    /\ UNCHANGED <<asked, fs, tty, tty_table, deskVars>>

\* Mutant: the source of the message is answered, not PROC_NR.
FSResumes_Source ==
    /\ FSHandles("RESUME_PROC")
    /\ fs' = [src |-> buf[FS].source, op |-> "RESUME_PROC",
              cnt |-> buf[FS].body.cnt]
    /\ GoTo(FS, "reply")
    /\ UNCHANGED <<vars, asked, tty, tty_table, deskVars>>

\* TTY has completed a line: the reader is answered.
FSResumes ==
    /\ FSHandles("RESUME_PROC")
    /\ fs' = [src |-> buf[FS].body.nr, op |-> "RESUME_PROC",
              cnt |-> buf[FS].body.cnt]
    /\ GoTo(FS, "reply")
    /\ UNCHANGED <<vars, asked, tty, tty_table, deskVars>>

\* Mutant: every request is answered at once.
Suspended_Never == FALSE

\* do_rdwt receives TTY's answer into fs_msg, do_open into another MESSAGE.
Suspended == fs.op \in {"READ", "WRITE"} /\ buf[FS].body.type = "SUSPEND_PROC"

\* The end of FS's loop: answer the caller, unless it is to be suspended.
FSReplies ==
    /\ Here(FS, "reply")
    /\ IF Suspended
       THEN UNCHANGED vars
       ELSE msg_send(FS, fs.src, Body("SYSCALL_RET", 0, NO_TASK, fs.cnt))
    /\ fs' = FSIdle
    /\ GoTo(FS, "loop")
    /\ UNCHANGED <<asked, tty, tty_table, deskVars>>

FSStep ==
    \/ FSTake \/ FSHears \/ FSResumes \/ FSReplies
    \/ FSAsks("OPEN", "DEV_OPEN")
    \/ FSAsks("READ", "DEV_READ")
    \/ FSAsks("WRITE", "DEV_WRITE")

-----------------------------------------------------------------------------
(* The interrupts                                                          *)

\* Mutant: a key that finds the buffer empty is not announced.
keyboard_handler_Silent(key) ==
    /\ ~panicked /\ typed < MaxKeys
    /\ kb_in' = IF Len(kb_in) < KB_IN_BYTES THEN Append(kb_in, key) ELSE kb_in
    /\ key_pressed' = (key_pressed \/ kb_in # <<>>)
    /\ typed' = typed + 1
    /\ UNCHANGED <<vars, at, asked, fs, tty, tty_table, current_console>>

\* A key is buffered, or dropped when the buffer is full.
keyboard_handler(key) ==
    /\ ~panicked /\ typed < MaxKeys
    /\ kb_in' = IF Len(kb_in) < KB_IN_BYTES THEN Append(kb_in, key) ELSE kb_in
    /\ key_pressed' = TRUE
    /\ typed' = typed + 1
    /\ UNCHANGED <<vars, at, asked, fs, tty, tty_table, current_console>>

\* Every clock tick tells TTY of keys, until TTY resets key_pressed.
clock_handler ==
    /\ key_pressed
    /\ inform_int(TTY)
    /\ UNCHANGED termVars

-----------------------------------------------------------------------------
(* TTY: from the keyboard to the rings                                     *)

\* tty_dev_read: only the current console reads the keyboard.
tty_dev_read ==
    /\ Here(TTY, "read")
    /\ GoTo(TTY, IF tty = current_console THEN "keys" ELSE "write")
    /\ UNCHANGED <<vars, asked, fs, tty, tty_table, deskVars>>

put_key(r, key) ==
    IF Len(r.ibuf) < TTY_IN_BYTES THEN [r EXCEPT !.ibuf = Append(@, key)] ELSE r

\* A key selects a console or goes into the ring of the terminal that reads
\* the keyboard, if there is room.
in_process(key) ==
    IF Selects(key)
    THEN /\ current_console' = Console[key]
         /\ UNCHANGED tty_table
    ELSE /\ tty_table' = [tty_table EXCEPT ![tty] = put_key(@, key)]
         /\ UNCHANGED current_console

\* One key of keyboard_read's loop.  The loop goes on with the same terminal
\* after a key that selects another console.
keyboard_read ==
    /\ Here(TTY, "keys")
    /\ kb_in # <<>>
    /\ kb_in' = Tail(kb_in)
    /\ in_process(Head(kb_in))
    /\ UNCHANGED <<vars, at, asked, fs, key_pressed, typed, tty>>

\* keyboard_read returns when the buffer is empty.
keyboard_empty ==
    /\ Here(TTY, "keys")
    /\ kb_in = <<>>
    /\ GoTo(TTY, "write")
    /\ UNCHANGED <<vars, asked, fs, tty, tty_table, deskVars>>

-----------------------------------------------------------------------------
(* TTY: from the rings to the readers                                      *)

\* A character goes into the reader's buffer.
Put(r, ch) == [r EXCEPT !.line = Append(@, ch), !.tty_left_cnt = @ - 1]

\* The character after a backslash: \n is a newline, \\ a backslash, and
\* before anything else the backslash is put after all.
Unescape(r, ch) ==
    [term  |-> [IF ch \in {"n", "Backslash"} \/ r.tty_left_cnt = 0
                THEN r ELSE Put(r, "Backslash") EXCEPT !.escape_pending = FALSE],
     ch    |-> IF ch = "n" THEN "Enter" ELSE ch,
     newline |-> ch = "n"]

\* The character of a key that was not escaped.
Plain(r, ch) == [term |-> r, ch |-> ch, newline |-> FALSE]

\* What one character does to the line of a reader with room left.
Edit(r, ch) ==
    CASE ch = "Shift+Enter"   -> Put(r, "newline")
      [] ch \in Printable     -> Put(r, ch)
      [] ch = "Backspace" /\ r.line # <<>> ->
            [r EXCEPT !.line = Front(@), !.tty_left_cnt = @ + 1]
      [] OTHER                -> r

\* The line is complete: Enter, or no room is left.
Complete(r, ch) == ch = "Enter" \/ r.tty_left_cnt = 0

\* tty_dev_write for one key of the ring: without a reader the key is dropped.
tty_dev_write ==
    LET key == Head(tty_table[tty].ibuf)
        r   == [tty_table[tty] EXCEPT !.ibuf = Tail(@)]
        c   == IF r.escape_pending THEN Unescape(r, key) ELSE Plain(r, key)
        e   == Edit(c.term, c.ch)
    IN
    /\ Here(TTY, "write")
    /\ tty_table[tty].ibuf # <<>>
    /\ \/ /\ ~r.escape_pending /\ key = "Backslash"
          /\ tty_table' = [tty_table EXCEPT ![tty] = [r EXCEPT !.escape_pending = TRUE]]
          /\ UNCHANGED at
       \/ /\ r.escape_pending \/ key # "Backslash"
          /\ c.term.tty_left_cnt = 0
          /\ tty_table' = [tty_table EXCEPT ![tty] = c.term]
          /\ UNCHANGED at
       \/ /\ r.escape_pending \/ key # "Backslash"
          /\ c.term.tty_left_cnt > 0
          /\ IF Complete(e, c.ch)
             THEN /\ GoTo(TTY, "resume")
                  /\ tty_table' =
                        [tty_table EXCEPT ![tty] =
                            IF c.newline THEN Put(e, "newline") ELSE e]
             ELSE /\ UNCHANGED at
                  /\ tty_table' = [tty_table EXCEPT ![tty] = e]
    /\ UNCHANGED <<vars, asked, fs, tty, deskVars>>

\* Mutant: the count is not reset after the line is complete.
tty_resume_KeepsCount ==
    /\ Here(TTY, "resume")
    /\ msg_send(TTY, tty_table[tty].tty_caller,
                Body("RESUME_PROC", 0, tty_table[tty].tty_procnr,
                     Len(tty_table[tty].line)))
    /\ GoTo(TTY, "write")
    /\ UNCHANGED <<asked, fs, tty, tty_table, deskVars>>

\* FS is told to resume the reader; only afterwards the count is reset.
tty_resume ==
    /\ Here(TTY, "resume")
    /\ msg_send(TTY, tty_table[tty].tty_caller,
                Body("RESUME_PROC", 0, tty_table[tty].tty_procnr,
                     Len(tty_table[tty].line)))
    /\ tty_table' = [tty_table EXCEPT ![tty].tty_left_cnt = 0]
    /\ GoTo(TTY, "write")
    /\ UNCHANGED <<asked, fs, tty, deskVars>>

\* Mutant: key_pressed is reset after the terminals have been served.
tty_next_Resets ==
    /\ Here(TTY, "write")
    /\ tty_table[tty].ibuf = <<>>
    /\ IF tty + 1 \in Terminals
       THEN GoTo(TTY, "read") /\ tty' = tty + 1 /\ UNCHANGED key_pressed
       ELSE GoTo(TTY, "receive") /\ tty' = 0 /\ key_pressed' = FALSE
    /\ UNCHANGED <<vars, asked, fs, tty_table, kb_in, current_console, typed>>

\* The ring is empty: on to the next terminal, and after the last to RECEIVE.
tty_next ==
    /\ Here(TTY, "write")
    /\ tty_table[tty].ibuf = <<>>
    /\ IF tty + 1 \in Terminals
       THEN GoTo(TTY, "read") /\ tty' = tty + 1
       ELSE GoTo(TTY, "receive") /\ tty' = 0
    /\ UNCHANGED <<vars, asked, fs, tty_table, deskVars>>

-----------------------------------------------------------------------------
(* TTY: requests                                                           *)

tty_receive ==
    /\ Here(TTY, "receive")
    /\ msg_receive(TTY, ANY)
    /\ GoTo(TTY, "handle")
    /\ UNCHANGED <<asked, fs, tty, tty_table, deskVars>>

TTYHandles(request) == Here(TTY, "handle") /\ buf[TTY].body.type = request

\* The clock's message: keys have been pressed.
tty_hard_int ==
    /\ TTYHandles("HARD_INT")
    /\ key_pressed' = FALSE
    /\ GoTo(TTY, "read")
    /\ UNCHANGED <<vars, asked, fs, tty, tty_table, kb_in, current_console, typed>>

\* DEV_OPEN is answered, nothing else.
tty_do_open ==
    /\ TTYHandles("DEV_OPEN")
    /\ msg_send(TTY, buf[TTY].source, Body("SYSCALL_RET", 0, NO_TASK, 0))
    /\ GoTo(TTY, "read")
    /\ UNCHANGED <<asked, fs, tty, tty_table, deskVars>>

\* The reader becomes the one the terminal works for.
Registered(r, src, m) ==
    [r EXCEPT !.tty_caller = src, !.tty_procnr = m.nr,
              !.tty_left_cnt = m.cnt, !.line = <<>>]

\* tty_do_read: register the reader and tell FS to suspend it.
tty_do_read ==
    LET src == buf[TTY].source
        m   == buf[TTY].body
    IN
    /\ TTYHandles("DEV_READ")
    /\ tty_table' = [tty_table EXCEPT ![m.dev] = Registered(@, src, m)]
    /\ msg_send(TTY, src, [m EXCEPT !.type = "SUSPEND_PROC"])
    /\ GoTo(TTY, "read")
    /\ UNCHANGED <<asked, fs, tty, deskVars>>

\* Mutant: a write is not answered.
tty_do_write_Silent ==
    /\ TTYHandles("DEV_WRITE")
    /\ GoTo(TTY, "read")
    /\ UNCHANGED <<vars, asked, fs, tty, tty_table, deskVars>>

\* tty_do_write: put the characters on the screen and answer.
tty_do_write ==
    /\ TTYHandles("DEV_WRITE")
    /\ msg_send(TTY, buf[TTY].source, [buf[TTY].body EXCEPT !.type = "SYSCALL_RET"])
    /\ GoTo(TTY, "read")
    /\ UNCHANGED <<asked, fs, tty, tty_table, deskVars>>

TTYStep ==
    \/ tty_dev_read \/ keyboard_read \/ keyboard_empty
    \/ tty_dev_write \/ tty_resume \/ tty_next
    \/ tty_receive \/ tty_hard_int
    \/ tty_do_open \/ tty_do_read \/ tty_do_write

-----------------------------------------------------------------------------
TermNext ==
    \/ \E u \in Users : Call(u, "OPEN", 0) \/ Call(u, "WRITE", 1) \/ Await(u)
    \/ \E u \in Users, cnt \in Counts : Call(u, "READ", cnt)
    \/ FSStep
    \/ TTYStep
    \/ clock_handler
    \/ \E key \in Keys : keyboard_handler(key)

TermSpec == TermInit /\ [][TermNext]_allVars

\* schedule() gives every runnable process its turn, and the clock ticks for
\* ever.  Nobody must press a key, and no program must make a call.
Fairness ==
    /\ WF_allVars(FSStep)
    /\ WF_allVars(TTYStep)
    /\ \A u \in Users : WF_allVars(Await(u))
    /\ WF_allVars(clock_handler)

FairTermSpec == TermSpec /\ Fairness
-----------------------------------------------------------------------------
\* The places in the programs of TTY, FS and the others.
TTYLocs == {"read", "keys", "write", "resume", "receive", "handle"}
FSLocs  == {"loop", "handle", "device", "reply"}
Locs    == TTYLocs \cup FSLocs \cup {"run", "sent"}

TTYStruct ==
    [ibuf : Seq(Keys), tty_caller : {FS, NO_TASK}, tty_procnr : Users \cup {NO_TASK},
     tty_left_cnt : 0..MaxCount, line : Seq(Printable \cup {"newline"}),
     escape_pending : BOOLEAN]

\* The variables have their types: the buffers stay within their sizes and a
\* line within what was asked for.
TermTypeOK ==
    /\ TypeOK
    /\ at \in [Native -> Locs]
    /\ asked \in [Users -> [op : {"OPEN", "READ", "WRITE"}, cnt : 0..MaxCount]]
    /\ fs \in [src : Users \cup {NO_TASK}, cnt : 0..MaxCount,
               op : {"OPEN", "READ", "WRITE", "RESUME_PROC"}]
    /\ kb_in \in Seq(Keys) /\ Len(kb_in) <= KB_IN_BYTES
    /\ key_pressed \in BOOLEAN
    /\ current_console \in Terminals /\ tty \in Terminals
    /\ tty_table \in [Terminals -> TTYStruct]
    /\ \A t \in Terminals :
          /\ Len(tty_table[t].ibuf) <= TTY_IN_BYTES
          /\ tty_table[t].tty_left_cnt + Len(tty_table[t].line) <= MaxCount
    /\ typed \in 0..MaxKeys

\* The read of u has not been answered.
Reading(u) == asked[u].op = "READ" /\ ~Here(u, "run")

\* TTY writes only into the buffer of a process that waits for its characters,
\* and never beyond what that process asked for: while a terminal has a reader
\* registered, the room left and the characters written make up its count.
BufferOfReader ==
    \A t \in Terminals :
        LET r == tty_table[t]
        IN  r.tty_left_cnt > 0 =>
               /\ r.tty_procnr \in Users
               /\ Reading(r.tty_procnr)
               /\ r.tty_left_cnt + Len(r.line) = asked[r.tty_procnr].cnt

\* A key that has been pressed is noticed: while TTY waits for a message, a
\* key in the keyboard buffer still makes the clock wake it up, whatever the
\* order in which TTY's reset of key_pressed and the interrupts came.
KeysNoticed ==
    kb_in # <<>> /\ Receiving(TTY) => key_pressed

\* FS has nothing under way and u is suspended in a read.
Idle(u) == /\ Receiving(FS) /\ p_recvfrom[FS] = ANY
           /\ Reading(u) /\ Receiving(u)

\* The terminal of u will resume u when its line is complete.
Remembers(u) ==
    LET r == tty_table[TermOf[u]]
    IN  r.tty_procnr = u /\ (r.tty_left_cnt > 0 \/ at[TTY] = "resume")

\* The last character that fitted was a backslash before an unknown escape.
Swallowed(u) ==
    LET r == tty_table[TermOf[u]]
    IN  r.tty_procnr = u /\ r.tty_left_cnt = 0 /\ r.line # <<>> /\ Last(r.line) = "Backslash"

\* No reader is forgotten: a program suspended in a read is the one that its
\* terminal will resume (but for an escape that is given up when there is no
\* room left: tty_dev_write then skips the code that resumes).
ReaderRemembered ==
    \A u \in Users : Idle(u) => Remembers(u) \/ Swallowed(u)

TermSound == TermTypeOK /\ BufferOfReader /\ ReaderRemembered

\* A read that has returned tells how many characters are in the buffer, and
\* they are at most as many as were asked for: it was answered once, when its
\* line was complete, and not by the answer to another request.
ReadTellsTruth ==
    \A u \in Users :
        Here(u, "run") /\ asked[u].op = "READ" =>
            /\ buf[u].body.type = "SYSCALL_RET"
            /\ buf[u].body.cnt = Len(tty_table[TermOf[u]].line)
            /\ buf[u].body.cnt <= asked[u].cnt

\* The servers never close a circle of senders.
NeverPanics == ~panicked

\* Every key that has been pressed is read in the end.
KeysRead == kb_in # <<>> ~> kb_in = <<>> \/ panicked

\* A complete line always reaches its reader, which returns from its read.
ReadReturns ==
    \A u \in Users :
        at[TTY] = "resume" /\ tty_table[tty].tty_procnr = u
            ~> Here(u, "run") \/ panicked

\* open() and write() on a terminal always return, whatever others read.
WriteReturns ==
    \A u \in Users :
        at[u] = "sent" /\ asked[u].op \in {"OPEN", "WRITE"}
            ~> Here(u, "run") \/ panicked
=============================================================================
