----------------------------- MODULE DiskProofs ------------------------------
(***************************************************************************)
(* The disk driver is correct for any partition tables, any requests and   *)
(* any number of programs that ask SYS: no interrupt is taken for a        *)
(* request, what FS has read or written is what is on the disk, no other   *)
(* sector changes, and every partition is found.                           *)
(***************************************************************************)
EXTENDS Disk, IpcProofs

-----------------------------------------------------------------------------
(* The invariant                                                           *)

Locs    == {"boot", "sent", "run", "loop", "reply", "ticks", "clock", "look",
            "wait", "data", "handle"}
Clients == {HD} \cup Users

\* HD is between a request and the next one, in a request, or has its answer
\* to FS under way; FS's request is with HD.
HDFree  == (at[HD] = "loop" /\ ~Sending(HD)) \/ (at[HD] = "handle" /\ Receiving(HD))
HDDone  == at[HD] = "loop" /\ Sending(HD)
HDTaken == at[HD] = "handle" /\ ~Receiving(HD)
Polls   == at[HD] \in {"ticks", "clock", "look"}
HDWorks == Polls \/ at[HD] \in {"wait", "data", "reply"}
FSOut   == (at[FS] = "sent" /\ ~Sending(FS)) \/ (at[FS] = "boot" /\ Receiving(FS))

\* HD waits for the interrupt of its command; it has got it.
Awaits == at[HD] = "wait" \/ (at[HD] = "data" /\ Receiving(HD))
Told   == at[HD] = "data" /\ ~Receiving(HD)

\* SYS has a question of c to answer.
SysHas(c) == \/ at[SYS] = "reply" /\ ~Receiving(SYS) /\ buf[SYS].source = c
             \/ Sending(SYS) /\ p_sendto[SYS] = c

\* Why a process is blocked.
SendsFor(p) ==
    \/ p = FS  /\ p_sendto[p] = HD  /\ at[p] = "sent"
    \/ p = HD  /\ p_sendto[p] = SYS /\ at[p] = "clock"
    \/ p = HD  /\ p_sendto[p] = FS  /\ at[p] = "loop"
    \/ p = SYS /\ p_sendto[p] \in Clients /\ at[p] = "loop"
    \/ p \in Users /\ p_sendto[p] = SYS /\ at[p] = "sent"

ReceivesFor(p) ==
    \/ p = FS  /\ p_recvfrom[p] = HD  /\ at[p] = "boot"
    \/ p = HD  /\ p_recvfrom[p] = ANY /\ at[p] = "handle"
    \/ p = HD  /\ p_recvfrom[p] = SYS /\ at[p] = "look"
    \/ p = HD  /\ p_recvfrom[p] = INTERRUPT /\ at[p] = "data"
    \/ p = SYS /\ p_recvfrom[p] = ANY /\ at[p] = "reply"
    \/ p \in Users /\ p_recvfrom[p] = SYS /\ at[p] = "run"

BlockedFor ==
    \A p \in Procs :
        /\ Sending(p) => SendsFor(p) /\ buf[p].source = p /\ buf[p].body \in Bodies
        /\ Receiving(p) => ReceivesFor(p)

\* SYS answers those who wait for it, HD only while it asks for the time.
SysAnswers ==
    /\ at[SYS] = "reply" /\ ~Receiving(SYS) =>
          buf[SYS].source \in Clients /\ buf[SYS].body \in Bodies
    /\ SysHas(HD) => \/ at[HD] = "clock" /\ ~Sending(HD)
                     \/ at[HD] = "look" /\ Receiving(HD)
    /\ ~has_int_msg[SYS]

\* A request of FS is with HD, in its hands, or answered.
OneRequest ==
    /\ HDFree <=> ~FSOut
    /\ Sending(FS) => buf[FS].body = Body(asked.op, asked)
    /\ HDTaken => buf[HD].source = FS /\ buf[HD].body = Body(asked.op, asked)
    /\ HDWorks => msg = asked
    /\ asked \in Asked /\ (asked = NoReq => at[FS] = "boot" /\ ~FSOut)

\* FS's partition is in hd_info, or will be when the scan has come to it.
BootKnown == hd_info.logical[BootIndex] = FirstData
Opening   == asked.op = "DEV_OPEN"
             /\ (Sending(FS) \/ HDTaken \/ Polls \/ at[HD] \in {"wait", "data"})

ScanKnows ==
    /\ BootKnown \/ asked.op = "none" \/ Opening
    /\ scan # NoScan => Opening /\ HDWorks
    /\ HDWorks /\ at[HD] # "reply" /\ cmd.op = "IDENTIFY" => msg.op = "DEV_OPEN" /\ scan = NoScan
    /\ HDWorks /\ at[HD] # "reply" /\ msg.op = "DEV_OPEN" => cmd.op \in {"IDENTIFY", "READ"}
    /\ Opening /\ scan # NoScan =>
          /\ scan = [part |-> scan.part, sub |-> scan.sub, sect |-> scan.sect]
          /\ scan.part \in 1..NR_PART_PER_DRIVE /\ scan.sub \in 0..NR_SUB_PER_PART - 1
          /\ \E j \in 1..NR_PART_PER_DRIVE : EntryOf(0, j).sys_id # "NO_PART"
          /\ \A j \in 1..NR_PART_PER_DRIVE :
                Extended(j) => hd_info.primary[j] = EntryOf(0, j).start_sect
          /\ scan.sub = 0 => scan.sect = EntryOf(0, scan.part).start_sect
          /\ scan.part > BootPart \/ (scan.part = BootPart /\ scan.sub > 0) => BootKnown
    /\ layout \in Layouts

\* The controller raises an interrupt for a command that HD waits for, and
\* then HD takes it: there is one of them, in one place, or the controller is
\* still at work.
OneInterrupt ==
    /\ ctl = Controller(ctl.st, ctl.op, ctl.sect, ctl.left)
    /\ ctl.st \in {"ready", "busy", "setup", "drq"} /\ ctl.left \in 0..MaxCount
    /\ ctl.st = "drq" \/ ctl.st = "setup" \/ (ctl.st = "busy" /\ ctl.op # "WRITE")
          => ctl.left >= 1
    /\ at[HD] \in {"loop", "handle", "reply"} \/ (Polls /\ want = "BSY")
          => ctl.st = "ready" /\ ~intrq /\ ~has_int_msg[HD]
    /\ Polls /\ want = "DRQ"
          => ctl.st # "busy" /\ ~intrq /\ ~has_int_msg[HD]
    /\ Awaits =>
          /\ ctl.st # "setup" /\ ~(intrq /\ has_int_msg[HD])
          /\ intrq \/ has_int_msg[HD] =>
                ctl.st # "busy" /\ (ctl.op # "WRITE" => ctl.st = "drq")
    /\ Told => /\ ~intrq /\ ~has_int_msg[HD] /\ ctl.st \in {"drq", "ready"}
               /\ ctl.op # "WRITE" => ctl.st = "drq"

\* The first n sectors of the request are both in the buffer and on the disk.
Copied(n) == \A i \in 1..n : mem[i] = dsk[FirstData + asked.pos + i - 1]

\* How far the transfer of the request has come.
Reading  == HDWorks /\ msg.op = "DEV_READ"
Writing  == HDWorks /\ msg.op = "DEV_WRITE"
Commands == Polls /\ want = "BSY"
NextSect == FirstData + asked.pos + asked.cnt - left

\* hd_info is the record it began as.
InfoIs ==
    /\ hd_info = [primary |-> hd_info.primary, logical |-> hd_info.logical,
                  open_cnt |-> hd_info.open_cnt]
    /\ hd_info.primary = [j \in 0..NR_PART_PER_DRIVE |-> hd_info.primary[j]]
    /\ hd_info.logical = [k \in 0..NrSubs - 1 |-> hd_info.logical[k]]

Transfers ==
    /\ ~HDWorks /\ ~HDTaken /\ ~Sending(FS) => Copied(asked.cnt)
    /\ (Reading \/ Writing) /\ Commands =>
          /\ left = asked.cnt /\ cmd.sect = NextSect /\ cmd.count = asked.cnt % MaxCount
          /\ cmd.op = IF Reading THEN "READ" ELSE "WRITE"
    /\ (Reading \/ Writing) /\ at[HD] # "reply" => left >= 1
    /\ Reading \/ Writing => Copied(asked.cnt - left)
    /\ Reading /\ at[HD] \in {"wait", "data"} =>
          ctl.op = "READ" /\ ctl.sect = NextSect /\ ctl.left <= left
    /\ Writing /\ Polls /\ want = "DRQ" =>
          ctl.op = "WRITE" /\ ctl.sect = NextSect /\ ctl.left <= left
    /\ Writing /\ at[HD] \in {"wait", "data"} =>
          /\ ctl.op = "WRITE" /\ ctl.sect = NextSect + 1 /\ ctl.left <= left - 1
          /\ Copied(asked.cnt - left + 1)
    /\ HDWorks /\ ~Reading /\ ~Writing =>
          /\ at[HD] \in {"wait", "data"} => ctl.op # "WRITE" /\ ctl.left = 1
          /\ Commands => cmd.op # "WRITE" /\ cmd.count = 1 % MaxCount
    /\ want = "DRQ" => Writing
    /\ asked.op \in {"DEV_READ", "DEV_WRITE"} => mem = [i \in 1..asked.cnt |-> mem[i]]
    /\ dsk = [s \in FirstData..NrSects |-> dsk[s]]
    /\ InfoIs

\* What holds also when the machine has stopped.
Always ==
    /\ Consistent /\ DiskTypeOK /\ at \in [Native -> Locs]
    /\ at[HD] \in {"loop", "handle", "reply"} => left = 0
    /\ OneInterrupt

DiskInv == Always /\ (~panicked => BlockedFor /\ SysAnswers /\ OneRequest
                                   /\ ScanKnows /\ Transfers)

-----------------------------------------------------------------------------
(* Who talks to whom                                                       *)

LEMMA Names ==
    /\ {FS, HD, SYS} \subseteq Native /\ {FS, HD, SYS} \subseteq Procs
    /\ FS # HD /\ FS # SYS /\ HD # SYS /\ HD \in IntTasks
    /\ \A u \in Users : u \in Native /\ u \in Procs /\ u \notin {FS, HD, SYS}
    /\ ANY \notin Procs /\ INTERRUPT \notin Procs /\ ANY # INTERRUPT
BY IpcAssumption, DiskAssumption

LEMMA Stays ==
    ASSUME Consistent, UNCHANGED vars
    PROVE  Consistent' /\ TypeOK'
<1>1. Consistent'
  BY NextConsistent
<1>. QED  BY <1>1 DEF Consistent

LEMMA Goes ==
    ASSUME at \in [Native -> Locs], NEW p \in Native, NEW loc \in Locs, GoTo(p, loc)
    PROVE  /\ at' \in [Native -> Locs] /\ at'[p] = loc
           /\ \A x \in Native : x # p => at'[x] = at[x]
BY DEF GoTo

LEMMA HereRuns ==
    ASSUME NEW p, NEW loc, Here(p, loc)
    PROVE  at[p] = loc /\ ~panicked /\ ~Sending(p) /\ ~Receiving(p)
BY DEF Here, Runnable, Sending, Receiving

\* While HD works on a request, FS waits for the answer.
LEMMA FSWaits ==
    ASSUME BlockedFor, OneRequest, HDWorks \/ HDTaken
    PROVE  FSOut /\ ~Sending(FS) /\ ~HDFree /\ ~HDDone /\ asked # NoReq
<1>1. ~HDFree /\ ~HDDone
  BY DEF HDWorks, HDTaken, HDFree, HDDone, Polls
<1>2. FSOut
  BY <1>1 DEF OneRequest
<1>3. Sending(FS) => at[FS] = "sent"
  BY Names DEF BlockedFor, SendsFor
<1>4. ~Sending(FS)
  BY <1>2, <1>3 DEF FSOut
<1>5. asked # NoReq
  BY <1>2 DEF OneRequest
<1>. QED  BY <1>1, <1>2, <1>4, <1>5

\* HD goes on with a request, without a call.
LEMMA HDGoesOn ==
    ASSUME BlockedFor, SysAnswers, OneRequest, at \in [Native -> Locs],
           UNCHANGED <<vars, asked>>, ~Sending(HD), ~Receiving(HD),
           at[HD] \in {"look", "handle", "data"},
           NEW loc \in {"ticks", "wait", "data", "reply"}, GoTo(HD, loc), msg' = asked
    PROVE  /\ BlockedFor' /\ SysAnswers' /\ OneRequest'
           /\ at' \in [Native -> Locs] /\ at'[HD] = loc
           /\ ~Sending(HD)' /\ ~Receiving(HD)' /\ ~Sending(FS)'
<1>1. /\ at' \in [Native -> Locs] /\ at'[HD] = loc
      /\ \A x \in Native : x # HD => at'[x] = at[x]
  BY Goes, Names DEF Locs
<1>2. /\ \A x \in Procs : Sending(x)' = Sending(x) /\ Receiving(x)' = Receiving(x)
      /\ UNCHANGED <<p_sendto, p_recvfrom, buf>>
  BY DEF vars, Sending, Receiving
<1>3. ~Sending(HD)' /\ ~Receiving(HD)'
  BY <1>2, Names
<1>4. BlockedFor'
  <2>1. ASSUME NEW p \in Procs
        PROVE  /\ Sending(p)' => SendsFor(p)' /\ buf'[p].source = p /\ buf'[p].body \in Bodies
               /\ Receiving(p)' => ReceivesFor(p)'
    <3>1. CASE p = HD
      BY <1>3, <3>1
    <3>2. CASE p # HD
      BY <1>1, <1>2, <3>2, Names DEF BlockedFor, SendsFor, ReceivesFor
    <3>. QED  BY <3>1, <3>2
  <2>. QED  BY <2>1 DEF BlockedFor
<1>5. HDWorks \/ HDTaken
  BY DEF HDWorks, HDTaken, Polls
<1>6. FSOut /\ ~Sending(FS) /\ ~HDFree /\ asked # NoReq
  BY <1>5, FSWaits
<1>7. FSOut' /\ ~Sending(FS)' /\ ~HDFree' /\ ~HDTaken' /\ HDWorks'
  BY <1>1, <1>2, <1>3, <1>6, Names DEF FSOut, HDFree, HDTaken, HDWorks, Polls
<1>8. OneRequest'
  BY <1>6, <1>7 DEF OneRequest
<1>9. SysAnswers'
  <2>1. at'[SYS] = at[SYS] /\ SysHas(HD)' = SysHas(HD)
    BY <1>1, <1>2, Names DEF SysHas
  <2>2. ~SysHas(HD)
    BY DEF SysAnswers
  <2>. QED  BY <1>2, <2>1, <2>2, Names DEF SysAnswers, vars
<1>. QED  BY <1>1, <1>2, <1>3, <1>4, <1>7, <1>8, <1>9

\* Steps that leave HD in the same stage leave the request as far as it is.
LEMMA StageKeeps ==
    ASSUME ScanKnows, Transfers,
           UNCHANGED <<asked, mem, jobVars, cmd, want, dsk, layout>>,
           ctl'.op = ctl.op, ctl'.sect = ctl.sect, ctl'.left = ctl.left,
           Polls' <=> Polls, HDTaken' <=> HDTaken, Sending(FS)' <=> Sending(FS),
           at'[HD] = "reply" <=> at[HD] = "reply",
           at'[HD] \in {"wait", "data"} <=> at[HD] \in {"wait", "data"}
    PROVE  ScanKnows' /\ Transfers'
<1>1. HDWorks' <=> HDWorks
  BY DEF HDWorks
<1>2. UNCHANGED <<msg, left, scan, hd_info>> /\ (at'[HD] # "reply" <=> at[HD] # "reply")
  BY DEF jobVars
<1>3. (Reading' <=> Reading) /\ (Writing' <=> Writing) /\ (Commands' <=> Commands)
  BY <1>1, <1>2 DEF Reading, Writing, Commands
<1>4. Opening' <=> Opening
  BY DEF Opening
<1>5. ScanKnows'
  BY <1>1, <1>2, <1>4 DEF ScanKnows, BootKnown, Extended, EntryOf
<1>6. /\ InfoIs' /\ NextSect' = NextSect
      /\ Copied(asked.cnt)' <=> Copied(asked.cnt)
      /\ Copied(asked.cnt - left)' <=> Copied(asked.cnt - left)
      /\ Copied(asked.cnt - left + 1)' <=> Copied(asked.cnt - left + 1)
  <2>1. InfoIs'
    BY <1>2 DEF Transfers, InfoIs
  <2>. QED  BY <1>2, <2>1 DEF Copied, NextSect
<1>7. Transfers'
  BY <1>1, <1>2, <1>3, <1>6 DEF Transfers
<1>. QED  BY <1>5, <1>7

\* Calls that leave HD where it is leave the request where it is.
LEMMA DataKeeps ==
    ASSUME DiskInv, ~panicked,
           UNCHANGED <<asked, mem, jobVars, cmd, want, ctlVars>>,
           has_int_msg'[HD] = has_int_msg[HD],
           at'[HD] = at[HD] \/ (Polls /\ Polls'),
           HDTaken' <=> HDTaken, Awaits' <=> Awaits, Told' <=> Told,
           Sending(FS)' <=> Sending(FS)
    PROVE  /\ ScanKnows' /\ Transfers' /\ OneInterrupt'
           /\ at'[HD] \in {"loop", "handle", "reply"} => left' = 0
<1>1. /\ Polls' <=> Polls
      /\ \A l \in {"loop", "handle", "reply", "wait", "data"} : at'[HD] = l <=> at[HD] = l
  BY DEF Polls
<1>3. /\ UNCHANGED <<left, ctl, intrq, dsk, layout>>
      /\ at'[HD] \in {"loop", "handle", "reply"} <=> at[HD] \in {"loop", "handle", "reply"}
      /\ at'[HD] \in {"wait", "data"} <=> at[HD] \in {"wait", "data"}
  BY <1>1 DEF jobVars, ctlVars
<1>5. ScanKnows' /\ Transfers'
  BY <1>1, <1>3, StageKeeps DEF DiskInv
<1>7. OneInterrupt'
  BY <1>1, <1>3 DEF OneInterrupt, DiskInv, Always
<1>. QED  BY <1>3, <1>5, <1>7 DEF DiskInv, Always

-----------------------------------------------------------------------------
(* HD between its calls                                                    *)

LEMMA PollsAgainKeeps ==
    ASSUME DiskInv, PollsAgain
    PROVE  DiskInv'
<1>1. at[HD] = "look" /\ ~panicked /\ ~Sending(HD) /\ ~Receiving(HD)
  BY HereRuns DEF PollsAgain
<1>2. /\ Always /\ BlockedFor /\ SysAnswers /\ OneRequest
      /\ msg = asked
  BY <1>1 DEF DiskInv, OneRequest, HDWorks, Polls
<1>3. /\ BlockedFor' /\ SysAnswers' /\ OneRequest'
      /\ at' \in [Native -> Locs] /\ at'[HD] = "ticks"
      /\ ~Sending(HD)' /\ ~Receiving(HD)' /\ ~Sending(FS)'
  BY <1>1, <1>2, HDGoesOn DEF PollsAgain, Always, fsVars, jobVars
<1>4. want = "DRQ" /\ ~intrq
  BY <1>1, <1>2 DEF PollsAgain, Ready, OneInterrupt, Always, Polls, DiskTypeOK
<1>5. intrq' = intrq
  BY <1>2, <1>4 DEF PollsAgain, Always, DiskTypeOK
<1>6. ~Sending(FS)
  BY <1>1, <1>2, FSWaits DEF HDWorks, Polls
<1>7. /\ ScanKnows' /\ Transfers' /\ OneInterrupt'
      /\ at'[HD] \in {"loop", "handle", "reply"} => left' = 0
  BY <1>1, <1>3, <1>5, <1>6, DataKeeps
     DEF PollsAgain, fsVars, pollVars, jobVars, ctlVars, HDTaken, Awaits, Told, Polls, vars
<1>8. Consistent' /\ TypeOK' /\ ~panicked'
  BY <1>1, <1>2, Stays DEF PollsAgain, Always, vars
<1>9. DiskTypeOK'
  BY <1>2, <1>5, <1>8 DEF PollsAgain, Always, DiskTypeOK, pollVars, jobVars
<1>. QED  BY <1>3, <1>7, <1>8, <1>9 DEF DiskInv, Always

\* What is true when HD runs in the middle of a request.
LEMMA HDAt ==
    ASSUME DiskInv, NEW l \in {"look", "data"}, Here(HD, l)
    PROVE  /\ at[HD] = l /\ ~panicked /\ ~Sending(HD) /\ ~Receiving(HD) /\ ~Sending(FS)
           /\ BlockedFor /\ SysAnswers /\ OneRequest /\ ScanKnows /\ Transfers
           /\ Consistent /\ DiskTypeOK /\ OneInterrupt /\ at \in [Native -> Locs]
           /\ HDWorks /\ msg = asked /\ asked \in Asked
<1>1. at[HD] = l /\ ~panicked /\ ~Sending(HD) /\ ~Receiving(HD)
  BY HereRuns
<1>2. /\ BlockedFor /\ SysAnswers /\ OneRequest /\ ScanKnows /\ Transfers
      /\ Consistent /\ DiskTypeOK /\ OneInterrupt /\ at \in [Native -> Locs]
  BY <1>1 DEF DiskInv, Always
<1>3. HDWorks
  BY <1>1 DEF HDWorks, Polls
<1>4. ~Sending(FS)
  BY <1>2, <1>3, FSWaits
<1>. QED  BY <1>1, <1>2, <1>3, <1>4 DEF OneRequest

\* ... and when it has received one.
LEMMA HDHandling ==
    ASSUME DiskInv, NEW ops, HDHandles(ops)
    PROVE  /\ at[HD] = "handle" /\ ~panicked /\ ~Sending(HD) /\ ~Receiving(HD) /\ ~Sending(FS)
           /\ BlockedFor /\ SysAnswers /\ OneRequest /\ ScanKnows /\ Transfers
           /\ Consistent /\ DiskTypeOK /\ OneInterrupt /\ at \in [Native -> Locs]
           /\ HDTaken /\ buf[HD].body.req = asked /\ asked.op \in ops /\ asked \in Asked
           /\ left = 0
<1>1. at[HD] = "handle" /\ ~panicked /\ ~Sending(HD) /\ ~Receiving(HD)
  BY HereRuns DEF HDHandles
<1>2. /\ BlockedFor /\ SysAnswers /\ OneRequest /\ ScanKnows /\ Transfers
      /\ Consistent /\ DiskTypeOK /\ OneInterrupt /\ at \in [Native -> Locs]
  BY <1>1 DEF DiskInv, Always
<1>3. HDTaken
  BY <1>1 DEF HDTaken
<1>4. ~Sending(FS)
  BY <1>2, <1>3, FSWaits
<1>5. buf[HD].body = Body(asked.op, asked) /\ asked \in Asked
  BY <1>2, <1>3 DEF OneRequest
<1>6. left = 0
  BY <1>1 DEF DiskInv, Always
<1>. QED  BY <1>1, <1>2, <1>3, <1>4, <1>5, <1>6 DEF Body, HDHandles

\* The count register holds a count, or 0 for the largest.
LEMMA CountFits ==
    ASSUME NEW n \in Nat \ {0}, NEW m \in Nat \ {0}
    PROVE  LET c == IF n % m = 0 THEN m ELSE n % m
           IN  c \in 1..m /\ c <= n /\ (n = 1 => c = 1)
<1>. DEFINE q == n \div m
            r == n % m
<1>1. q \in Nat /\ r \in 0..(m - 1) /\ n = m * q + r
  OBVIOUS
<1>2. CASE r = 0
  <2>1. q >= 1
    BY <1>1, <1>2
  <2>2. m * q >= m
    BY <2>1, <1>1
  <2>3. m <= n
    BY <1>1, <1>2, <2>2
  <2>. QED  BY <1>2, <2>3
<1>3. CASE r # 0
  <2>1. m * q >= 0
    BY <1>1
  <2>2. r <= n
    BY <1>1, <2>1
  <2>. QED  BY <1>1, <1>3, <2>2
<1>. QED  BY <1>2, <1>3

\* Requests, member by member.
LEMMA AskedIs ==
    ASSUME NEW req \in Asked
    PROVE  /\ req.cnt \in Nat /\ req.pos \in Nat
           /\ req.op \in {"none", "DEV_OPEN", "DEV_IOCTL", "DEV_READ", "DEV_WRITE"}
           /\ req.op \in {"DEV_READ", "DEV_WRITE"} => req \in Requests /\ req.cnt \in Nat \ {0}
           /\ req.op \notin {"DEV_READ", "DEV_WRITE"} => req.cnt = 0
           /\ req.op = "none" <=> req = NoReq
BY RequestsAssumption DEF Asked, NoReq

LEMMA CmdOutKeeps ==
    ASSUME DiskInv, hd_cmd_out
    PROVE  DiskInv'
<1>1. /\ at[HD] = "look" /\ ~panicked /\ ~Sending(HD) /\ ~Receiving(HD) /\ ~Sending(FS)
      /\ BlockedFor /\ SysAnswers /\ OneRequest /\ ScanKnows /\ Transfers
      /\ Consistent /\ DiskTypeOK /\ OneInterrupt /\ at \in [Native -> Locs]
      /\ HDWorks /\ msg = asked /\ asked \in Asked
  BY HDAt DEF hd_cmd_out
<1>. DEFINE loc == IF cmd.op = "WRITE" THEN "ticks" ELSE "wait"
            c   == IF cmd.count = 0 THEN MaxCount ELSE cmd.count
<1>2. /\ UNCHANGED <<vars, fsVars, jobVars, cmd, dsk, layout>> /\ intrq' = FALSE
      /\ want = "BSY" /\ GoTo(HD, loc)
      /\ ctl' = Controller(IF cmd.op = "WRITE" THEN "setup" ELSE "busy", cmd.op, cmd.sect, c)
      /\ IF cmd.op = "WRITE" THEN want' = "DRQ" /\ late' = FALSE ELSE UNCHANGED <<want, late>>
  BY DEF hd_cmd_out, Poll
<1>3. /\ UNCHANGED <<asked, mem, msg, left, scan, hd_info, dsk, layout, cmd, has_int_msg, panicked>>
  BY <1>2 DEF fsVars, jobVars, vars
<1>4. /\ BlockedFor' /\ SysAnswers' /\ OneRequest'
      /\ at' \in [Native -> Locs] /\ at'[HD] = loc
      /\ ~Sending(HD)' /\ ~Receiving(HD)' /\ ~Sending(FS)'
  BY <1>1, <1>2, <1>3, HDGoesOn
<1>5. Commands /\ ctl.st = "ready" /\ ~has_int_msg[HD]
  BY <1>1, <1>2 DEF Commands, Polls, OneInterrupt
<1>6. /\ HDWorks' /\ (Polls' <=> cmd.op = "WRITE") /\ ~Told' /\ (Awaits' <=> cmd.op # "WRITE")
      /\ ~HDTaken' /\ (Reading' <=> Reading) /\ (Writing' <=> Writing) /\ ~Commands'
  BY <1>1, <1>2, <1>3, <1>4 DEF HDWorks, Polls, Told, Awaits, HDTaken, Reading, Writing, Commands
<1>7. c \in 1..MaxCount /\ (Reading \/ Writing => c <= left)
      /\ (~Reading /\ ~Writing => c = 1)
  <2>0. MaxCount \in Nat \ {0}
    BY DiskAssumption
  <2>1. CASE Reading \/ Writing
    <3>1. asked.cnt \in Nat \ {0} /\ left = asked.cnt /\ cmd.count = asked.cnt % MaxCount
      BY <1>1, <1>5, <2>1, AskedIs DEF Reading, Writing, Transfers
    <3>2. c \in 1..MaxCount /\ c <= asked.cnt
      BY <2>0, <3>1, CountFits
    <3>. QED  BY <2>1, <3>1, <3>2
  <2>2. CASE ~Reading /\ ~Writing
    <3>1. cmd.count = 1 % MaxCount
      BY <1>1, <1>5, <2>2 DEF Transfers
    <3>2. c \in 1..MaxCount /\ c = 1
      BY <2>0, <3>1, CountFits
    <3>. QED  BY <2>2, <3>2
  <2>. QED  BY <2>1, <2>2
<1>8. /\ ctl'.st = (IF cmd.op = "WRITE" THEN "setup" ELSE "busy") /\ ctl'.op = cmd.op
      /\ ctl'.sect = cmd.sect /\ ctl'.left = c
  BY <1>2 DEF Controller
<1>9. OneInterrupt'
  BY <1>2, <1>3, <1>4, <1>5, <1>6, <1>7, <1>8 DEF OneInterrupt
<1>10. ScanKnows'
  <2>1. Opening' <=> Opening
    BY <1>1, <1>3, <1>4, <1>6 DEF Opening, Polls
  <2>. QED  BY <1>1, <1>3, <1>6, <2>1 DEF ScanKnows, BootKnown, Extended, EntryOf
<1>11. Transfers'
  <2>1. (Copied(asked.cnt - left))' <=> Copied(asked.cnt - left)
    BY <1>3 DEF Copied
  <2>2. NextSect' = NextSect
    BY <1>3 DEF NextSect
  <2>3. ~(Reading /\ Writing)
    BY DEF Reading, Writing
  <2>4. /\ (Reading => cmd.op = "READ") /\ (Writing => cmd.op = "WRITE")
        /\ (Reading \/ Writing => cmd.sect = NextSect /\ Copied(asked.cnt - left) /\ left >= 1)
        /\ (~Reading /\ ~Writing => cmd.op # "WRITE")
    BY <1>1, <1>5, <2>3 DEF Transfers
  <2>5. Reading => at'[HD] = "wait" /\ ~Polls'
    BY <1>4, <1>6, <2>4
  <2>6. Writing => at'[HD] = "ticks" /\ want' = "DRQ"
    BY <1>2, <1>4, <2>4
  <2>7. /\ asked.op \in {"DEV_READ", "DEV_WRITE"} => mem = [i \in 1..asked.cnt |-> mem[i]]
        /\ dsk = [s \in FirstData..NrSects |-> dsk[s]]
        /\ InfoIs
    BY <1>1 DEF Transfers
  <2>8. /\ ~Reading /\ ~Writing => ctl'.op # "WRITE" /\ ctl'.left = 1
        /\ want' = "DRQ" => Writing
    BY <1>2, <1>7, <1>8, <2>4
  <2>. QED  BY <1>3, <1>6, <1>7, <1>8, <2>1, <2>2, <2>4, <2>5, <2>6, <2>7, <2>8 DEF Transfers, InfoIs
<1>12. DiskTypeOK'
  <2>1. ctl'.left \in 0..MaxCount
    BY <1>7, <1>8, DiskAssumption
  <2>2. want' \in {"BSY", "DRQ"}
    BY <1>1, <1>2 DEF DiskTypeOK
  <2>3. late' \in BOOLEAN /\ intrq' \in BOOLEAN
    BY <1>1, <1>2 DEF DiskTypeOK
  <2>. QED  BY <1>1, <1>2, <1>3, <2>1, <2>2, <2>3, Stays DEF DiskTypeOK
<1>13. Consistent'
  BY <1>1, <1>2, Stays
<1>14. ~(at'[HD] \in {"loop", "handle", "reply"})
  BY <1>4
<1>. QED  BY <1>4, <1>9, <1>10, <1>11, <1>12, <1>13, <1>14 DEF DiskInv, Always

\* A sector of a request lies on the disk.
LEMMA OnDisk ==
    ASSUME NEW req \in Asked, req.op \in {"DEV_READ", "DEV_WRITE"}, NEW i \in 1..req.cnt
    PROVE  FirstData + req.pos + i - 1 \in FirstData..NrSects
<1>1. req \in Requests /\ req.cnt \in Nat /\ req.pos \in Nat
  BY AskedIs
<1>2. FirstData + req.pos + req.cnt - 1 <= NrSects /\ FirstData \in Nat /\ NrSects \in Nat
  BY <1>1, RequestsAssumption, DiskAssumption
<1>. QED  BY <1>1, <1>2

LEMMA PortWriteKeeps ==
    ASSUME DiskInv, port_write
    PROVE  /\ DiskInv'
           /\ asked.op = "DEV_WRITE" /\ ctl.sect \in Target(asked)
<1>1. /\ at[HD] = "look" /\ ~panicked /\ ~Sending(HD) /\ ~Receiving(HD) /\ ~Sending(FS)
      /\ BlockedFor /\ SysAnswers /\ OneRequest /\ ScanKnows /\ Transfers
      /\ Consistent /\ DiskTypeOK /\ OneInterrupt /\ at \in [Native -> Locs]
      /\ HDWorks /\ msg = asked /\ asked \in Asked
  BY HDAt DEF port_write
<1>2. /\ UNCHANGED <<vars, fsVars, jobVars, pollVars, layout>> /\ intrq' = FALSE
      /\ want = "DRQ" /\ GoTo(HD, "wait") /\ ctl.st = "drq"
      /\ ctl' = Controller("busy", "WRITE", ctl.sect + 1, ctl.left - 1)
      /\ dsk' = [dsk EXCEPT ![ctl.sect] = mem[msg.cnt - left + 1]]
  BY DEF port_write, Ready
<1>3. UNCHANGED <<asked, mem, msg, left, scan, hd_info, layout, cmd, want, late, has_int_msg, panicked>>
  BY <1>2 DEF fsVars, jobVars, pollVars, vars
<1>4. /\ BlockedFor' /\ SysAnswers' /\ OneRequest'
      /\ at' \in [Native -> Locs] /\ at'[HD] = "wait"
      /\ ~Sending(HD)' /\ ~Receiving(HD)' /\ ~Sending(FS)'
  BY <1>1, <1>2, <1>3, HDGoesOn
<1>5. Writing /\ Polls /\ ~has_int_msg[HD] /\ ctl.left >= 1 /\ ctl.left \in 0..MaxCount
  BY <1>1, <1>2 DEF Transfers, Polls, OneInterrupt
<1>6. /\ ctl.op = "WRITE" /\ ctl.sect = NextSect /\ ctl.left <= left /\ left >= 1
      /\ Copied(asked.cnt - left) /\ asked.op = "DEV_WRITE"
  BY <1>1, <1>2, <1>5 DEF Transfers, Writing
<1>7. /\ asked.cnt \in Nat /\ asked.pos \in Nat /\ left \in 0..asked.cnt
      /\ FirstData \in Nat /\ NrSects \in Nat /\ MaxCount \in Nat
  BY <1>1, AskedIs, DiskAssumption DEF DiskTypeOK
<1>8. /\ HDWorks' /\ ~Polls' /\ ~Told' /\ Awaits' /\ ~HDTaken' /\ ~Reading' /\ Writing' /\ ~Commands'
  BY <1>1, <1>3, <1>4, <1>6 DEF HDWorks, Polls, Told, Awaits, HDTaken, Reading, Writing, Commands
<1>9. /\ ctl'.st = "busy" /\ ctl'.op = "WRITE"
      /\ ctl'.sect = ctl.sect + 1 /\ ctl'.left = ctl.left - 1
  BY <1>2 DEF Controller
<1>10. ctl'.left \in 0..MaxCount
  BY <1>5, <1>7, <1>9
<1>11. OneInterrupt'
  BY <1>2, <1>3, <1>4, <1>5, <1>8, <1>9, <1>10 DEF OneInterrupt
<1>12. ScanKnows'
  <2>1. (Opening' <=> Opening) /\ asked.op # "DEV_OPEN"
    BY <1>3, <1>6 DEF Opening
  <2>. QED  BY <1>1, <1>3, <1>8, <2>1 DEF ScanKnows, BootKnown, Extended, EntryOf
<1>. DEFINE n == asked.cnt - left
<1>13. n + 1 \in 1..asked.cnt /\ n \in Nat /\ ctl.sect = FirstData + asked.pos + (n + 1) - 1
  BY <1>6, <1>7 DEF NextSect
<1>14. ctl.sect \in FirstData..NrSects
  BY <1>1, <1>6, <1>13, OnDisk
<1>15. dsk = [s \in FirstData..NrSects |-> dsk[s]]
  BY <1>1 DEF Transfers
<1>16. \A i \in 1..n + 1 : dsk'[FirstData + asked.pos + i - 1] = mem[i]
  <2>1. TAKE i \in 1..n + 1
  <2>2. FirstData + asked.pos + i - 1 \in FirstData..NrSects
    <3>1. i \in 1..asked.cnt
      BY <1>7, <1>13
    <3>. QED  BY <1>1, <1>6, <3>1, OnDisk
  <2>3. CASE i = n + 1
    BY <1>1, <1>2, <1>13, <1>14, <1>15, <2>3
  <2>4. CASE i # n + 1
    <3>1. FirstData + asked.pos + i - 1 # ctl.sect /\ i \in 1..n
      BY <1>7, <1>13, <2>4
    <3>2. dsk'[FirstData + asked.pos + i - 1] = dsk[FirstData + asked.pos + i - 1]
      BY <1>2, <1>15, <2>2, <3>1
    <3>. QED  BY <1>6, <3>1, <3>2 DEF Copied
  <2>. QED  BY <2>3, <2>4
<1>17. dsk' = [s \in FirstData..NrSects |-> dsk'[s]]
  BY <1>2, <1>15
<1>18. Transfers'
  <2>1. (Copied(asked.cnt - left))' /\ (Copied(asked.cnt - left + 1))'
    BY <1>3, <1>7, <1>16 DEF Copied
  <2>2. ctl'.sect = NextSect' + 1 /\ ctl'.left <= left' - 1 /\ left' >= 1
    BY <1>3, <1>5, <1>6, <1>7, <1>9 DEF NextSect
  <2>3. /\ mem = [i \in 1..asked.cnt |-> mem[i]]
        /\ InfoIs
    BY <1>1, <1>6 DEF Transfers
  <2>. QED  BY <1>3, <1>4, <1>8, <1>9, <1>17, <2>1, <2>2, <2>3 DEF Transfers, InfoIs
<1>19. DiskTypeOK'
  <2>1. DOMAIN dsk' = FirstData..NrSects
    BY <1>17
  <2>2. want' \in {"BSY", "DRQ"} /\ late' \in BOOLEAN /\ intrq' \in BOOLEAN
    BY <1>1, <1>2, <1>3 DEF DiskTypeOK
  <2>. QED  BY <1>1, <1>2, <1>3, <1>10, <2>1, <2>2, Stays DEF DiskTypeOK
<1>20. Consistent' /\ ~(at'[HD] \in {"loop", "handle", "reply"})
  BY <1>1, <1>2, <1>4, Stays
<1>21. ctl.sect \in Target(asked)
  BY <1>7, <1>13 DEF Target
<1>. QED  BY <1>4, <1>6, <1>11, <1>12, <1>18, <1>19, <1>20, <1>21 DEF DiskInv, Always

\* Between requests the controller rests, nothing is scanned and hd_info holds
\* FS's partition, unless the disk is about to be opened.
LEMMA HandlingRests ==
    ASSUME DiskInv, NEW ops, HDHandles(ops)
    PROVE  /\ ctl.st = "ready" /\ ~intrq /\ ~has_int_msg[HD] /\ scan = NoScan /\ want = "BSY"
           /\ asked.op # "DEV_OPEN" => BootKnown
           /\ ~HDWorks
<1>1. /\ at[HD] = "handle" /\ ScanKnows /\ Transfers /\ DiskTypeOK /\ OneInterrupt
      /\ HDTaken /\ OneRequest /\ BlockedFor
  BY HDHandling
<1>2. ~HDWorks
  BY <1>1 DEF HDWorks, Polls
<1>3. want = "BSY"
  BY <1>1, <1>2 DEF Transfers, Writing, DiskTypeOK
<1>4. asked # NoReq /\ asked \in Asked
  BY <1>1, FSWaits DEF OneRequest
<1>5. asked.op # "none"
  BY <1>4, AskedIs
<1>. QED  BY <1>1, <1>2, <1>3, <1>5 DEF OneInterrupt, ScanKnows, Opening

LEMMA OpenKeeps ==
    ASSUME DiskInv, hd_open
    PROVE  DiskInv'
<1>1. HDHandles({"DEV_OPEN"})
  BY DEF hd_open
<1>2. /\ at[HD] = "handle" /\ ~panicked /\ ~Sending(HD) /\ ~Receiving(HD) /\ ~Sending(FS)
      /\ BlockedFor /\ SysAnswers /\ OneRequest /\ ScanKnows /\ Transfers
      /\ Consistent /\ DiskTypeOK /\ OneInterrupt /\ at \in [Native -> Locs]
      /\ HDTaken /\ buf[HD].body.req = asked /\ asked.op = "DEV_OPEN" /\ asked \in Asked
      /\ left = 0
  BY <1>1, HDHandling
<1>3. /\ UNCHANGED <<vars, fsVars, left, scan, hd_info, ctlVars>>
      /\ cmd' = Command("IDENTIFY", 0, 1) /\ want' = "BSY" /\ late' = FALSE
      /\ GoTo(HD, "ticks") /\ msg' = asked
  BY <1>2 DEF hd_open, Issue, Poll
<1>4. UNCHANGED <<asked, mem, left, scan, hd_info, ctl, intrq, dsk, layout, has_int_msg, panicked>>
  BY <1>3 DEF fsVars, ctlVars, vars
<1>5. /\ ctl.st = "ready" /\ ~intrq /\ ~has_int_msg[HD] /\ scan = NoScan
  BY <1>1, HandlingRests
<1>6. /\ BlockedFor' /\ SysAnswers' /\ OneRequest'
      /\ at' \in [Native -> Locs] /\ at'[HD] = "ticks"
      /\ ~Sending(HD)' /\ ~Receiving(HD)' /\ ~Sending(FS)'
  BY <1>2, <1>3, <1>4, HDGoesOn
<1>7. /\ HDWorks' /\ Polls' /\ ~Told' /\ ~Awaits' /\ ~HDTaken' /\ ~Reading' /\ ~Writing'
      /\ Commands'
  BY <1>2, <1>3, <1>6 DEF HDWorks, Polls, Told, Awaits, HDTaken, Reading, Writing, Commands
<1>8. OneInterrupt'
  BY <1>2, <1>3, <1>4, <1>5, <1>6, <1>7 DEF OneInterrupt
<1>9. ScanKnows'
  <2>1. Opening'
    BY <1>2, <1>4, <1>7 DEF Opening
  <2>. QED  BY <1>2, <1>3, <1>4, <1>5, <2>1 DEF ScanKnows, Command
<1>10. Transfers'
  <2>1. cmd'.op = "IDENTIFY" /\ cmd'.count = 1 % MaxCount
    BY <1>3 DEF Command
  <2>2. /\ dsk = [s \in FirstData..NrSects |-> dsk[s]]
        /\ InfoIs
    BY <1>2 DEF Transfers
  <2>. QED  BY <1>2, <1>3, <1>4, <1>6, <1>7, <2>1, <2>2 DEF Transfers, InfoIs
<1>11. DiskTypeOK'
  <2>1. left' \in 0..msg'.cnt
    BY <1>2, <1>3, <1>4, AskedIs
  <2>2. TypeOK' /\ late' \in BOOLEAN /\ intrq' \in BOOLEAN
    BY <1>2, <1>3, <1>4, Stays DEF DiskTypeOK
  <2>. QED  BY <1>2, <1>3, <1>4, <2>1, <2>2 DEF DiskTypeOK
<1>12. Consistent' /\ ~(at'[HD] \in {"loop", "handle", "reply"})
  BY <1>2, <1>3, <1>6, Stays
<1>. QED  BY <1>6, <1>8, <1>9, <1>10, <1>11, <1>12 DEF DiskInv, Always

LEMMA RdwtKeeps ==
    ASSUME DiskInv, hd_rdwt
    PROVE  DiskInv'
<1>1. HDHandles({"DEV_READ", "DEV_WRITE"})
  BY DEF hd_rdwt
<1>2. /\ at[HD] = "handle" /\ ~panicked /\ ~Sending(HD) /\ ~Receiving(HD) /\ ~Sending(FS)
      /\ BlockedFor /\ SysAnswers /\ OneRequest /\ ScanKnows /\ Transfers
      /\ Consistent /\ DiskTypeOK /\ OneInterrupt /\ at \in [Native -> Locs]
      /\ HDTaken /\ buf[HD].body.req = asked /\ asked.op \in {"DEV_READ", "DEV_WRITE"}
      /\ asked \in Asked
  BY <1>1, HDHandling
<1>3. /\ ctl.st = "ready" /\ ~intrq /\ ~has_int_msg[HD] /\ scan = NoScan /\ BootKnown
  BY <1>1, <1>2, HandlingRests
<1>4. BaseOf(MINOR_BOOT) = FirstData
  BY <1>3, LayoutAssumption DEF BaseOf, BootKnown, BootIndex
<1>. DEFINE op == IF asked.op = "DEV_READ" THEN "READ" ELSE "WRITE"
<1>5. /\ UNCHANGED <<vars, fsVars, scan, hd_info, ctlVars>>
      /\ cmd' = Command(op, FirstData + asked.pos, asked.cnt) /\ want' = "BSY" /\ late' = FALSE
      /\ GoTo(HD, "ticks") /\ msg' = asked /\ left' = asked.cnt
  BY <1>2, <1>4 DEF hd_rdwt, Issue, Poll
<1>6. UNCHANGED <<asked, mem, scan, hd_info, ctl, intrq, dsk, layout, has_int_msg, panicked>>
  BY <1>5 DEF fsVars, ctlVars, vars
<1>7. /\ BlockedFor' /\ SysAnswers' /\ OneRequest'
      /\ at' \in [Native -> Locs] /\ at'[HD] = "ticks"
      /\ ~Sending(HD)' /\ ~Receiving(HD)' /\ ~Sending(FS)'
  BY <1>2, <1>5, <1>6, HDGoesOn
<1>8. /\ HDWorks' /\ Polls' /\ ~Told' /\ ~Awaits' /\ ~HDTaken' /\ Commands'
      /\ (Reading' <=> asked.op = "DEV_READ") /\ (Writing' <=> asked.op = "DEV_WRITE")
  BY <1>2, <1>5, <1>7 DEF HDWorks, Polls, Told, Awaits, HDTaken, Reading, Writing, Commands
<1>9. OneInterrupt'
  BY <1>2, <1>3, <1>5, <1>6, <1>7, <1>8 DEF OneInterrupt
<1>10. cmd'.op = op /\ cmd'.sect = FirstData + asked.pos /\ cmd'.count = asked.cnt % MaxCount
  BY <1>5 DEF Command
<1>11. ScanKnows'
  <2>1. BootKnown' /\ ~Opening'
    BY <1>2, <1>3, <1>6 DEF BootKnown, Opening
  <2>. QED  BY <1>2, <1>3, <1>5, <1>6, <1>10, <2>1 DEF ScanKnows
<1>12. asked.cnt \in Nat \ {0} /\ asked.pos \in Nat /\ FirstData \in Nat
  BY <1>2, AskedIs, DiskAssumption
<1>13. Transfers'
  <2>1. /\ mem = [i \in 1..asked.cnt |-> mem[i]]
        /\ dsk = [s \in FirstData..NrSects |-> dsk[s]]
        /\ InfoIs
    BY <1>2 DEF Transfers
  <2>2. (Copied(asked.cnt - left))' /\ NextSect' = FirstData + asked.pos
    BY <1>5, <1>6, <1>12 DEF Copied, NextSect
  <2>. QED  BY <1>2, <1>5, <1>6, <1>7, <1>8, <1>10, <1>12, <2>1, <2>2 DEF Transfers, InfoIs
<1>14. DiskTypeOK'
  <2>1. left' \in 0..msg'.cnt
    BY <1>5, <1>12
  <2>2. TypeOK' /\ late' \in BOOLEAN /\ intrq' \in BOOLEAN
    BY <1>2, <1>5, <1>6, Stays DEF DiskTypeOK
  <2>. QED  BY <1>2, <1>5, <1>6, <2>1, <2>2 DEF DiskTypeOK
<1>15. Consistent' /\ ~(at'[HD] \in {"loop", "handle", "reply"})
  BY <1>2, <1>5, <1>7, Stays
<1>. QED  BY <1>7, <1>9, <1>11, <1>13, <1>14, <1>15 DEF DiskInv, Always

LEMMA IoctlKeeps ==
    ASSUME DiskInv, hd_ioctl
    PROVE  DiskInv'
<1>1. HDHandles({"DEV_IOCTL"})
  BY DEF hd_ioctl
<1>2. /\ at[HD] = "handle" /\ ~panicked /\ ~Sending(HD) /\ ~Receiving(HD) /\ ~Sending(FS)
      /\ BlockedFor /\ SysAnswers /\ OneRequest /\ ScanKnows /\ Transfers
      /\ Consistent /\ DiskTypeOK /\ OneInterrupt /\ at \in [Native -> Locs]
      /\ HDTaken /\ buf[HD].body.req = asked /\ asked.op = "DEV_IOCTL" /\ asked \in Asked
      /\ left = 0
  BY <1>1, HDHandling
<1>3. /\ ctl.st = "ready" /\ ~intrq /\ ~has_int_msg[HD] /\ scan = NoScan /\ BootKnown
      /\ want = "BSY"
  BY <1>1, <1>2, HandlingRests
<1>4. /\ UNCHANGED <<vars, asked, left, scan, hd_info, pollVars, ctlVars>>
      /\ GoTo(HD, "reply") /\ msg' = asked
  BY <1>2 DEF hd_ioctl
<1>5. UNCHANGED <<asked, left, scan, hd_info, cmd, want, late, ctl, intrq, dsk, layout,
                  has_int_msg, panicked>>
  BY <1>4 DEF pollVars, ctlVars, vars
<1>6. /\ BlockedFor' /\ SysAnswers' /\ OneRequest'
      /\ at' \in [Native -> Locs] /\ at'[HD] = "reply"
      /\ ~Sending(HD)' /\ ~Receiving(HD)' /\ ~Sending(FS)'
  BY <1>2, <1>4, <1>5, HDGoesOn
<1>7. /\ HDWorks' /\ ~Polls' /\ ~Told' /\ ~Awaits' /\ ~HDTaken' /\ ~Reading' /\ ~Writing'
      /\ ~Commands'
  BY <1>2, <1>4, <1>6 DEF HDWorks, Polls, Told, Awaits, HDTaken, Reading, Writing, Commands
<1>8. OneInterrupt'
  BY <1>2, <1>3, <1>5, <1>6, <1>7 DEF OneInterrupt
<1>9. ScanKnows'
  <2>1. BootKnown' /\ ~Opening'
    BY <1>2, <1>3, <1>5 DEF BootKnown, Opening
  <2>. QED  BY <1>2, <1>3, <1>5, <1>6, <2>1 DEF ScanKnows
<1>10. Transfers'
  <2>1. /\ dsk = [s \in FirstData..NrSects |-> dsk[s]]
        /\ InfoIs
    BY <1>2 DEF Transfers
  <2>. QED  BY <1>2, <1>3, <1>5, <1>6, <1>7, <2>1 DEF Transfers, InfoIs
<1>11. DiskTypeOK'
  <2>1. left' \in 0..msg'.cnt
    BY <1>2, <1>4, <1>5, AskedIs
  <2>2. TypeOK' /\ late' \in BOOLEAN /\ intrq' \in BOOLEAN
    BY <1>2, <1>4, <1>5, Stays DEF DiskTypeOK
  <2>. QED  BY <1>2, <1>4, <1>5, <2>1, <2>2 DEF DiskTypeOK
<1>12. Consistent'
  BY <1>2, <1>4, Stays
<1>. QED  BY <1>2, <1>5, <1>6, <1>8, <1>9, <1>10, <1>11, <1>12 DEF DiskInv, Always

LEMMA ReadsKeeps ==
    ASSUME DiskInv, ReadsSector
    PROVE  DiskInv'
<1>1. /\ at[HD] = "data" /\ ~panicked /\ ~Sending(HD) /\ ~Receiving(HD) /\ ~Sending(FS)
      /\ BlockedFor /\ SysAnswers /\ OneRequest /\ ScanKnows /\ Transfers
      /\ Consistent /\ DiskTypeOK /\ OneInterrupt /\ at \in [Native -> Locs]
      /\ HDWorks /\ msg = asked /\ asked \in Asked
  BY HDAt DEF ReadsSector
<1>2. /\ Reading /\ ~Writing /\ Told /\ asked.op = "DEV_READ"
  BY <1>1 DEF ReadsSector, Reading, Writing, Told
<1>3. /\ ctl.st = "drq" /\ ~intrq /\ ~has_int_msg[HD] /\ ctl.op = "READ" /\ ctl.sect = NextSect
      /\ ctl.left <= left /\ ctl.left >= 1 /\ ctl.left \in 0..MaxCount /\ left >= 1
      /\ Copied(asked.cnt - left)
  <2>1. ctl.op = "READ" /\ ctl.sect = NextSect /\ ctl.left <= left /\ left >= 1
        /\ Copied(asked.cnt - left)
    BY <1>1, <1>2 DEF Transfers
  <2>. QED  BY <1>1, <1>2, <2>1 DEF OneInterrupt
<1>4. /\ asked.cnt \in Nat /\ asked.pos \in Nat /\ left \in 0..asked.cnt
      /\ FirstData \in Nat /\ NrSects \in Nat /\ MaxCount \in Nat
  BY <1>1, AskedIs, DiskAssumption DEF DiskTypeOK
<1>. DEFINE n   == asked.cnt - left
            loc == IF left = 1 THEN "reply" ELSE "wait"
<1>5. n + 1 \in 1..asked.cnt /\ n \in Nat /\ ctl.sect = FirstData + asked.pos + (n + 1) - 1
  BY <1>3, <1>4 DEF NextSect
<1>6. ctl.sect \in FirstData..NrSects
  BY <1>1, <1>2, <1>5, OnDisk
<1>7. DOMAIN dsk = FirstData..NrSects
  BY <1>1 DEF DiskTypeOK
<1>8. /\ UNCHANGED <<vars, asked, msg, scan, hd_info, intrq, dsk, layout, pollVars>>
      /\ mem' = [mem EXCEPT ![n + 1] = dsk[ctl.sect]] /\ left' = left - 1
      /\ GoTo(HD, loc)
      /\ ctl' = Controller(IF ctl.left = 1 THEN "ready" ELSE "busy", ctl.op,
                           ctl.sect + 1, ctl.left - 1)
  BY <1>1, <1>2, <1>3, <1>6, <1>7 DEF ReadsSector, AfterSector, AfterRead, port_read
<1>9. UNCHANGED <<asked, msg, scan, hd_info, intrq, dsk, layout, cmd, want, late, has_int_msg, panicked>>
  BY <1>8 DEF pollVars, vars
<1>10. /\ BlockedFor' /\ SysAnswers' /\ OneRequest'
       /\ at' \in [Native -> Locs] /\ at'[HD] = loc
       /\ ~Sending(HD)' /\ ~Receiving(HD)' /\ ~Sending(FS)'
  BY <1>1, <1>8, <1>9, HDGoesOn
<1>11. /\ HDWorks' /\ ~Polls' /\ ~Told' /\ (Awaits' <=> left # 1) /\ ~HDTaken'
       /\ Reading' /\ ~Writing' /\ ~Commands'
  BY <1>1, <1>2, <1>9, <1>10 DEF HDWorks, Polls, Told, Awaits, HDTaken, Reading, Writing, Commands
<1>12. /\ ctl'.st = (IF ctl.left = 1 THEN "ready" ELSE "busy") /\ ctl'.op = "READ"
       /\ ctl'.sect = ctl.sect + 1 /\ ctl'.left = ctl.left - 1
       /\ ctl' = Controller(ctl'.st, ctl'.op, ctl'.sect, ctl'.left)
  BY <1>3, <1>8 DEF Controller
<1>13. /\ ctl'.left \in 0..MaxCount /\ (left = 1 => ctl.left = 1) /\ (ctl.left # 1 => ctl'.left >= 1)
       /\ left' \in 0..asked.cnt /\ (left # 1 => left' >= 1) /\ ctl'.left <= left'
       /\ (left = 1 => left' = 0)
  BY <1>3, <1>4, <1>8, <1>12
<1>14. OneInterrupt'
  BY <1>3, <1>9, <1>10, <1>11, <1>12, <1>13 DEF OneInterrupt
<1>15. ScanKnows'
  <2>1. asked.op # "DEV_OPEN" /\ asked.op # "none" /\ ~Opening /\ ~Opening'
    BY <1>2, <1>9 DEF Opening
  <2>2. BootKnown' <=> BootKnown
    BY <1>9 DEF BootKnown
  <2>. QED  BY <1>1, <1>2, <1>9, <2>1, <2>2 DEF ScanKnows
<1>16. mem = [i \in 1..asked.cnt |-> mem[i]]
  BY <1>1, <1>2 DEF Transfers
<1>17. \A i \in 1..n + 1 : mem'[i] = dsk[FirstData + asked.pos + i - 1]
  <2>1. TAKE i \in 1..n + 1
  <2>2. i \in 1..asked.cnt
    BY <1>4, <1>5
  <2>3. CASE i = n + 1
    BY <1>5, <1>8, <1>16, <2>3
  <2>4. CASE i # n + 1
    <3>1. i \in 1..n
      BY <1>5, <2>4
    <3>2. mem'[i] = mem[i]
      BY <1>8, <1>16, <2>2, <2>4
    <3>. QED  BY <1>3, <3>1, <3>2 DEF Copied
  <2>. QED  BY <2>3, <2>4
<1>18. Transfers'
  <2>1. mem' = [i \in 1..asked.cnt |-> mem'[i]]
    BY <1>8, <1>16
  <2>2. (Copied(asked.cnt - left))'
    <3>1. asked.cnt - left' = n + 1
      BY <1>4, <1>8
    <3>. QED  BY <1>9, <1>17, <3>1 DEF Copied
  <2>3. NextSect' = NextSect + 1
    <3>1. left' = left - 1 /\ asked' = asked
      BY <1>8, <1>9
    <3>. QED  BY <1>4, <3>1 DEF NextSect
  <2>4. want # "DRQ"
    BY <1>1, <1>2 DEF Transfers
  <2>5. /\ dsk = [s \in FirstData..NrSects |-> dsk[s]]
        /\ InfoIs
    BY <1>1 DEF Transfers
  <2>6. at'[HD] # "reply" => left' >= 1
    BY <1>10, <1>13
  <2>. QED  BY <1>3, <1>9, <1>11, <1>12, <1>13, <2>1, <2>2, <2>3, <2>4, <2>5, <2>6 DEF Transfers, InfoIs
<1>19. DiskTypeOK'
  <2>1. TypeOK' /\ want' \in {"BSY", "DRQ"} /\ late' \in BOOLEAN /\ intrq' \in BOOLEAN
    BY <1>1, <1>8, <1>9, Stays DEF DiskTypeOK
  <2>2. msg' \in Asked /\ left' \in 0..msg'.cnt
    BY <1>1, <1>9, <1>13
  <2>. QED  BY <1>7, <1>9, <1>13, <2>1, <2>2 DEF DiskTypeOK
<1>20. /\ Consistent'
       /\ at'[HD] \in {"loop", "handle", "reply"} => left' = 0
  BY <1>1, <1>8, <1>10, <1>13, Stays
<1>. QED  BY <1>10, <1>14, <1>15, <1>18, <1>19, <1>20 DEF DiskInv, Always

LEMMA WroteKeeps ==
    ASSUME DiskInv, WroteSector
    PROVE  DiskInv'
<1>1. /\ at[HD] = "data" /\ ~panicked /\ ~Sending(HD) /\ ~Receiving(HD) /\ ~Sending(FS)
      /\ BlockedFor /\ SysAnswers /\ OneRequest /\ ScanKnows /\ Transfers
      /\ Consistent /\ DiskTypeOK /\ OneInterrupt /\ at \in [Native -> Locs]
      /\ HDWorks /\ msg = asked /\ asked \in Asked
  BY HDAt DEF WroteSector
<1>2. /\ ~Reading /\ Writing /\ Told /\ asked.op = "DEV_WRITE"
  BY <1>1 DEF WroteSector, Reading, Writing, Told
<1>3. /\ ctl.st \in {"drq", "ready"} /\ ~intrq /\ ~has_int_msg[HD] /\ ctl.op = "WRITE"
      /\ ctl.sect = NextSect + 1 /\ ctl.left <= left - 1 /\ (ctl.st = "drq" => ctl.left >= 1)
      /\ ctl.left \in 0..MaxCount /\ left >= 1 /\ Copied(asked.cnt - left + 1)
  <2>1. ctl.op = "WRITE" /\ ctl.sect = NextSect + 1 /\ ctl.left <= left - 1 /\ left >= 1
        /\ Copied(asked.cnt - left + 1)
    BY <1>1, <1>2 DEF Transfers
  <2>. QED  BY <1>1, <1>2, <2>1 DEF OneInterrupt
<1>4. /\ asked.cnt \in Nat /\ asked.pos \in Nat /\ left \in 0..asked.cnt
      /\ FirstData \in Nat /\ MaxCount \in Nat
  BY <1>1, AskedIs, DiskAssumption DEF DiskTypeOK
<1>. DEFINE loc == IF left = 1 THEN "reply" ELSE "ticks"
<1>5. /\ UNCHANGED <<vars, fsVars, msg, scan, hd_info, ctlVars, cmd>>
      /\ left' = left - 1 /\ GoTo(HD, loc)
      /\ IF left = 1 THEN UNCHANGED <<want, late>> ELSE want' = "DRQ" /\ late' = FALSE
  BY <1>1, <1>2 DEF WroteSector, AfterSector, Poll, pollVars
<1>6. UNCHANGED <<asked, mem, msg, scan, hd_info, ctl, intrq, dsk, layout, cmd, has_int_msg, panicked>>
  BY <1>5 DEF fsVars, ctlVars, vars
<1>7. /\ BlockedFor' /\ SysAnswers' /\ OneRequest'
      /\ at' \in [Native -> Locs] /\ at'[HD] = loc
      /\ ~Sending(HD)' /\ ~Receiving(HD)' /\ ~Sending(FS)'
  BY <1>1, <1>5, <1>6, HDGoesOn
<1>8. /\ HDWorks' /\ (Polls' <=> left # 1) /\ ~Told' /\ ~Awaits' /\ ~HDTaken'
      /\ ~Reading' /\ Writing' /\ ~Commands'
  BY <1>1, <1>2, <1>5, <1>6, <1>7 DEF HDWorks, Polls, Told, Awaits, HDTaken, Reading, Writing, Commands
<1>9. /\ left' \in 0..asked.cnt /\ (left # 1 => left' >= 1) /\ (left = 1 => left' = 0)
      /\ ctl.left <= left' /\ (left = 1 => ctl.st = "ready")
  BY <1>3, <1>4, <1>5
<1>10. OneInterrupt'
  BY <1>1, <1>3, <1>5, <1>6, <1>7, <1>8, <1>9 DEF OneInterrupt
<1>11. ScanKnows'
  <2>1. asked.op # "DEV_OPEN" /\ asked.op # "none" /\ ~Opening /\ ~Opening'
    BY <1>2, <1>6 DEF Opening
  <2>2. BootKnown' <=> BootKnown
    BY <1>6 DEF BootKnown
  <2>. QED  BY <1>1, <1>2, <1>6, <2>1, <2>2 DEF ScanKnows
<1>12. Transfers'
  <2>1. (Copied(asked.cnt - left))'
    <3>1. asked.cnt - left' = asked.cnt - left + 1
      BY <1>4, <1>5
    <3>. QED  BY <1>3, <1>6, <3>1 DEF Copied
  <2>2. NextSect' = NextSect + 1
    <3>1. left' = left - 1 /\ asked' = asked
      BY <1>5, <1>6
    <3>. QED  BY <1>4, <3>1 DEF NextSect
  <2>3. /\ mem = [i \in 1..asked.cnt |-> mem[i]]
        /\ dsk = [s \in FirstData..NrSects |-> dsk[s]]
        /\ InfoIs
    BY <1>1, <1>2 DEF Transfers
  <2>4. at'[HD] # "reply" => left' >= 1
    BY <1>7, <1>9
  <2>5. at'[HD] \notin {"wait", "data"}
    BY <1>7
  <2>. QED  BY <1>3, <1>6, <1>8, <1>9, <2>1, <2>2, <2>3, <2>4, <2>5 DEF Transfers, InfoIs
<1>13. DiskTypeOK'
  <2>1. TypeOK' /\ want' \in {"BSY", "DRQ"} /\ late' \in BOOLEAN /\ intrq' \in BOOLEAN
    BY <1>1, <1>5, <1>6, Stays DEF DiskTypeOK
  <2>2. msg' \in Asked /\ left' \in 0..msg'.cnt
    BY <1>1, <1>6, <1>9
  <2>. QED  BY <1>1, <1>6, <2>1, <2>2 DEF DiskTypeOK
<1>14. /\ Consistent'
       /\ at'[HD] \in {"loop", "handle", "reply"} => left' = 0
  BY <1>1, <1>5, <1>7, <1>9, Stays
<1>. QED  BY <1>7, <1>10, <1>11, <1>12, <1>13, <1>14 DEF DiskInv, Always

-----------------------------------------------------------------------------
(* Opening the disk                                                        *)

\* HD has read a sector of the tables and goes on, or answers.
LEMMA ScanGoesOn ==
    ASSUME DiskInv, Here(HD, "data"), msg.op = "DEV_OPEN", ctl' = AfterRead,
           UNCHANGED <<vars, fsVars, msg, left, intrq, dsk, layout>>,
           NEW loc \in {"ticks", "reply"}, GoTo(HD, loc),
           loc = "reply" => UNCHANGED pollVars,
           loc = "ticks" => /\ cmd'.op = "READ" /\ cmd'.count = 1 % MaxCount
                            /\ want' = "BSY" /\ late' = FALSE,
           InfoIs'
    PROVE  /\ Always' /\ BlockedFor' /\ SysAnswers' /\ OneRequest' /\ Transfers'
           /\ ~panicked' /\ at'[HD] = loc /\ HDWorks' /\ asked.op = "DEV_OPEN" /\ asked' = asked
           /\ (Polls' <=> loc = "ticks") /\ ~HDTaken' /\ ~Sending(FS)'
           /\ ScanKnows /\ Opening /\ InfoIs
<1>1. /\ at[HD] = "data" /\ ~panicked /\ ~Sending(HD) /\ ~Receiving(HD) /\ ~Sending(FS)
      /\ BlockedFor /\ SysAnswers /\ OneRequest /\ ScanKnows /\ Transfers
      /\ Consistent /\ DiskTypeOK /\ OneInterrupt /\ at \in [Native -> Locs]
      /\ HDWorks /\ msg = asked /\ asked \in Asked
  BY HDAt
<1>2. /\ ~Reading /\ ~Writing /\ Told /\ asked.op = "DEV_OPEN" /\ want = "BSY" /\ left = 0
  <2>1. ~Reading /\ ~Writing /\ Told /\ asked.op = "DEV_OPEN"
    BY <1>1 DEF Reading, Writing, Told
  <2>2. want = "BSY" /\ left \in 0..asked.cnt
    BY <1>1, <2>1 DEF Transfers, DiskTypeOK
  <2>3. asked.cnt = 0
    BY <1>1, <2>1, AskedIs
  <2>. QED  BY <2>1, <2>2, <2>3
<1>3. UNCHANGED <<asked, mem, msg, left, intrq, dsk, layout, has_int_msg, panicked>>
  BY DEF fsVars, vars
<1>4. /\ BlockedFor' /\ SysAnswers' /\ OneRequest'
      /\ at' \in [Native -> Locs] /\ at'[HD] = loc
      /\ ~Sending(HD)' /\ ~Receiving(HD)' /\ ~Sending(FS)'
  BY <1>1, <1>3, HDGoesOn
<1>5. /\ HDWorks' /\ (Polls' <=> loc = "ticks") /\ ~Told' /\ ~Awaits' /\ ~HDTaken'
      /\ ~Reading' /\ ~Writing' /\ (Commands' => loc = "ticks")
  BY <1>1, <1>2, <1>3, <1>4 DEF HDWorks, Polls, Told, Awaits, HDTaken, Reading, Writing, Commands
<1>6. ctl.op # "WRITE" /\ ctl.left = 1 /\ ctl.st = "drq" /\ ~intrq /\ ~has_int_msg[HD]
  BY <1>1, <1>2 DEF Transfers, OneInterrupt
<1>7. /\ ctl'.st = "ready" /\ ctl'.left = 0
      /\ ctl' = Controller(ctl'.st, ctl'.op, ctl'.sect, ctl'.left)
  BY <1>6 DEF AfterRead, Controller
<1>8. want' = "BSY" /\ late' \in BOOLEAN
  BY <1>1, <1>2 DEF pollVars, DiskTypeOK
<1>9. OneInterrupt'
  BY <1>3, <1>4, <1>5, <1>6, <1>7, <1>8, DiskAssumption DEF OneInterrupt
<1>10. Transfers'
  <2>1. dsk = [s \in FirstData..NrSects |-> dsk[s]] /\ InfoIs
    BY <1>1 DEF Transfers
  <2>2. at'[HD] \notin {"wait", "data"}
    BY <1>4
  <2>3. Commands' => cmd'.op # "WRITE" /\ cmd'.count = 1 % MaxCount
    BY <1>5
  <2>. QED  BY <1>2, <1>3, <1>4, <1>5, <1>8, <2>1, <2>2, <2>3 DEF Transfers
<1>11. DiskTypeOK'
  <2>1. TypeOK' /\ intrq' \in BOOLEAN /\ ctl'.left \in 0..MaxCount
    BY <1>1, <1>3, <1>7, Stays, DiskAssumption DEF DiskTypeOK
  <2>. QED  BY <1>1, <1>3, <1>8, <2>1 DEF DiskTypeOK
<1>12. /\ Consistent' /\ left' = 0
  BY <1>1, <1>2, <1>3, Stays
<1>13. Always'
  BY <1>4, <1>9, <1>11, <1>12 DEF Always
<1>14. Opening /\ InfoIs
  BY <1>1, <1>2 DEF Opening, Transfers
<1>. QED  BY <1>1, <1>2, <1>3, <1>4, <1>5, <1>10, <1>13, <1>14

LEMMA IdentifyKeeps ==
    ASSUME DiskInv, hd_identify
    PROVE  DiskInv'
<1>1. Here(HD, "data") /\ cmd.op = "IDENTIFY" /\ HDWorks /\ at[HD] = "data" /\ ScanKnows /\ Transfers
  BY HDAt DEF hd_identify
<1>2. msg.op = "DEV_OPEN" /\ scan = NoScan /\ InfoIs
  BY <1>1 DEF ScanKnows, Transfers
<1>3. /\ UNCHANGED <<vars, fsVars, msg, left, intrq, dsk, layout, scan>> /\ ctl' = AfterRead
      /\ hd_info' = [hd_info EXCEPT !.primary[0] = 0, !.open_cnt = @ + 1]
      /\ GoTo(HD, "ticks") /\ cmd' = Command("READ", 0, 1) /\ want' = "BSY" /\ late' = FALSE
  BY DEF hd_identify, Issue, Poll
<1>4. cmd'.op = "READ" /\ cmd'.count = 1 % MaxCount
  BY <1>3 DEF Command
<1>5. InfoIs'
  <2>1. /\ hd_info'.logical = hd_info.logical
        /\ hd_info'.primary = [hd_info.primary EXCEPT ![0] = 0]
        /\ hd_info' = [primary |-> hd_info'.primary, logical |-> hd_info'.logical,
                       open_cnt |-> hd_info'.open_cnt]
    BY <1>2, <1>3 DEF InfoIs
  <2>. QED  BY <1>2, <2>1 DEF InfoIs
<1>6. /\ Always' /\ BlockedFor' /\ SysAnswers' /\ OneRequest' /\ Transfers'
      /\ ~panicked' /\ asked.op = "DEV_OPEN" /\ asked' = asked /\ Polls'
  BY <1>1, <1>2, <1>3, <1>4, <1>5, ScanGoesOn
<1>7. Opening'
  BY <1>6 DEF Opening
<1>8. ScanKnows'
  BY <1>1, <1>2, <1>3, <1>4, <1>7 DEF ScanKnows
<1>. QED  BY <1>6, <1>8 DEF DiskInv

\* The next extended partition.
LEMMA NextPart ==
    ASSUME NEW j \in 0..NR_PART_PER_DRIVE, ExtAfter(j) # {}
    PROVE  /\ Min(ExtAfter(j)) \in 1..NR_PART_PER_DRIVE /\ Min(ExtAfter(j)) > j
           /\ Extended(Min(ExtAfter(j)))
           /\ \A k \in ExtAfter(j) : Min(ExtAfter(j)) <= k
<1>1. NR_PART_PER_DRIVE \in Nat
  BY DiskAssumption
<1>2. ExtAfter(j) \in SUBSET Nat
  BY <1>1 DEF ExtAfter
<1>3. \E k \in ExtAfter(j) : \A y \in ExtAfter(j) : k <= y
  BY <1>2, LeastExists
<1>4. Min(ExtAfter(j)) \in ExtAfter(j) /\ \A y \in ExtAfter(j) : Min(ExtAfter(j)) <= y
  BY <1>3 DEF Min
<1>. QED  BY <1>1, <1>4 DEF ExtAfter

\* A disk with partitions has FS's.
LEMMA BootFound ==
    ASSUME layout \in Layouts, NEW j \in 1..NR_PART_PER_DRIVE, EntryOf(0, j).sys_id # "NO_PART"
    PROVE  /\ Extended(BootPart) /\ BootPart \in 1..NR_PART_PER_DRIVE
           /\ EntryOf(0, BootPart).start_sect
                + EntryOf(EntryOf(0, BootPart).start_sect, 1).start_sect = FirstData
BY LayoutAssumption DEF Extended, EntryOf

LEMMA PrimaryKeeps ==
    ASSUME DiskInv, PrimaryTable
    PROVE  DiskInv'
<1>. DEFINE used    == {j \in 1..NR_PART_PER_DRIVE : EntryOf(0, j).sys_id # "NO_PART"}
            primary == [j \in 0..NR_PART_PER_DRIVE |->
                           IF j \in used THEN EntryOf(0, j).start_sect ELSE hd_info.primary[j]]
            k       == Min(ExtAfter(0))
<1>1. Here(HD, "data") /\ msg.op = "DEV_OPEN" /\ scan = NoScan /\ used # {}
      /\ ScanKnows /\ Transfers
  BY HDAt DEF PrimaryTable
<1>2. InfoIs /\ layout \in Layouts
  BY <1>1 DEF ScanKnows, Transfers
<1>3. PICK j \in 1..NR_PART_PER_DRIVE : EntryOf(0, j).sys_id # "NO_PART"
  BY <1>1
<1>4. /\ Extended(BootPart) /\ BootPart \in 1..NR_PART_PER_DRIVE
  BY <1>2, <1>3, BootFound
<1>5. BootPart \in ExtAfter(0) /\ NR_PART_PER_DRIVE \in Nat
  BY <1>4, DiskAssumption DEF ExtAfter
<1>6. k \in 1..NR_PART_PER_DRIVE /\ Extended(k) /\ k <= BootPart
  BY <1>5, NextPart
<1>7. /\ UNCHANGED <<vars, fsVars, msg, left, intrq, dsk, layout>> /\ ctl' = AfterRead
      /\ hd_info' = [hd_info EXCEPT !.primary = primary]
      /\ NextExtended(0, primary)
  BY DEF PrimaryTable
<1>8. /\ scan' = [part |-> k, sub |-> 0, sect |-> primary[k]]
      /\ cmd' = Command("READ", primary[k], 1) /\ want' = "BSY" /\ late' = FALSE
      /\ GoTo(HD, "ticks")
  BY <1>5, <1>7 DEF NextExtended, Issue, Poll
<1>9. cmd'.op = "READ" /\ cmd'.count = 1 % MaxCount
  BY <1>8 DEF Command
<1>10. /\ hd_info'.primary = primary /\ hd_info'.logical = hd_info.logical
       /\ hd_info' = [primary |-> hd_info'.primary, logical |-> hd_info'.logical,
                      open_cnt |-> hd_info'.open_cnt]
  BY <1>2, <1>7 DEF InfoIs
<1>11. InfoIs'
  BY <1>2, <1>10 DEF InfoIs
<1>12. /\ Always' /\ BlockedFor' /\ SysAnswers' /\ OneRequest' /\ Transfers'
       /\ ~panicked' /\ asked.op = "DEV_OPEN" /\ asked' = asked /\ Polls' /\ HDWorks'
  BY <1>1, <1>7, <1>8, <1>9, <1>11, ScanGoesOn
<1>13. Opening'
  BY <1>12 DEF Opening
<1>14. \A i \in 1..NR_PART_PER_DRIVE : Extended(i) => primary[i] = EntryOf(0, i).start_sect
  BY <1>5 DEF Extended
<1>15. primary[k] = EntryOf(0, k).start_sect
  BY <1>6, <1>14
<1>16. /\ scan'.part = k /\ scan'.sub = 0 /\ scan'.sect = EntryOf(0, k).start_sect
       /\ scan' = [part |-> scan'.part, sub |-> scan'.sub, sect |-> scan'.sect]
  BY <1>8, <1>15
<1>17. layout' = layout
  BY <1>7
<1>18. ScanKnows'
  <2>1. scan'.sub \in 0..NR_SUB_PER_PART - 1
    BY <1>16, DiskAssumption
  <2>2. ~(scan'.part > BootPart) /\ ~(scan'.sub > 0)
    BY <1>4, <1>6, <1>16
  <2>3. \A i \in 1..NR_PART_PER_DRIVE :
            Extended(i)' => hd_info'.primary[i] = (EntryOf(0, i).start_sect)'
    BY <1>10, <1>14, <1>17 DEF Extended, EntryOf
  <2>4. scan'.sub = 0 => scan'.sect = (EntryOf(0, scan.part).start_sect)'
    BY <1>16, <1>17 DEF EntryOf
  <2>5. \E i \in 1..NR_PART_PER_DRIVE : (EntryOf(0, i).sys_id)' # "NO_PART"
    BY <1>3, <1>17 DEF EntryOf
  <2>. HIDE DEF primary, k, used
  <2>. QED  BY <1>2, <1>6, <1>9, <1>12, <1>13, <1>16, <1>17, <2>1, <2>2, <2>3, <2>4, <2>5 DEF ScanKnows
<1>. QED  BY <1>12, <1>18 DEF DiskInv

\* Two logical partitions do not share an entry of hd_info.
LEMMA EntriesApart ==
    ASSUME NEW n \in Nat \ {0}, NEW j \in Nat, NEW k \in Nat, NEW sub \in 0..n - 1,
           j * n + sub = k * n
    PROVE  j = k /\ sub = 0
<1>1. CASE j < k
  <2>1. PICK d \in Nat : k = j + 1 + d
    <3>1. k - j - 1 \in Nat /\ k = j + 1 + (k - j - 1)
      BY <1>1
    <3>. QED  BY <3>1
  <2>2. k * n = j * n + n + d * n /\ d * n \in Nat /\ j * n \in Nat
    BY <2>1
  <2>. QED  BY <2>2
<1>2. CASE j > k
  <2>1. PICK d \in Nat : j = k + 1 + d
    <3>1. j - k - 1 \in Nat /\ j = k + 1 + (j - k - 1)
      BY <1>2
    <3>. QED  BY <3>1
  <2>2. j * n = k * n + n + d * n /\ d * n \in Nat /\ k * n \in Nat
    BY <2>1
  <2>. QED  BY <2>2
<1>3. CASE j = k
  BY <1>3
<1>. QED  BY <1>1, <1>2, <1>3

\* FS's partition has an entry in hd_info.
LEMMA BootIsEntry == BootIndex \in 0..NrSubs - 1
<1>1. NR_SUB_PER_PART \in Nat \ {0} /\ NR_PART_PER_DRIVE \in Nat \ {0}
  BY DiskAssumption
<1>2. NrSubs \in Nat \ {0}
  BY <1>1 DEF NrSubs
<1>3. MINOR_BOOT - MINOR_hd1a \in Int
  BY LayoutAssumption
<1>. QED  BY <1>2, <1>3 DEF BootIndex

LEMMA ExtendedKeeps ==
    ASSUME DiskInv, ExtendedTable
    PROVE  DiskInv'
<1>. DEFINE dev_nr == (scan.part - 1) * NR_SUB_PER_PART + scan.sub
            value  == scan.sect + EntryOf(scan.sect, 1).start_sect
            ends   == EntryOf(scan.sect, 2).sys_id = "NO_PART" \/ scan.sub + 1 = NR_SUB_PER_PART
            none   == ExtAfter(scan.part) = {}
            k      == Min(ExtAfter(scan.part))
            loc    == IF ends /\ none THEN "reply" ELSE "ticks"
<1>1. Here(HD, "data") /\ msg.op = "DEV_OPEN" /\ scan # NoScan
      /\ ScanKnows /\ Transfers /\ msg = asked
  BY HDAt DEF ExtendedTable
<1>2. InfoIs /\ layout \in Layouts /\ Opening
  BY <1>1 DEF ScanKnows, Transfers
<1>3. /\ scan = [part |-> scan.part, sub |-> scan.sub, sect |-> scan.sect]
      /\ scan.part \in 1..NR_PART_PER_DRIVE /\ scan.sub \in 0..NR_SUB_PER_PART - 1
      /\ \E j \in 1..NR_PART_PER_DRIVE : EntryOf(0, j).sys_id # "NO_PART"
      /\ \A j \in 1..NR_PART_PER_DRIVE :
            Extended(j) => hd_info.primary[j] = EntryOf(0, j).start_sect
      /\ scan.sub = 0 => scan.sect = EntryOf(0, scan.part).start_sect
      /\ scan.part > BootPart \/ (scan.part = BootPart /\ scan.sub > 0) => BootKnown
  BY <1>1, <1>2 DEF ScanKnows
<1>4. /\ Extended(BootPart) /\ BootPart \in 1..NR_PART_PER_DRIVE
      /\ EntryOf(0, BootPart).start_sect
           + EntryOf(EntryOf(0, BootPart).start_sect, 1).start_sect = FirstData
  BY <1>2, <1>3, BootFound
<1>5. NR_PART_PER_DRIVE \in Nat /\ NR_SUB_PER_PART \in Nat \ {0}
  BY DiskAssumption
<1>6. /\ UNCHANGED <<vars, fsVars, msg, left, intrq, dsk, layout>> /\ ctl' = AfterRead
      /\ hd_info' = [hd_info EXCEPT !.logical[dev_nr] = value]
      /\ ends => NextExtended(scan.part, hd_info.primary)
      /\ ~ends => /\ scan' = [scan EXCEPT !.sub = @ + 1, !.sect = NextTable]
                  /\ Issue(Command("READ", NextTable, 1))
  BY DEF ExtendedTable
<1>7. ends /\ none => GoTo(HD, "reply") /\ scan' = NoScan /\ UNCHANGED pollVars
  BY <1>6 DEF NextExtended
<1>8. ends /\ ~none =>
          /\ scan' = [part |-> k, sub |-> 0, sect |-> hd_info.primary[k]]
          /\ cmd' = Command("READ", hd_info.primary[k], 1)
          /\ want' = "BSY" /\ late' = FALSE /\ GoTo(HD, "ticks")
  BY <1>6 DEF NextExtended, Issue, Poll
<1>9. ~ends =>
          /\ scan' = [part |-> scan.part, sub |-> scan.sub + 1, sect |-> NextTable]
          /\ cmd' = Command("READ", NextTable, 1)
          /\ want' = "BSY" /\ late' = FALSE /\ GoTo(HD, "ticks")
  BY <1>3, <1>6 DEF Issue, Poll
<1>10. /\ hd_info'.primary = hd_info.primary
       /\ hd_info'.logical = [hd_info.logical EXCEPT ![dev_nr] = value]
       /\ hd_info' = [primary |-> hd_info'.primary, logical |-> hd_info'.logical,
                      open_cnt |-> hd_info'.open_cnt]
  BY <1>2, <1>6 DEF InfoIs
<1>11. InfoIs'
  BY <1>2, <1>10 DEF InfoIs
<1>12. /\ GoTo(HD, loc) /\ loc \in {"ticks", "reply"}
       /\ loc = "reply" => UNCHANGED pollVars
       /\ loc = "ticks" => /\ cmd'.op = "READ" /\ cmd'.count = 1 % MaxCount
                           /\ want' = "BSY" /\ late' = FALSE
  <2>. HIDE DEF ends, none, k
  <2>. QED  BY <1>7, <1>8, <1>9 DEF Command
<1>13. /\ Always' /\ BlockedFor' /\ SysAnswers' /\ OneRequest' /\ Transfers'
       /\ ~panicked' /\ asked.op = "DEV_OPEN" /\ asked' = asked /\ HDWorks' /\ at'[HD] = loc
       /\ (Polls' <=> loc = "ticks")
  <2>. HIDE DEF loc
  <2>. QED  BY <1>1, <1>6, <1>11, <1>12, ScanGoesOn
<1>14. loc = "ticks" => Opening'
  BY <1>13 DEF Opening
\* The entry of FS's partition is written when the scan comes to it, and stays.
<1>15. scan.part >= BootPart => BootKnown'
  <2>1. BootIndex \in 0..NrSubs - 1 /\ BootIndex = (BootPart - 1) * NR_SUB_PER_PART
    BY BootIsEntry, LayoutAssumption
  <2>2. hd_info.logical = [i \in 0..NrSubs - 1 |-> hd_info.logical[i]]
    BY <1>2 DEF InfoIs
  <2>3. CASE scan.part = BootPart /\ scan.sub = 0
    <3>1. dev_nr = BootIndex
      BY <1>4, <1>5, <2>1, <2>3
    <3>2. value = FirstData
      BY <1>3, <1>4, <2>3
    <3>. HIDE DEF dev_nr, value
    <3>. QED  BY <1>10, <2>1, <2>2, <3>1, <3>2 DEF BootKnown
  <2>4. CASE scan.part >= BootPart /\ ~(scan.part = BootPart /\ scan.sub = 0)
    <3>1. BootKnown
      BY <1>3, <1>4, <1>5, <2>4
    <3>2. dev_nr # BootIndex
      <4>1. scan.part - 1 \in Nat /\ BootPart - 1 \in Nat
        BY <1>3, <1>4, <1>5
      <4>2. ASSUME dev_nr = BootIndex  PROVE FALSE
        <5>1. scan.part - 1 = BootPart - 1 /\ scan.sub = 0
          BY <1>3, <1>5, <2>1, <4>1, <4>2, EntriesApart
        <5>. QED  BY <1>3, <1>4, <2>4, <5>1
      <4>. QED  BY <4>2
    <3>. HIDE DEF dev_nr, value
    <3>. QED  BY <1>10, <2>1, <2>2, <3>1, <3>2 DEF BootKnown
  <2>. QED  BY <2>3, <2>4
\* The scan passes it only then.
<1>16. none => scan.part >= BootPart
  BY <1>3, <1>4, <1>5 DEF ExtAfter
<1>17. ~none => /\ k \in 1..NR_PART_PER_DRIVE /\ Extended(k)
                /\ k > BootPart \/ scan.part >= BootPart => scan.part >= BootPart
  <2>1. ASSUME ~none  PROVE k \in 1..NR_PART_PER_DRIVE /\ Extended(k) /\ k > scan.part
                              /\ (BootPart > scan.part => k <= BootPart)
    <3>1. scan.part \in 0..NR_PART_PER_DRIVE
      BY <1>3, <1>5
    <3>2. BootPart > scan.part => BootPart \in ExtAfter(scan.part)
      BY <1>3, <1>4, <1>5 DEF ExtAfter
    <3>. QED  BY <2>1, <3>1, <3>2, NextPart
  <2>. HIDE DEF k, none
  <2>. QED  BY <1>3, <1>4, <1>5, <2>1
<1>18. layout' = layout
  BY <1>6
<1>19. ScanKnows'
  <2>. HIDE DEF k, none, ends, dev_nr, value
  <2>1. BootKnown' \/ asked.op = "none" \/ Opening'
    BY <1>7, <1>14, <1>15, <1>16
  <2>2. CASE loc = "reply"
    <3>1. scan' = NoScan /\ at'[HD] = "reply"
      BY <1>7, <1>13, <2>2
    <3>. QED  BY <1>2, <1>13, <1>18, <2>1, <3>1 DEF ScanKnows
  <2>3. ASSUME loc = "ticks"
        PROVE  /\ scan' = [part |-> scan'.part, sub |-> scan'.sub, sect |-> scan'.sect]
               /\ scan'.part \in 1..NR_PART_PER_DRIVE
               /\ scan'.sub \in 0..NR_SUB_PER_PART - 1
               /\ scan'.sub = 0 => scan'.sect = EntryOf(0, scan'.part).start_sect
               /\ scan'.part > BootPart \/ (scan'.part = BootPart /\ scan'.sub > 0) => BootKnown'
    <3>1. CASE ends
      <4>1. ~none
        BY <2>3, <3>1
      <4>2. scan'.part = k /\ scan'.sub = 0 /\ scan'.sect = hd_info.primary[k]
            /\ scan' = [part |-> scan'.part, sub |-> scan'.sub, sect |-> scan'.sect]
        BY <1>8, <3>1, <4>1
      <4>3. hd_info.primary[k] = EntryOf(0, k).start_sect
        BY <1>3, <1>17, <4>1
      <4>. QED  BY <1>5, <1>15, <1>17, <4>1, <4>2, <4>3
    <3>2. CASE ~ends
      <4>1. scan'.part = scan.part /\ scan'.sub = scan.sub + 1
            /\ scan' = [part |-> scan'.part, sub |-> scan'.sub, sect |-> scan'.sect]
        BY <1>9, <3>2
      <4>2. scan'.sub \in 0..NR_SUB_PER_PART - 1 /\ scan'.sub # 0
        BY <1>3, <1>5, <3>2, <4>1 DEF ends
      <4>. QED  BY <1>3, <1>4, <1>5, <1>15, <4>1, <4>2
    <3>. QED  BY <3>1, <3>2
  <2>4. CASE loc = "ticks"
    <3>1. \A i \in 1..NR_PART_PER_DRIVE :
              Extended(i)' => hd_info'.primary[i] = (EntryOf(0, i).start_sect)'
      BY <1>3, <1>10, <1>18 DEF Extended, EntryOf
    <3>2. scan'.sub = 0 => scan'.sect = (EntryOf(0, scan.part).start_sect)'
      BY <2>3, <2>4, <1>18 DEF EntryOf
    <3>3. \E i \in 1..NR_PART_PER_DRIVE : (EntryOf(0, i).sys_id)' # "NO_PART"
      BY <1>3, <1>18 DEF EntryOf
    <3>4. cmd'.op = "READ" /\ Opening' /\ layout' \in Layouts
      BY <1>2, <1>12, <1>14, <1>18, <2>4
    <3>. HIDE DEF loc
    <3>. QED  BY <1>13, <2>1, <2>3, <2>4, <3>1, <3>2, <3>3, <3>4 DEF ScanKnows
  <2>. QED  BY <2>2, <2>4
<1>. QED  BY <1>13, <1>19 DEF DiskInv

-----------------------------------------------------------------------------
(* The clock, and the ends                                                 *)

\* When the machine stops, nothing of the disk changes any more.
LEMMA Halts ==
    ASSUME Always, Consistent', panicked',
           UNCHANGED <<p_flags, has_int_msg, msg, left, want, late, ctl, intrq, dsk>>,
           at' \in [Native -> Locs], at'[HD] = at[HD] \/ (Polls /\ Polls')
    PROVE  DiskInv'
<1>1. /\ Polls' <=> Polls
      /\ \A l \in {"loop", "handle", "reply", "wait", "data"} : at'[HD] = l <=> at[HD] = l
  BY DEF Polls
<1>2. Receiving(HD)' <=> Receiving(HD)
  BY DEF Receiving
<1>3. (Awaits' <=> Awaits) /\ (Told' <=> Told)
      /\ (at'[HD] \in {"loop", "handle", "reply"} <=> at[HD] \in {"loop", "handle", "reply"})
  BY <1>1, <1>2 DEF Awaits, Told
<1>4. OneInterrupt'
  BY <1>1, <1>3 DEF Always, OneInterrupt
<1>5. DiskTypeOK'
  BY DEF Always, DiskTypeOK, Consistent
<1>. QED  BY <1>3, <1>4, <1>5 DEF DiskInv, Always

\* The panics of waitfor's callers and of partition().
LEMMA PanicsKeep ==
    ASSUME DiskInv, TimesOut \/ NoPartition
    PROVE  DiskInv'
<1>1. /\ panicked'
      /\ UNCHANGED <<p_flags, p_msg, p_recvfrom, p_sendto, has_int_msg, q_sending, buf, diskVars>>
  BY DEF TimesOut, NoPartition
<1>2. Always
  BY DEF DiskInv
<1>3. UNCHANGED <<at, msg, left, want, late, ctl, intrq, dsk>>
  BY <1>1 DEF diskVars, jobVars, pollVars, ctlVars
<1>4. Consistent'
  <2>1. TypeOK'
    BY <1>1, <1>2 DEF Always, Consistent, TypeOK
  <2>2. CallFields'
    BY <1>1, <1>2 DEF Always, Consistent, CallFields, Sending, Receiving
  <2>3. QueueIsSenders'
    BY <1>1, <1>2 DEF Always, Consistent, QueueIsSenders, Sending, Lists, NoRepeat
  <2>. QED  BY <2>1, <2>2, <2>3 DEF Consistent
<1>5. at' \in [Native -> Locs]
  BY <1>2, <1>3 DEF Always
<1>. QED  BY <1>1, <1>2, <1>3, <1>4, <1>5, Halts

\* A step that makes no call and moves nobody leaves who waits for whom.
LEMMA CallsKeep ==
    ASSUME Consistent, BlockedFor, SysAnswers, OneRequest,
           UNCHANGED <<vars, at, asked, msg>>
    PROVE  /\ Consistent' /\ TypeOK' /\ BlockedFor' /\ SysAnswers' /\ OneRequest'
           /\ \A p \in Procs : (Sending(p)' <=> Sending(p)) /\ (Receiving(p)' <=> Receiving(p))
<1>1. \A p \in Procs : (Sending(p)' <=> Sending(p)) /\ (Receiving(p)' <=> Receiving(p))
  BY DEF vars, Sending, Receiving
<1>2. Consistent' /\ TypeOK'
  BY Stays
<1>3. UNCHANGED <<p_sendto, p_recvfrom, buf, has_int_msg>>
  BY DEF vars
<1>4. BlockedFor'
  BY <1>1, <1>3 DEF BlockedFor, SendsFor, ReceivesFor
<1>5. SysAnswers'
  BY <1>1, <1>3, Names DEF SysAnswers, SysHas
<1>6. OneRequest'
  BY <1>1, <1>3, Names DEF OneRequest, HDFree, FSOut, HDTaken, HDWorks, Polls
<1>. QED  BY <1>1, <1>2, <1>4, <1>5, <1>6

LEMMA TimeKeeps ==
    ASSUME DiskInv, TimePasses
    PROVE  DiskInv'
<1>1. ~panicked /\ late' = TRUE /\ UNCHANGED <<vars, at, fsVars, jobVars, cmd, want, ctlVars>>
  BY DEF TimePasses
<1>2. /\ Consistent /\ DiskTypeOK /\ at \in [Native -> Locs]
      /\ BlockedFor /\ SysAnswers /\ OneRequest
  BY <1>1 DEF DiskInv, Always
<1>3. UNCHANGED <<asked, mem, msg, left, intrq, dsk, ctl, has_int_msg, panicked>>
  BY <1>1 DEF fsVars, jobVars, ctlVars, vars
<1>4. /\ Consistent' /\ TypeOK' /\ BlockedFor' /\ SysAnswers' /\ OneRequest'
      /\ \A p \in Procs : (Sending(p)' <=> Sending(p)) /\ (Receiving(p)' <=> Receiving(p))
  BY <1>1, <1>2, <1>3, CallsKeep
<1>5. (HDTaken' <=> HDTaken) /\ (Awaits' <=> Awaits) /\ (Told' <=> Told)
  BY <1>1, <1>4, Names DEF HDTaken, Awaits, Told
<1>6. /\ ScanKnows' /\ Transfers' /\ OneInterrupt'
      /\ at'[HD] \in {"loop", "handle", "reply"} => left' = 0
  BY <1>1, <1>3, <1>4, <1>5, Names, DataKeeps
<1>7. DiskTypeOK'
  BY <1>1, <1>2, <1>3, <1>4 DEF DiskTypeOK
<1>. QED  BY <1>1, <1>2, <1>4, <1>6, <1>7 DEF DiskInv, Always

-----------------------------------------------------------------------------
(* The controller and its interrupt                                        *)

LEMMA DiskWorksKeeps ==
    ASSUME DiskInv, DiskWorks
    PROVE  DiskInv'
<1>1. /\ ~panicked /\ ctl.st \in {"busy", "setup"}
      /\ ctl' = [ctl EXCEPT !.st = IF ctl.left = 0 THEN "ready" ELSE "drq"]
      /\ intrq' = (ctl.st = "busy")
      /\ UNCHANGED <<vars, at, fsVars, jobVars, pollVars, dsk, layout>>
  BY DEF DiskWorks
<1>2. /\ Consistent /\ DiskTypeOK /\ at \in [Native -> Locs] /\ OneInterrupt
      /\ BlockedFor /\ SysAnswers /\ OneRequest /\ ScanKnows /\ Transfers
      /\ at[HD] \in {"loop", "handle", "reply"} => left = 0
  BY <1>1 DEF DiskInv, Always
<1>3. UNCHANGED <<asked, mem, msg, left, cmd, want, late, has_int_msg, panicked>>
  BY <1>1 DEF fsVars, jobVars, pollVars, vars
<1>4. /\ Consistent' /\ TypeOK' /\ BlockedFor' /\ SysAnswers' /\ OneRequest'
      /\ \A p \in Procs : (Sending(p)' <=> Sending(p)) /\ (Receiving(p)' <=> Receiving(p))
  BY <1>1, <1>2, <1>3, CallsKeep
<1>5. /\ HDTaken' <=> HDTaken
      /\ (Awaits' <=> Awaits) /\ (Told' <=> Told) /\ (Polls' <=> Polls)
  BY <1>1, <1>4, Names DEF HDTaken, Awaits, Told, Polls
<1>6. /\ ctl'.op = ctl.op /\ ctl'.sect = ctl.sect /\ ctl'.left = ctl.left
      /\ ctl'.st = (IF ctl.left = 0 THEN "ready" ELSE "drq")
      /\ ctl' = Controller(ctl'.st, ctl'.op, ctl'.sect, ctl'.left)
  BY <1>1, <1>2 DEF OneInterrupt, Controller
<1>7. ScanKnows' /\ Transfers'
  BY <1>1, <1>2, <1>3, <1>4, <1>5, <1>6, Names, StageKeeps
<1>8. /\ ctl'.left \in 0..MaxCount /\ ctl'.st \in {"ready", "drq"}
      /\ ctl'.st = "drq" => ctl'.left >= 1
      /\ ctl.st = "busy" /\ ctl.op # "WRITE" => ctl'.st = "drq"
  <2>1. ctl.left \in Nat /\ ctl.left \in 0..MaxCount
    BY <1>2, DiskAssumption DEF OneInterrupt
  <2>2. ctl.st = "busy" /\ ctl.op # "WRITE" => ctl.left >= 1
    BY <1>2 DEF OneInterrupt
  <2>. QED  BY <1>6, <2>1, <2>2
<1>9. /\ ~(at[HD] \in {"loop", "handle", "reply"} \/ (Polls /\ want = "BSY")) /\ ~Told
      /\ Polls /\ want = "DRQ" => ctl.st = "setup" /\ ~has_int_msg[HD]
      /\ Awaits => ctl.st = "busy" /\ ~has_int_msg[HD]
  BY <1>1, <1>2 DEF OneInterrupt
<1>10. OneInterrupt'
  BY <1>1, <1>3, <1>5, <1>6, <1>8, <1>9 DEF OneInterrupt
<1>11. DiskTypeOK'
  BY <1>1, <1>2, <1>3, <1>4, <1>6 DEF DiskTypeOK
<1>. QED  BY <1>1, <1>2, <1>3, <1>4, <1>7, <1>10, <1>11 DEF DiskInv, Always

LEMMA HandlerKeeps ==
    ASSUME DiskInv, hd_handler
    PROVE  DiskInv'
<1>1. /\ ~panicked /\ intrq /\ inform_int(HD) /\ intrq' = FALSE
      /\ UNCHANGED <<at, fsVars, jobVars, pollVars, ctl, dsk, layout>>
  BY DEF hd_handler
<1>2. /\ Consistent /\ DiskTypeOK /\ at \in [Native -> Locs] /\ OneInterrupt
      /\ BlockedFor /\ SysAnswers /\ OneRequest /\ ScanKnows /\ Transfers
      /\ at[HD] \in {"loop", "handle", "reply"} => left = 0
  BY <1>1 DEF DiskInv, Always
<1>3. UNCHANGED <<asked, mem, msg, left, scan, hd_info, cmd, want, late>>
  BY <1>1 DEF fsVars, jobVars, pollVars
<1>4. /\ Consistent' /\ ~panicked' /\ UNCHANGED p_sendto
      /\ \A x \in Procs :
            /\ Sending(x)' <=> Sending(x)
            /\ Receiving(x)' <=> Receiving(x) /\ ~(x = HD /\ AcceptsInt(HD))
            /\ x # HD \/ ~AcceptsInt(HD) => p_recvfrom'[x] = p_recvfrom[x]
            /\ buf'[x] = IF x = HD /\ AcceptsInt(HD) THEN IntMsg ELSE buf[x]
            /\ has_int_msg'[x] <=> IF x = HD THEN ~AcceptsInt(HD) ELSE has_int_msg[x]
  BY <1>1, <1>2, Names, InformEffect
\* The interrupt can only come while HD waits for it.
<1>5. at[HD] \notin {"loop", "handle", "reply", "look", "clock", "ticks"} /\ ~Told
  BY <1>1, <1>2 DEF OneInterrupt, Polls, DiskTypeOK
<1>6. Receiving(HD) => p_recvfrom[HD] = INTERRUPT /\ at[HD] = "data"
  BY <1>2, <1>5, Names DEF BlockedFor, ReceivesFor
<1>7. (Sending(HD) => at[HD] \in {"clock", "loop"}) /\ ~Sending(HD)
  BY <1>2, <1>5, Names DEF BlockedFor, SendsFor
<1>8. AcceptsInt(HD) <=> Receiving(HD)
  BY <1>6 DEF AcceptsInt
<1>9. /\ ~HDTaken /\ ~HDTaken' /\ ~Polls /\ ~Polls' /\ at'[HD] = at[HD] /\ at' = at
  BY <1>1, <1>5 DEF HDTaken, Polls
<1>10. ~Receiving(HD)' /\ ~Sending(HD)' /\ (Sending(FS)' <=> Sending(FS))
  BY <1>4, <1>7, <1>8, Names
<1>11. BlockedFor'
  <2>1. ASSUME NEW p \in Procs
        PROVE  /\ Sending(p)' => SendsFor(p)' /\ buf'[p].source = p /\ buf'[p].body \in Bodies
               /\ Receiving(p)' => ReceivesFor(p)'
    <3>1. CASE p = HD
      BY <1>10, <3>1
    <3>2. CASE p # HD
      BY <1>2, <1>4, <1>9, <3>2 DEF BlockedFor, SendsFor, ReceivesFor
    <3>. QED  BY <3>1, <3>2
  <2>. QED  BY <2>1 DEF BlockedFor
<1>12. SysAnswers'
  <2>1. SysHas(HD)' <=> SysHas(HD)
    BY <1>4, <1>9, Names DEF SysHas
  <2>2. ~SysHas(HD)
    BY <1>2, <1>5 DEF SysAnswers
  <2>. QED  BY <1>2, <1>4, <1>9, <2>1, <2>2, Names DEF SysAnswers
<1>13. OneRequest'
  <2>1. ~HDFree /\ ~HDFree'
    BY <1>5, <1>9 DEF HDFree
  <2>2. FSOut' <=> FSOut
    BY <1>4, <1>9, Names DEF FSOut
  <2>3. HDWorks' <=> HDWorks
    BY <1>9 DEF HDWorks
  <2>. QED  BY <1>2, <1>3, <1>4, <1>9, <2>1, <2>2, <2>3, Names DEF OneRequest
<1>14. ScanKnows' /\ Transfers'
  BY <1>1, <1>2, <1>3, <1>9, <1>10, StageKeeps DEF jobVars
<1>15. /\ Awaits' => Awaits /\ ~Receiving(HD)
       /\ Told' => Awaits /\ Receiving(HD)
  BY <1>5, <1>6, <1>9, <1>10 DEF Awaits, Told
<1>16. has_int_msg'[HD] <=> ~Receiving(HD)
  BY <1>4, <1>8, Names
<1>17. OneInterrupt'
  BY <1>1, <1>2, <1>3, <1>5, <1>9, <1>15, <1>16 DEF OneInterrupt
<1>18. DiskTypeOK'
  BY <1>1, <1>2, <1>3, <1>4 DEF DiskTypeOK, Consistent
<1>. QED  BY <1>2, <1>3, <1>4, <1>9, <1>11, <1>12, <1>13, <1>14, <1>17, <1>18 DEF DiskInv, Always

-----------------------------------------------------------------------------
(* The calls                                                               *)

LEMMA Blocked ==
    ASSUME BlockedFor
    PROVE  /\ Sending(FS) => p_sendto[FS] = HD /\ at[FS] = "sent"
           /\ Receiving(FS) => p_recvfrom[FS] = HD /\ at[FS] = "boot"
           /\ Sending(HD) => \/ p_sendto[HD] = SYS /\ at[HD] = "clock"
                             \/ p_sendto[HD] = FS /\ at[HD] = "loop"
           /\ Receiving(HD) => \/ p_recvfrom[HD] = ANY /\ at[HD] = "handle"
                               \/ p_recvfrom[HD] = SYS /\ at[HD] = "look"
                               \/ p_recvfrom[HD] = INTERRUPT /\ at[HD] = "data"
           /\ Sending(SYS) => p_sendto[SYS] \in Clients /\ at[SYS] = "loop"
           /\ Receiving(SYS) => p_recvfrom[SYS] = ANY /\ at[SYS] = "reply"
           /\ \A u \in Users : Sending(u) => p_sendto[u] = SYS
           /\ \A p \in Procs : /\ Sending(p) => p \in {FS, HD, SYS} \cup Users
                               /\ Sending(p) => buf[p].source = p /\ buf[p].body \in Bodies
<1>1. FS \in Procs /\ HD \in Procs /\ SYS \in Procs
  BY Names
<1>2. /\ (Sending(HD) => SendsFor(HD))   /\ (Receiving(HD) => ReceivesFor(HD))
      /\ (Sending(SYS) => SendsFor(SYS)) /\ (Receiving(SYS) => ReceivesFor(SYS))
      /\ (Sending(FS) => SendsFor(FS))   /\ (Receiving(FS) => ReceivesFor(FS))
  BY <1>1 DEF BlockedFor
<1>3. \A p \in Procs : /\ Sending(p) => p \in {FS, HD, SYS} \cup Users
                       /\ Sending(p) => buf[p].source = p /\ buf[p].body \in Bodies
  BY DEF BlockedFor, SendsFor
<1>4. \A u \in Users : Sending(u) => p_sendto[u] = SYS
  BY Names DEF BlockedFor, SendsFor
<1>. QED  BY <1>2, <1>3, <1>4, Names DEF SendsFor, ReceivesFor

\* Who sends goes where its message is waited for.
LEMMA SendBlocksFor ==
    ASSUME Consistent, BlockedFor, at \in [Native -> Locs],
           NEW p \in Procs, p \in Native, NEW d \in Procs, NEW b \in Bodies,
           NEW loc \in Locs, GoTo(p, loc), ~Sending(p), ~Receiving(p), p # d,
           Delivered(p, d, b) \/ (Queued(p, d, b) /\ SendsFor(p)')
    PROVE  BlockedFor'
<1>1. /\ at'[p] = loc /\ \A x \in Native : x # p => at'[x] = at[x]
  BY Goes
<1>2. ASSUME NEW x \in Procs, x # p
      PROVE  (SendsFor(x) /\ p_sendto'[x] = p_sendto[x] => SendsFor(x)')
             /\ (ReceivesFor(x) /\ p_recvfrom'[x] = p_recvfrom[x] => ReceivesFor(x)')
  BY <1>1, <1>2, Names DEF SendsFor, ReceivesFor
<1>3. ASSUME NEW x \in Procs
      PROVE  /\ Sending(x)' => SendsFor(x)' /\ buf'[x].source = x /\ buf'[x].body \in Bodies
             /\ Receiving(x)' => ReceivesFor(x)'
  <2>1. CASE Delivered(p, d, b)
    <3>1. ~Sending(d)
      BY <2>1 DEF Delivered, Accepts, Consistent, CallFields, Sending, Receiving
    <3>2. /\ Sending(x)' <=> Sending(x)
          /\ Receiving(x)' <=> Receiving(x) /\ x # d
          /\ x # d => p_recvfrom'[x] = p_recvfrom[x]
          /\ buf'[x] = (IF x \in {p, d} THEN [source |-> p, body |-> b] ELSE buf[x])
          /\ p_sendto'[x] = p_sendto[x]
      BY <2>1 DEF Delivered
    <3>. QED  BY <1>2, <3>1, <3>2 DEF BlockedFor
  <2>2. CASE Queued(p, d, b) /\ SendsFor(p)'
    <3>1. /\ Sending(x)' <=> Sending(x) \/ x = p
          /\ Receiving(x)' <=> Receiving(x)
          /\ p_sendto'[x] = (IF x = p THEN d ELSE p_sendto[x])
          /\ buf'[x] = (IF x = p THEN [source |-> p, body |-> b] ELSE buf[x])
          /\ p_recvfrom'[x] = p_recvfrom[x]
      BY <2>2 DEF Queued
    <3>. QED  BY <1>2, <2>2, <3>1 DEF BlockedFor
  <2>. QED  BY <2>1, <2>2
<1>. QED  BY <1>3 DEF BlockedFor

LEMMA ReceiveBlocksFor ==
    ASSUME Consistent, BlockedFor, at \in [Native -> Locs],
           NEW p \in Procs, p \in Native, NEW src \in Sources, NEW from \in Procs,
           NEW loc \in Locs, GoTo(p, loc), ~Sending(p), ~Receiving(p),
           \/ TookInt(p, src) \/ Took(p, src, from)
           \/ (Waits(p, src) /\ ReceivesFor(p)')
    PROVE  BlockedFor'
<1>1. /\ at'[p] = loc /\ \A x \in Native : x # p => at'[x] = at[x]
  BY Goes
<1>2. ASSUME NEW x \in Procs, x # p
      PROVE  (SendsFor(x) /\ p_sendto'[x] = p_sendto[x] => SendsFor(x)')
             /\ (ReceivesFor(x) /\ p_recvfrom'[x] = p_recvfrom[x] => ReceivesFor(x)')
  BY <1>1, <1>2, Names DEF SendsFor, ReceivesFor
<1>3. ASSUME NEW x \in Procs
      PROVE  /\ Sending(x)' => SendsFor(x)' /\ buf'[x].source = x /\ buf'[x].body \in Bodies
             /\ Receiving(x)' => ReceivesFor(x)'
  <2>1. CASE TookInt(p, src)
    <3>1. /\ Sending(x)' <=> Sending(x)
          /\ Receiving(x)' <=> Receiving(x)
          /\ p_recvfrom'[x] = p_recvfrom[x] /\ p_sendto'[x] = p_sendto[x]
          /\ x # p => buf'[x] = buf[x]
      BY <2>1 DEF TookInt, Sending, Receiving
    <3>. QED  BY <1>2, <3>1 DEF BlockedFor
  <2>2. CASE Took(p, src, from)
    <3>1. /\ Sending(x)' <=> Sending(x) /\ x # from
          /\ Receiving(x)' <=> Receiving(x)
          /\ p_recvfrom'[x] = p_recvfrom[x] /\ (x # from => p_sendto'[x] = p_sendto[x])
          /\ x # p => buf'[x] = buf[x]
      BY <2>2 DEF Took
    <3>. QED  BY <1>2, <3>1 DEF BlockedFor
  <2>3. CASE Waits(p, src) /\ ReceivesFor(p)'
    <3>1. /\ Sending(x)' <=> Sending(x)
          /\ Receiving(x)' <=> Receiving(x) \/ x = p
          /\ p_sendto'[x] = p_sendto[x]
          /\ x # p => p_recvfrom'[x] = p_recvfrom[x] /\ buf'[x] = buf[x]
      BY <2>3 DEF Waits
    <3>. QED  BY <1>2, <2>3, <3>1 DEF BlockedFor
  <2>. QED  BY <2>1, <2>2, <2>3
<1>. QED  BY <1>3 DEF BlockedFor

\* FS has its answer, or waits for it.
LEMMA FSHearsKeeps ==
    ASSUME DiskInv, FSHears
    PROVE  DiskInv'
<1>1. at[FS] = "sent" /\ ~panicked /\ ~Sending(FS) /\ ~Receiving(FS)
  BY HereRuns DEF FSHears
<1>2. /\ Consistent /\ DiskTypeOK /\ at \in [Native -> Locs]
      /\ BlockedFor /\ SysAnswers /\ OneRequest
  BY <1>1 DEF DiskInv, Always
<1>3. msg_receive(FS, HD) /\ GoTo(FS, "boot") /\ UNCHANGED <<fsVars, jobVars, pollVars, ctlVars>>
  BY DEF FSHears
<1>4. UNCHANGED <<asked, mem, msg, left, cmd, want, late, ctl, intrq, dsk>>
  BY <1>3 DEF fsVars, jobVars, pollVars, ctlVars
<1>5. /\ at' \in [Native -> Locs] /\ at'[FS] = "boot"
      /\ at'[HD] = at[HD] /\ at'[SYS] = at[SYS]
  BY <1>2, <1>3, Goes, Names DEF Locs
<1>6. Consistent' /\ ~panicked' /\ (Waits(FS, HD) \/ Took(FS, HD, HD))
  <2>1. HD \in Sources /\ HD # ANY /\ HD # INTERRUPT
    BY Names DEF Sources
  <2>2. /\ Consistent' /\ ~panicked'
        /\ \/ TookInt(FS, HD) \/ Waits(FS, HD)
           \/ \E from \in Procs : from # FS /\ Took(FS, HD, from)
    BY <1>2, <1>3, <2>1, Names, ReceiveEffect
  <2>. QED  BY <2>1, <2>2 DEF TookInt, Took
<1>7. FSOut /\ ~HDFree /\ asked # NoReq
  BY <1>1, <1>2 DEF FSOut, OneRequest
<1>8. BlockedFor'
  <2>1. Waits(FS, HD) => ReceivesFor(FS)'
    BY <1>5, Names DEF Waits, ReceivesFor
  <2>. QED  BY <1>1, <1>2, <1>3, <1>6, <2>1, Names, ReceiveBlocksFor DEF Locs, Sources
<1>9. CASE Waits(FS, HD)
  <2>1. /\ Receiving(FS)' /\ ~Sending(FS)' /\ (Sending(HD)' <=> Sending(HD))
        /\ (Receiving(HD)' <=> Receiving(HD)) /\ (Sending(SYS)' <=> Sending(SYS))
        /\ (Receiving(SYS)' <=> Receiving(SYS)) /\ buf'[HD] = buf[HD] /\ buf'[SYS] = buf[SYS]
        /\ UNCHANGED <<p_sendto, has_int_msg>>
    BY <1>1, <1>9, Names DEF Waits
  <2>2. SysAnswers'
    BY <1>2, <1>5, <2>1 DEF SysAnswers, SysHas
  <2>3. OneRequest'
    <3>1. FSOut' /\ ~HDFree' /\ (HDTaken' <=> HDTaken) /\ (HDWorks' <=> HDWorks)
      BY <1>5, <1>7, <2>1 DEF FSOut, HDFree, HDTaken, HDWorks, Polls
    <3>. QED  BY <1>2, <1>4, <1>7, <2>1, <3>1 DEF OneRequest
  <2>4. (HDTaken' <=> HDTaken) /\ (Awaits' <=> Awaits) /\ (Told' <=> Told)
    BY <1>5, <2>1 DEF HDTaken, Awaits, Told
  <2>5. /\ ScanKnows' /\ Transfers' /\ OneInterrupt'
        /\ at'[HD] \in {"loop", "handle", "reply"} => left' = 0
    BY <1>1, <1>3, <1>4, <1>5, <2>1, <2>4, DataKeeps
  <2>6. DiskTypeOK'
    BY <1>2, <1>4, <1>6 DEF DiskTypeOK, Consistent
  <2>. QED  BY <1>5, <1>6, <1>8, <2>2, <2>3, <2>5, <2>6 DEF DiskInv, Always
<1>10. CASE Took(FS, HD, HD)
  <2>1. /\ ~Receiving(FS)' /\ ~Sending(FS)' /\ ~Sending(HD)' /\ Sending(HD) /\ p_sendto[HD] = FS
        /\ (Receiving(HD)' <=> Receiving(HD)) /\ (Sending(SYS)' <=> Sending(SYS))
        /\ (Receiving(SYS)' <=> Receiving(SYS)) /\ buf'[HD] = buf[HD] /\ buf'[SYS] = buf[SYS]
        /\ UNCHANGED has_int_msg /\ p_sendto'[SYS] = p_sendto[SYS]
    BY <1>1, <1>10, Names DEF Took
  <2>2. at[HD] = "loop"
    BY <1>2, <2>1, Blocked, Names
  <2>3. SysAnswers'
    <3>1. ~SysHas(HD) /\ ~SysHas(HD)'
      BY <1>2, <1>5, <2>1, <2>2 DEF SysAnswers, SysHas
    <3>. QED  BY <1>2, <1>5, <2>1, <3>1 DEF SysAnswers
  <2>4. OneRequest'
    <3>1. ~FSOut' /\ HDFree' /\ ~HDTaken' /\ ~HDWorks'
      BY <1>5, <2>1, <2>2 DEF FSOut, HDFree, HDTaken, HDWorks, Polls
    <3>. QED  BY <1>2, <1>4, <1>7, <2>1, <3>1 DEF OneRequest
  <2>5. (HDTaken' <=> HDTaken) /\ (Awaits' <=> Awaits) /\ (Told' <=> Told)
    BY <1>5, <2>2 DEF HDTaken, Awaits, Told
  <2>6. /\ ScanKnows' /\ Transfers' /\ OneInterrupt'
        /\ at'[HD] \in {"loop", "handle", "reply"} => left' = 0
    BY <1>1, <1>3, <1>4, <1>5, <2>1, <2>5, DataKeeps
  <2>7. DiskTypeOK'
    BY <1>2, <1>4, <1>6 DEF DiskTypeOK, Consistent
  <2>. QED  BY <1>5, <1>6, <1>8, <2>3, <2>4, <2>6, <2>7 DEF DiskInv, Always
<1>. QED  BY <1>6, <1>9, <1>10

\* What the calls of SYS and of programs leave alone.
LEMMA OthersKeep ==
    ASSUME DiskInv, ~panicked, UNCHANGED <<fsVars, jobVars, pollVars, ctlVars>>,
           Consistent', ~panicked', at' \in [Native -> Locs], has_int_msg' = has_int_msg,
           at'[FS] = at[FS],
           at'[HD] = at[HD] \/ (at[HD] = "ticks" /\ at'[HD] = "clock")
                            \/ (at[HD] = "clock" /\ at'[HD] = "look"),
           Sending(FS)' <=> Sending(FS), Receiving(FS)' <=> Receiving(FS),
           buf'[FS] = buf[FS], buf'[HD] = buf[HD] \/ at[HD] \in {"ticks", "clock", "look"},
           at[HD] \notin {"ticks", "clock", "look"} =>
               (Sending(HD)' <=> Sending(HD)) /\ (Receiving(HD)' <=> Receiving(HD)),
           BlockedFor', SysAnswers'
    PROVE  DiskInv'
<1>1. DiskTypeOK /\ OneRequest
  BY DEF DiskInv, Always
<1>2. UNCHANGED <<asked, mem, msg, left, cmd, want, late, ctl, intrq, dsk>>
  BY DEF fsVars, jobVars, pollVars, ctlVars
<1>3. /\ HDTaken' <=> HDTaken
      /\ (Awaits' <=> Awaits) /\ (Told' <=> Told) /\ (HDFree' <=> HDFree)
      /\ (FSOut' <=> FSOut) /\ (HDWorks' <=> HDWorks)
      /\ at'[HD] = at[HD] \/ (Polls /\ Polls')
  BY DEF HDTaken, Awaits, Told, HDFree, FSOut, HDWorks, Polls
<1>4. OneRequest'
  <2>1. HDTaken => buf'[HD] = buf[HD]
    BY DEF HDTaken
  <2>. QED  BY <1>1, <1>2, <1>3, <2>1 DEF OneRequest
<1>5. /\ ScanKnows' /\ Transfers' /\ OneInterrupt'
      /\ at'[HD] \in {"loop", "handle", "reply"} => left' = 0
  BY <1>2, <1>3, DataKeeps
<1>6. DiskTypeOK'
  BY <1>1, <1>2 DEF DiskTypeOK, Consistent
<1>. QED  BY <1>4, <1>5, <1>6 DEF DiskInv, Always

LEMMA UserKeeps ==
    ASSUME DiskInv, NEW u \in Users, UserAsks(u)
    PROVE  DiskInv'
<1>. DEFINE b == Body("GET_PID", NoReq)
<1>1. /\ ~panicked /\ ~Sending(u) /\ ~Receiving(u)
      /\ UNCHANGED <<fsVars, jobVars, pollVars, ctlVars>>
  BY HereRuns DEF UserAsks
<1>2. /\ Always /\ Consistent /\ at \in [Native -> Locs] /\ BlockedFor /\ SysAnswers
  BY <1>1 DEF DiskInv, Always
<1>3. /\ u \in Native /\ u \in Procs /\ u \notin {FS, HD, SYS} /\ SYS \in Sources
      /\ b \in Bodies
  BY Names, DiskAssumption DEF Sources
<1>. HIDE DEF b
<1>4. PICK loc \in {"sent", "run"} : GoTo(u, loc)
  BY DEF UserAsks
<1>5. /\ at' \in [Native -> Locs] /\ at'[u] = loc
      /\ at'[FS] = at[FS] /\ at'[HD] = at[HD] /\ at'[SYS] = at[SYS]
  BY <1>2, <1>3, <1>4, Goes, Names DEF Locs
<1>6. /\ Sending(SYS) => at[SYS] = "loop"
      /\ Receiving(SYS) => at[SYS] = "reply"
  BY <1>2, Blocked
<1>7. CASE at[u] = "run" /\ msg_send(u, SYS, b) /\ GoTo(u, "sent")
  <2>1. /\ Consistent' /\ UNCHANGED has_int_msg
        /\ \/ Delivered(u, SYS, b) \/ Queued(u, SYS, b)
           \/ panicked' /\ UNCHANGED <<p_flags, p_recvfrom, p_sendto, buf>>
    BY <1>2, <1>3, <1>7, Names, SendEffect
  <2>2. at'[u] = "sent"
    BY <1>2, <1>3, <1>7, Goes DEF Locs
  <2>3. CASE panicked' /\ UNCHANGED <<p_flags, p_recvfrom, p_sendto, buf>>
    BY <1>1, <1>2, <1>5, <2>1, <2>3, Halts DEF jobVars, pollVars, ctlVars
  <2>4. CASE Delivered(u, SYS, b)
    <3>1. /\ ~panicked' /\ UNCHANGED p_sendto /\ Receiving(SYS)
          /\ \A x \in {FS, HD} : /\ Sending(x)' <=> Sending(x)
                                 /\ Receiving(x)' <=> Receiving(x)
                                 /\ buf'[x] = buf[x]
          /\ (Sending(SYS)' <=> Sending(SYS)) /\ ~Receiving(SYS)'
          /\ buf'[SYS] = [source |-> u, body |-> b]
      BY <1>3, <2>4, Names DEF Delivered, Accepts
    <3>2. BlockedFor'
      BY <1>1, <1>2, <1>3, <1>7, <2>4, Names, SendBlocksFor DEF Locs
    <3>3. SysAnswers'
      BY <1>2, <1>3, <1>5, <1>6, <2>1, <3>1 DEF SysAnswers, SysHas, Clients
    <3>. QED  BY <1>1, <1>5, <2>1, <3>1, <3>2, <3>3, OthersKeep
  <2>5. CASE Queued(u, SYS, b)
    <3>1. /\ ~panicked'
          /\ \A x \in {FS, HD, SYS} : /\ Sending(x)' <=> Sending(x)
                                      /\ Receiving(x)' <=> Receiving(x)
                                      /\ buf'[x] = buf[x] /\ p_sendto'[x] = p_sendto[x]
          /\ p_sendto'[u] = SYS
      BY <1>3, <2>5, Names DEF Queued
    <3>2. BlockedFor'
      <4>1. SendsFor(u)'
        BY <1>3, <2>2, <3>1 DEF SendsFor
      <4>. QED  BY <1>1, <1>2, <1>3, <1>7, <2>5, <4>1, Names, SendBlocksFor DEF Locs
    <3>3. SysAnswers'
      BY <1>2, <1>5, <2>1, <3>1 DEF SysAnswers, SysHas
    <3>. QED  BY <1>1, <1>5, <2>1, <3>1, <3>2, <3>3, OthersKeep
  <2>. QED  BY <2>1, <2>3, <2>4, <2>5
<1>8. CASE at[u] = "sent" /\ msg_receive(u, SYS) /\ GoTo(u, "run")
  <2>1. SYS # ANY /\ SYS # INTERRUPT
    BY Names
  <2>2. /\ Consistent' /\ ~panicked'
        /\ \/ TookInt(u, SYS) \/ Waits(u, SYS)
           \/ \E from \in Procs : from # u /\ Took(u, SYS, from)
    BY <1>2, <1>3, <1>8, ReceiveEffect
  <2>3. Waits(u, SYS) \/ Took(u, SYS, SYS)
    BY <2>1, <2>2 DEF TookInt, Took
  <2>4. at'[u] = "run"
    BY <1>2, <1>3, <1>8, Goes DEF Locs
  <2>5. BlockedFor'
    <3>1. Waits(u, SYS) => ReceivesFor(u)'
      BY <1>3, <2>4 DEF Waits, ReceivesFor
    <3>. QED  BY <1>1, <1>2, <1>3, <1>8, <2>3, <3>1, Names, ReceiveBlocksFor DEF Locs
  <2>6. /\ UNCHANGED has_int_msg
        /\ \A x \in {FS, HD} : /\ Sending(x)' <=> Sending(x)
                               /\ Receiving(x)' <=> Receiving(x)
                               /\ buf'[x] = buf[x]
        /\ buf'[SYS] = buf[SYS] /\ (Receiving(SYS)' <=> Receiving(SYS))
        /\ Sending(SYS)' => Sending(SYS) /\ p_sendto'[SYS] = p_sendto[SYS]
    BY <1>3, <2>3, Names DEF Waits, Took
  <2>7. SysAnswers'
    <3>1. SysHas(HD)' => SysHas(HD)
      BY <1>5, <2>6 DEF SysHas
    <3>. QED  BY <1>2, <1>5, <2>6, <3>1 DEF SysAnswers
  <2>. QED  BY <1>1, <1>5, <2>2, <2>5, <2>6, <2>7, OthersKeep
<1>. QED  BY <1>7, <1>8 DEF UserAsks, Here, b

\* SYS takes a question ...
LEMMA SysTakesKeeps ==
    ASSUME DiskInv, Here(SYS, "loop"), msg_receive(SYS, ANY), GoTo(SYS, "reply"),
           UNCHANGED <<fsVars, jobVars, pollVars, ctlVars>>
    PROVE  DiskInv'
<1>1. at[SYS] = "loop" /\ ~panicked /\ ~Sending(SYS) /\ ~Receiving(SYS)
  BY HereRuns
<1>2. Consistent /\ at \in [Native -> Locs] /\ BlockedFor /\ SysAnswers
  BY <1>1 DEF DiskInv, Always
<1>3. /\ at' \in [Native -> Locs] /\ at'[SYS] = "reply"
      /\ at'[FS] = at[FS] /\ at'[HD] = at[HD]
  BY <1>2, Goes, Names DEF Locs
<1>4. /\ Consistent' /\ ~panicked'
      /\ \/ TookInt(SYS, ANY) \/ Waits(SYS, ANY)
         \/ \E from \in Procs : from # SYS /\ Took(SYS, ANY, from)
  BY <1>2, Names, ReceiveEffect DEF Sources
<1>5. ~TookInt(SYS, ANY)
  BY <1>2 DEF SysAnswers, TookInt
<1>6. CASE Waits(SYS, ANY)
  <2>1. /\ UNCHANGED has_int_msg /\ Receiving(SYS)' /\ ~Sending(SYS)'
        /\ p_recvfrom'[SYS] = ANY
        /\ \A x \in {FS, HD} : /\ Sending(x)' <=> Sending(x)
                               /\ Receiving(x)' <=> Receiving(x)
                               /\ buf'[x] = buf[x]
    BY <1>1, <1>6, Names DEF Waits
  <2>2. BlockedFor'
    <3>1. ReceivesFor(SYS)'
      BY <1>3, <2>1 DEF ReceivesFor
    <3>. QED  BY <1>1, <1>2, <1>6, <3>1, Names, ReceiveBlocksFor DEF Locs, Sources
  <2>3. SysAnswers'
    BY <1>2, <2>1 DEF SysAnswers, SysHas
  <2>. QED  BY <1>1, <1>3, <1>4, <2>1, <2>2, <2>3, OthersKeep
<1>7. ASSUME NEW from \in Procs, from # SYS, Took(SYS, ANY, from)
      PROVE  DiskInv'
  <2>1. Sending(from) /\ p_sendto[from] = SYS
    BY <1>7 DEF Took
  <2>2. /\ from \in Clients /\ (from = HD => at[HD] = "clock")
        /\ buf[from].source = from /\ buf[from].body \in Bodies
    <3>1. from \in {FS, HD, SYS} \cup Users
      BY <1>2, <2>1, Blocked
    <3>2. from # FS /\ (from = HD => at[HD] = "clock")
      BY <1>2, <2>1, Blocked, Names
    <3>3. buf[from].source = from /\ buf[from].body \in Bodies
      BY <1>2, <2>1, Blocked
    <3>. QED  BY <1>7, <3>1, <3>2, <3>3 DEF Clients
  <2>3. from # FS
    BY <2>2, Names DEF Clients
  <2>4. /\ UNCHANGED has_int_msg /\ ~Receiving(SYS)' /\ ~Sending(SYS)' /\ buf'[SYS] = buf[from]
        /\ \A x \in {FS, HD} : /\ Sending(x)' <=> Sending(x) /\ x # from
                               /\ Receiving(x)' <=> Receiving(x)
                               /\ buf'[x] = buf[x]
    BY <1>1, <1>7, Names DEF Took
  <2>5. BlockedFor'
    BY <1>1, <1>2, <1>7, Names, ReceiveBlocksFor DEF Locs, Sources
  <2>6. SysAnswers'
    BY <1>2, <1>3, <2>2, <2>4 DEF SysAnswers, SysHas
  <2>7. /\ Sending(FS)' <=> Sending(FS)
        /\ at[HD] \notin {"ticks", "clock", "look"} => (Sending(HD)' <=> Sending(HD))
    BY <2>2, <2>3, <2>4
  <2>. QED  BY <1>1, <1>3, <1>4, <2>4, <2>5, <2>6, <2>7, OthersKeep
<1>. QED  BY <1>4, <1>5, <1>6, <1>7

\* ... and answers it.
LEMMA SysRepliesKeeps ==
    ASSUME DiskInv, Here(SYS, "reply"), msg_send(SYS, buf[SYS].source, buf[SYS].body),
           GoTo(SYS, "loop"), UNCHANGED <<fsVars, jobVars, pollVars, ctlVars>>
    PROVE  DiskInv'
<1>1. at[SYS] = "reply" /\ ~panicked /\ ~Sending(SYS) /\ ~Receiving(SYS)
  BY HereRuns
<1>2. Always /\ Consistent /\ at \in [Native -> Locs] /\ BlockedFor /\ SysAnswers
  BY <1>1 DEF DiskInv, Always
<1>3. /\ at' \in [Native -> Locs] /\ at'[SYS] = "loop"
      /\ at'[FS] = at[FS] /\ at'[HD] = at[HD]
  BY <1>2, Goes, Names DEF Locs
<1>4. PICK c : c = buf[SYS].source
  OBVIOUS
<1>5. PICK b : b = buf[SYS].body
  OBVIOUS
<1>6. /\ c \in Clients /\ c \in Procs /\ c # SYS /\ c # FS /\ b \in Bodies
      /\ c = HD => SysHas(HD)
  BY <1>1, <1>2, <1>4, <1>5, Names DEF SysAnswers, Clients, SysHas
<1>7. c = HD => \/ at[HD] = "clock" /\ ~Sending(HD)
                \/ at[HD] = "look" /\ Receiving(HD)
  BY <1>2, <1>6 DEF SysAnswers
<1>8. /\ Consistent' /\ UNCHANGED has_int_msg
      /\ \/ Delivered(SYS, c, b) \/ Queued(SYS, c, b)
         \/ panicked' /\ UNCHANGED <<p_flags, p_recvfrom, p_sendto, buf>>
  BY <1>2, <1>4, <1>5, <1>6, Names, SendEffect
<1>9. CASE panicked' /\ UNCHANGED <<p_flags, p_recvfrom, p_sendto, buf>>
  BY <1>1, <1>2, <1>3, <1>8, <1>9, Halts DEF jobVars, pollVars, ctlVars
<1>10. CASE Delivered(SYS, c, b)
  <2>1. /\ ~panicked' /\ ~Sending(SYS)'
        /\ \A x \in {FS, HD} : /\ Sending(x)' <=> Sending(x)
                               /\ Receiving(x)' <=> Receiving(x) /\ x # c
                               /\ x # c => buf'[x] = buf[x]
    BY <1>1, <1>10, Names DEF Delivered
  <2>2. BlockedFor'
    BY <1>1, <1>2, <1>6, <1>10, Names, SendBlocksFor DEF Locs
  <2>3. SysAnswers'
    BY <1>2, <1>3, <1>8, <2>1 DEF SysAnswers, SysHas
  <2>4. /\ buf'[HD] = buf[HD] \/ at[HD] \in {"ticks", "clock", "look"}
        /\ at[HD] \notin {"ticks", "clock", "look"} => (Receiving(HD)' <=> Receiving(HD))
        /\ (Receiving(FS)' <=> Receiving(FS)) /\ buf'[FS] = buf[FS]
    BY <1>6, <1>7, <2>1
  <2>. QED  BY <1>1, <1>3, <1>8, <2>1, <2>2, <2>3, <2>4, OthersKeep
<1>11. CASE Queued(SYS, c, b)
  <2>1. /\ ~panicked' /\ p_sendto'[SYS] = c /\ Sending(SYS)'
        /\ \A x \in {FS, HD} : /\ Sending(x)' <=> Sending(x)
                               /\ Receiving(x)' <=> Receiving(x)
                               /\ buf'[x] = buf[x]
    BY <1>11, Names DEF Queued
  <2>2. BlockedFor'
    <3>1. SendsFor(SYS)'
      BY <1>3, <1>6, <2>1 DEF SendsFor
    <3>. QED  BY <1>1, <1>2, <1>6, <1>11, <3>1, Names, SendBlocksFor DEF Locs
  <2>3. SysAnswers'
    BY <1>2, <1>3, <1>7, <1>8, <2>1 DEF SysAnswers, SysHas
  <2>. QED  BY <1>1, <1>3, <1>8, <2>1, <2>2, <2>3, OthersKeep
<1>. QED  BY <1>8, <1>9, <1>10, <1>11

LEMMA SysKeeps ==
    ASSUME DiskInv, task_sys
    PROVE  DiskInv'
BY SysTakesKeeps, SysRepliesKeeps DEF task_sys

\* HD asks for the time.
LEMMA TicksKeep ==
    ASSUME DiskInv, get_ticks
    PROVE  DiskInv'
<1>. DEFINE b == Body("GET_TICKS", NoReq)
<1>1. /\ ~panicked /\ ~Sending(HD) /\ ~Receiving(HD) /\ at[HD] \in {"ticks", "clock"}
      /\ UNCHANGED <<fsVars, jobVars, pollVars, ctlVars>>
  BY HereRuns DEF get_ticks
<1>2. Always /\ Consistent /\ at \in [Native -> Locs] /\ BlockedFor /\ SysAnswers
  BY <1>1 DEF DiskInv, Always
<1>3. b \in Bodies /\ SYS \in Sources
  BY Names, DiskAssumption DEF Sources
<1>. HIDE DEF b
<1>4. /\ Sending(SYS) => at[SYS] = "loop"
      /\ Receiving(SYS) => at[SYS] = "reply"
  BY <1>2, Blocked
<1>5. CASE at[HD] = "ticks" /\ msg_send(HD, SYS, b) /\ GoTo(HD, "clock")
  <2>1. /\ at' \in [Native -> Locs] /\ at'[HD] = "clock"
        /\ at'[FS] = at[FS] /\ at'[SYS] = at[SYS]
    BY <1>2, <1>5, Goes, Names DEF Locs
  <2>2. /\ Consistent' /\ UNCHANGED has_int_msg
        /\ \/ Delivered(HD, SYS, b) \/ Queued(HD, SYS, b)
           \/ panicked' /\ UNCHANGED <<p_flags, p_recvfrom, p_sendto, buf>>
    BY <1>2, <1>3, <1>5, Names, SendEffect
  <2>3. ~SysHas(HD)
    BY <1>2, <1>5 DEF SysAnswers
  <2>4. CASE panicked' /\ UNCHANGED <<p_flags, p_recvfrom, p_sendto, buf>>
    <3>1. Polls /\ Polls'
      BY <1>5, <2>1 DEF Polls
    <3>. QED  BY <1>1, <1>2, <2>1, <2>2, <2>4, <3>1, Halts DEF jobVars, pollVars, ctlVars
  <2>5. CASE Delivered(HD, SYS, b)
    <3>1. /\ ~panicked' /\ UNCHANGED p_sendto /\ Receiving(SYS)
          /\ (Sending(FS)' <=> Sending(FS)) /\ (Receiving(FS)' <=> Receiving(FS))
          /\ buf'[FS] = buf[FS] /\ ~Sending(HD)'
          /\ (Sending(SYS)' <=> Sending(SYS))
          /\ buf'[SYS] = [source |-> HD, body |-> b]
      BY <1>1, <2>5, Names DEF Delivered, Accepts
    <3>2. BlockedFor'
      BY <1>1, <1>2, <1>3, <1>5, <2>5, Names, SendBlocksFor DEF Locs
    <3>3. SysAnswers'
      BY <1>2, <1>3, <2>1, <2>2, <3>1 DEF SysAnswers, SysHas, Clients
    <3>. QED  BY <1>1, <1>5, <2>1, <2>2, <3>1, <3>2, <3>3, OthersKeep
  <2>6. CASE Queued(HD, SYS, b)
    <3>1. /\ ~panicked' /\ p_sendto'[HD] = SYS
          /\ \A x \in {FS, SYS} : /\ Sending(x)' <=> Sending(x)
                                  /\ Receiving(x)' <=> Receiving(x)
                                  /\ buf'[x] = buf[x] /\ p_sendto'[x] = p_sendto[x]
      BY <2>6, Names DEF Queued
    <3>2. BlockedFor'
      <4>1. SendsFor(HD)'
        BY <2>1, <3>1 DEF SendsFor
      <4>. QED  BY <1>1, <1>2, <1>3, <1>5, <2>6, <4>1, Names, SendBlocksFor DEF Locs
    <3>3. SysAnswers'
      <4>1. ~SysHas(HD)'
        BY <2>1, <2>3, <3>1 DEF SysHas
      <4>. QED  BY <1>2, <2>1, <2>2, <3>1, <4>1 DEF SysAnswers
    <3>. QED  BY <1>1, <1>5, <2>1, <2>2, <3>1, <3>2, <3>3, OthersKeep
  <2>. QED  BY <2>2, <2>4, <2>5, <2>6
<1>6. CASE at[HD] = "clock" /\ msg_receive(HD, SYS) /\ GoTo(HD, "look")
  <2>1. /\ at' \in [Native -> Locs] /\ at'[HD] = "look"
        /\ at'[FS] = at[FS] /\ at'[SYS] = at[SYS]
    BY <1>2, <1>6, Goes, Names DEF Locs
  <2>2. SYS # ANY /\ SYS # INTERRUPT
    BY Names
  <2>3. /\ Consistent' /\ ~panicked'
        /\ \/ TookInt(HD, SYS) \/ Waits(HD, SYS)
           \/ \E from \in Procs : from # HD /\ Took(HD, SYS, from)
    BY <1>2, <1>3, <1>6, Names, ReceiveEffect
  <2>4. Waits(HD, SYS) \/ Took(HD, SYS, SYS)
    BY <2>2, <2>3 DEF TookInt, Took
  <2>5. BlockedFor'
    <3>1. Waits(HD, SYS) => ReceivesFor(HD)'
      BY <2>1, Names DEF Waits, ReceivesFor
    <3>. QED  BY <1>1, <1>2, <1>3, <1>6, <2>4, <3>1, Names, ReceiveBlocksFor DEF Locs
  <2>6. /\ UNCHANGED has_int_msg
        /\ (Sending(FS)' <=> Sending(FS)) /\ (Receiving(FS)' <=> Receiving(FS))
        /\ buf'[FS] = buf[FS]
        /\ buf'[SYS] = buf[SYS] /\ (Receiving(SYS)' <=> Receiving(SYS))
        /\ Sending(SYS)' => Sending(SYS) /\ p_sendto'[SYS] = p_sendto[SYS]
    BY <1>1, <2>4, Names DEF Waits, Took
  <2>7. SysAnswers'
    <3>1. SysHas(HD)' => SysHas(HD)
      BY <2>1, <2>6 DEF SysHas
    <3>2. CASE Waits(HD, SYS)
      <4>1. Receiving(HD)'
        BY <3>2, Names DEF Waits
      <4>. QED  BY <1>2, <2>1, <2>6, <4>1 DEF SysAnswers
    <3>3. CASE Took(HD, SYS, SYS)
      <4>1. at[SYS] = "loop" /\ ~Sending(SYS)'
        BY <1>4, <3>3, Names DEF Took
      <4>. QED  BY <1>2, <2>1, <2>6, <4>1 DEF SysAnswers, SysHas
    <3>. QED  BY <2>4, <3>2, <3>3
  <2>. QED  BY <1>1, <1>6, <2>1, <2>3, <2>5, <2>6, <2>7, OthersKeep
<1>. QED  BY <1>5, <1>6 DEF get_ticks, Here, b

\* HD waits for its interrupt, or has it.
LEMMA WaitKeeps ==
    ASSUME DiskInv, interrupt_wait
    PROVE  DiskInv'
<1>1. at[HD] = "wait" /\ ~panicked /\ ~Sending(HD) /\ ~Receiving(HD)
  BY HereRuns DEF interrupt_wait
<1>2. /\ Consistent /\ DiskTypeOK /\ at \in [Native -> Locs] /\ OneInterrupt
      /\ BlockedFor /\ SysAnswers /\ OneRequest /\ ScanKnows /\ Transfers
  BY <1>1 DEF DiskInv, Always
<1>3. /\ msg_receive(HD, INTERRUPT) /\ GoTo(HD, "data")
      /\ UNCHANGED <<fsVars, jobVars, pollVars, ctlVars>>
  BY DEF interrupt_wait
<1>4. UNCHANGED <<asked, mem, msg, left, cmd, want, late, ctl, intrq, dsk, layout>>
  BY <1>3 DEF fsVars, jobVars, pollVars, ctlVars
<1>5. /\ at' \in [Native -> Locs] /\ at'[HD] = "data"
      /\ at'[FS] = at[FS] /\ at'[SYS] = at[SYS]
  BY <1>2, <1>3, Goes, Names DEF Locs
<1>6. Consistent' /\ ~panicked' /\ (TookInt(HD, INTERRUPT) \/ Waits(HD, INTERRUPT))
  <2>1. INTERRUPT \in Sources
    BY DEF Sources
  <2>2. /\ Consistent' /\ ~panicked'
        /\ \/ TookInt(HD, INTERRUPT) \/ Waits(HD, INTERRUPT)
           \/ \E from \in Procs : from # HD /\ Took(HD, INTERRUPT, from)
    BY <1>2, <1>3, <2>1, Names, ReceiveEffect
  <2>. QED  BY <2>2, Names DEF Took
<1>7. /\ \A x \in {FS, SYS} : /\ Sending(x)' <=> Sending(x)
                              /\ Receiving(x)' <=> Receiving(x)
                              /\ buf'[x] = buf[x]
      /\ UNCHANGED p_sendto /\ ~has_int_msg[SYS] /\ ~has_int_msg'[SYS] /\ ~Sending(HD)'
      /\ Receiving(HD)' => ~has_int_msg'[HD] \/ has_int_msg'[HD] = has_int_msg[HD]
  <2>1. ~has_int_msg[SYS]
    BY <1>2 DEF SysAnswers
  <2>2. CASE TookInt(HD, INTERRUPT)
    BY <1>1, <2>1, <2>2, Names DEF TookInt, Sending, Receiving
  <2>3. CASE Waits(HD, INTERRUPT)
    BY <1>1, <2>1, <2>3, Names DEF Waits
  <2>. QED  BY <1>6, <2>2, <2>3
<1>8. BlockedFor'
  <2>1. Waits(HD, INTERRUPT) => ReceivesFor(HD)'
    BY <1>5, Names DEF Waits, ReceivesFor
  <2>. QED  BY <1>1, <1>2, <1>3, <1>6, <2>1, Names, ReceiveBlocksFor DEF Locs, Sources
<1>9. SysAnswers'
  <2>1. ~SysHas(HD) /\ ~SysHas(HD)'
    BY <1>1, <1>2, <1>5, <1>7 DEF SysAnswers, SysHas
  <2>. QED  BY <1>2, <1>5, <1>7, <2>1 DEF SysAnswers
<1>10. /\ ~HDFree /\ ~HDFree' /\ (FSOut' <=> FSOut) /\ ~HDTaken /\ ~HDTaken'
       /\ HDWorks /\ HDWorks' /\ ~Polls /\ ~Polls' /\ Awaits
  BY <1>1, <1>5, <1>7 DEF HDFree, FSOut, HDTaken, HDWorks, Polls, Awaits
<1>11. OneRequest'
  BY <1>2, <1>4, <1>5, <1>7, <1>10 DEF OneRequest
<1>12. ScanKnows' /\ Transfers'
  BY <1>1, <1>2, <1>3, <1>4, <1>5, <1>7, <1>10, StageKeeps
\* The interrupt that has come was the one of the command.
<1>13. OneInterrupt'
  <2>1. CASE TookInt(HD, INTERRUPT)
    <3>1. has_int_msg[HD] /\ ~has_int_msg'[HD] /\ ~Receiving(HD)'
      BY <1>1, <2>1, Names DEF TookInt, Receiving
    <3>2. /\ ~intrq /\ ctl.st \in {"drq", "ready"} /\ (ctl.op # "WRITE" => ctl.st = "drq")
      BY <1>2, <1>10, <3>1 DEF OneInterrupt, DiskTypeOK
    <3>3. ~Awaits'
      BY <1>5, <3>1 DEF Awaits
    <3>. QED  BY <1>2, <1>4, <1>5, <1>10, <3>1, <3>2, <3>3 DEF OneInterrupt
  <2>2. CASE Waits(HD, INTERRUPT)
    <3>1. Receiving(HD)' /\ UNCHANGED has_int_msg
      BY <2>2, Names DEF Waits
    <3>2. ~Told'
      BY <3>1 DEF Told
    <3>. QED  BY <1>2, <1>4, <1>5, <1>10, <3>1, <3>2 DEF OneInterrupt
  <2>. QED  BY <1>6, <2>1, <2>2
<1>14. DiskTypeOK'
  BY <1>2, <1>4, <1>6 DEF DiskTypeOK, Consistent
<1>. QED  BY <1>5, <1>6, <1>8, <1>9, <1>11, <1>12, <1>13, <1>14 DEF DiskInv, Always

\* HD takes a request of FS, or waits for one.
LEMMA TakeKeeps ==
    ASSUME DiskInv, HDTake
    PROVE  DiskInv'
<1>1. at[HD] = "loop" /\ ~panicked /\ ~Sending(HD) /\ ~Receiving(HD)
  BY HereRuns DEF HDTake
<1>2. /\ Consistent /\ DiskTypeOK /\ at \in [Native -> Locs] /\ OneInterrupt /\ left = 0
      /\ BlockedFor /\ SysAnswers /\ OneRequest /\ ScanKnows /\ Transfers
  BY <1>1 DEF DiskInv, Always
<1>3. /\ msg_receive(HD, ANY) /\ GoTo(HD, "handle")
      /\ UNCHANGED <<fsVars, jobVars, pollVars, ctlVars>>
  BY DEF HDTake
<1>4. UNCHANGED <<asked, mem, msg, left, scan, hd_info, cmd, want, late, ctl, intrq, dsk, layout>>
  BY <1>3 DEF fsVars, jobVars, pollVars, ctlVars
<1>5. /\ at' \in [Native -> Locs] /\ at'[HD] = "handle"
      /\ at'[FS] = at[FS] /\ at'[SYS] = at[SYS]
  BY <1>2, <1>3, Goes, Names DEF Locs
<1>6. ~SysHas(HD) /\ ~has_int_msg[HD] /\ HDFree /\ ~FSOut /\ ~HDTaken /\ ~HDWorks
  BY <1>1, <1>2 DEF SysAnswers, OneInterrupt, HDFree, OneRequest, HDTaken, HDWorks, Polls
<1>7. Consistent' /\ ~panicked' /\ (Waits(HD, ANY) \/ Took(HD, ANY, FS))
  <2>1. /\ Consistent' /\ ~panicked'
        /\ \/ TookInt(HD, ANY) \/ Waits(HD, ANY)
           \/ \E from \in Procs : from # HD /\ Took(HD, ANY, from)
    BY <1>2, <1>3, Names, ReceiveEffect DEF Sources
  <2>2. ~TookInt(HD, ANY)
    BY <1>6 DEF TookInt
  <2>3. ASSUME NEW from \in Procs, Took(HD, ANY, from)  PROVE from = FS
    <3>1. Sending(from) /\ p_sendto[from] = HD
      BY <2>3 DEF Took
    <3>2. from \notin Users /\ from # HD
      BY <1>1, <1>2, <3>1, Blocked, Names
    <3>3. from # SYS
      BY <1>6, <3>1 DEF SysHas
    <3>. QED  BY <1>2, <3>1, <3>2, <3>3, Blocked
  <2>. QED  BY <2>1, <2>2, <2>3
<1>8. BlockedFor'
  <2>1. Waits(HD, ANY) => ReceivesFor(HD)'
    BY <1>5, Names DEF Waits, ReceivesFor
  <2>. QED  BY <1>1, <1>2, <1>3, <1>7, <2>1, Names, ReceiveBlocksFor DEF Locs, Sources
<1>9. /\ UNCHANGED has_int_msg /\ ~Sending(HD)'
      /\ (Sending(SYS)' <=> Sending(SYS)) /\ (Receiving(SYS)' <=> Receiving(SYS))
      /\ (Receiving(FS)' <=> Receiving(FS)) /\ p_sendto'[SYS] = p_sendto[SYS]
      /\ buf'[SYS] = buf[SYS] /\ buf'[FS] = buf[FS]
  BY <1>1, <1>7, Names DEF Waits, Took
<1>10. SysAnswers'
  <2>1. ~SysHas(HD)'
    BY <1>5, <1>6, <1>9 DEF SysHas
  <2>. QED  BY <1>2, <1>5, <1>9, <2>1 DEF SysAnswers
<1>11. ~HDWorks' /\ ~Polls' /\ ~Polls /\ ~Awaits' /\ ~Told'
  BY <1>1, <1>5 DEF HDWorks, Polls, Awaits, Told
<1>12. OneInterrupt' /\ DiskTypeOK' /\ left' = 0
  <2>1. OneInterrupt'
    BY <1>1, <1>2, <1>4, <1>5, <1>9, <1>11 DEF OneInterrupt
  <2>. QED  BY <1>2, <1>4, <1>7, <2>1 DEF DiskTypeOK, Consistent
<1>13. CASE Waits(HD, ANY)
  <2>1. Receiving(HD)' /\ (Sending(FS)' <=> Sending(FS))
    BY <1>13, Names DEF Waits
  <2>2. HDFree' /\ ~FSOut' /\ ~HDTaken'
    BY <1>5, <1>6, <1>9, <2>1 DEF HDFree, FSOut, HDTaken
  <2>3. OneRequest'
    BY <1>2, <1>4, <1>5, <1>6, <1>9, <1>11, <2>1, <2>2 DEF OneRequest
  <2>4. ScanKnows' /\ Transfers'
    BY <1>1, <1>2, <1>3, <1>4, <1>5, <1>6, <1>11, <2>1, <2>2, StageKeeps
  <2>. QED  BY <1>5, <1>7, <1>8, <1>10, <1>12, <2>3, <2>4 DEF DiskInv, Always
<1>14. CASE Took(HD, ANY, FS)
  <2>1. ~Receiving(HD)' /\ ~Sending(FS)' /\ Sending(FS) /\ buf'[HD] = buf[FS]
    BY <1>1, <1>14, Names DEF Took
  <2>2. at[FS] = "sent" /\ buf[FS].source = FS /\ buf[FS].body = Body(asked.op, asked)
    BY <1>2, <2>1, Blocked, Names DEF OneRequest
  <2>3. ~HDFree' /\ FSOut' /\ HDTaken'
    BY <1>5, <2>1, <2>2 DEF HDFree, FSOut, HDTaken
  <2>4. OneRequest'
    BY <1>2, <1>4, <1>5, <1>6, <1>11, <2>1, <2>2, <2>3 DEF OneRequest
  <2>5. ScanKnows'
    <3>1. Opening => Opening'
      BY <1>4, <2>3 DEF Opening
    <3>. QED  BY <1>2, <1>4, <1>6, <1>11, <3>1 DEF ScanKnows, BootKnown
  <2>6. Transfers'
    <3>1. ~Reading' /\ ~Writing' /\ ~Reading /\ ~Writing
      BY <1>6, <1>11 DEF Reading, Writing
    <3>. QED  BY <1>2, <1>4, <1>11, <2>3, <3>1 DEF Transfers, InfoIs
  <2>. QED  BY <1>5, <1>7, <1>8, <1>10, <1>12, <2>4, <2>5, <2>6 DEF DiskInv, Always
<1>. QED  BY <1>7, <1>13, <1>14

\* HD answers: the request has been carried out.
LEMMA RepliesKeep ==
    ASSUME DiskInv, HDReplies
    PROVE  DiskInv'
<1>1. at[HD] = "reply" /\ ~panicked /\ ~Sending(HD) /\ ~Receiving(HD)
  BY HereRuns DEF HDReplies
<1>2. /\ Consistent /\ DiskTypeOK /\ at \in [Native -> Locs] /\ OneInterrupt /\ left = 0
      /\ BlockedFor /\ SysAnswers /\ OneRequest /\ ScanKnows /\ Transfers
  BY <1>1 DEF DiskInv, Always
<1>3. HDWorks /\ FSOut /\ ~Sending(FS) /\ ~HDTaken /\ asked # NoReq /\ msg = asked /\ asked \in Asked
  <2>1. HDWorks /\ ~HDTaken
    BY <1>1 DEF HDWorks, HDTaken
  <2>. QED  BY <1>2, <2>1, FSWaits DEF OneRequest
<1>4. PICK b : b = Body(asked.op, asked)
  OBVIOUS
<1>5. b \in Bodies
  BY <1>3, <1>4, DiskAssumption
<1>6. /\ msg_send(HD, FS, b) /\ msg' = NoReq /\ want' = "BSY" /\ late' = FALSE /\ GoTo(HD, "loop")
      /\ UNCHANGED <<fsVars, left, scan, hd_info, ctlVars>>
  BY <1>3, <1>4 DEF HDReplies
<1>7. UNCHANGED <<asked, mem, left, scan, hd_info, ctl, intrq, dsk, layout>>
  BY <1>6 DEF fsVars, ctlVars
<1>8. /\ at' \in [Native -> Locs] /\ at'[HD] = "loop"
      /\ at'[FS] = at[FS] /\ at'[SYS] = at[SYS]
  BY <1>2, <1>6, Goes, Names DEF Locs
<1>9. /\ Consistent' /\ UNCHANGED has_int_msg
      /\ \/ Delivered(HD, FS, b) \/ Queued(HD, FS, b)
         \/ panicked' /\ UNCHANGED <<p_flags, p_recvfrom, p_sendto, buf>>
  BY <1>2, <1>5, <1>6, Names, SendEffect
<1>10. ~HDWorks' /\ ~Polls' /\ ~HDTaken' /\ ~Awaits' /\ ~Told' /\ ~Reading' /\ ~Writing' /\ ~Commands'
  BY <1>8 DEF HDWorks, Polls, HDTaken, Awaits, Told, Reading, Writing, Commands
<1>11. OneInterrupt'
  BY <1>1, <1>2, <1>7, <1>8, <1>9, <1>10 DEF OneInterrupt
<1>12. DiskTypeOK'
  <2>1. msg' \in Asked /\ left' \in 0..msg'.cnt
    BY <1>2, <1>6, <1>7 DEF Asked, NoReq
  <2>. QED  BY <1>2, <1>6, <1>7, <1>9, <2>1 DEF DiskTypeOK, Consistent
<1>13. Always'
  BY <1>2, <1>7, <1>8, <1>9, <1>11, <1>12 DEF Always
<1>14. CASE panicked'
  BY <1>13, <1>14 DEF DiskInv
<1>15. ASSUME Delivered(HD, FS, b) \/ Queued(HD, FS, b)  PROVE DiskInv'
  <2>1. /\ ~Sending(FS)'
        /\ (Sending(SYS)' <=> Sending(SYS)) /\ (Receiving(SYS)' <=> Receiving(SYS))
        /\ buf'[SYS] = buf[SYS] /\ p_sendto'[SYS] = p_sendto[SYS]
    BY <1>3, <1>15, Names DEF Delivered, Queued
  <2>2. BlockedFor'
    <3>1. Queued(HD, FS, b) => SendsFor(HD)'
      BY <1>8, Names DEF Queued, SendsFor
    <3>. QED  BY <1>1, <1>2, <1>5, <1>6, <1>15, <3>1, Names, SendBlocksFor DEF Locs
  <2>3. SysAnswers'
    <3>1. ~SysHas(HD) /\ ~SysHas(HD)'
      BY <1>1, <1>2, <1>8, <2>1 DEF SysAnswers, SysHas
    <3>. QED  BY <1>2, <1>8, <1>9, <2>1, <3>1 DEF SysAnswers
  <2>4. HDFree' <=> ~FSOut'
    <3>1. CASE Delivered(HD, FS, b)
      <4>1. Receiving(FS) /\ ~Receiving(FS)' /\ ~Sending(HD)'
        BY <1>1, <3>1, Names DEF Delivered, Accepts
      <4>2. at[FS] = "boot"
        BY <1>2, <4>1, Blocked
      <4>. QED  BY <1>8, <4>1, <4>2 DEF HDFree, FSOut
    <3>2. CASE Queued(HD, FS, b)
      <4>1. Sending(HD)' /\ (Receiving(FS)' <=> Receiving(FS))
        BY <3>2, Names DEF Queued
      <4>. QED  BY <1>3, <1>8, <2>1, <4>1 DEF HDFree, FSOut
    <3>. QED  BY <1>15, <3>1, <3>2
  <2>5. OneRequest'
    BY <1>3, <1>7, <1>10, <2>1, <2>4 DEF OneRequest
  <2>6. ScanKnows'
    <3>1. ~Opening /\ ~Opening' /\ asked.op # "none"
      <4>1. asked.op # "none"
        BY <1>3, AskedIs
      <4>. QED  BY <1>1, <1>3, <1>8, <1>10, <2>1, <4>1 DEF Opening, Polls
    <3>. QED  BY <1>2, <1>7, <1>10, <3>1 DEF ScanKnows, BootKnown
  <2>7. Transfers'
    <3>1. Copied(asked.cnt)
      <4>0. asked.cnt \in Nat /\ asked.cnt - left = asked.cnt
        BY <1>2, <1>3, AskedIs
      <4>1. CASE Reading \/ Writing
        BY <1>2, <4>0, <4>1 DEF Transfers
      <4>2. CASE ~Reading /\ ~Writing
        <5>1. asked.cnt = 0
          BY <1>3, <4>2, AskedIs DEF Reading, Writing
        <5>. QED  BY <5>1 DEF Copied
      <4>. QED  BY <4>1, <4>2
    <3>2. Copied(asked.cnt)'
      BY <1>7, <3>1 DEF Copied
    <3>3. /\ asked.op \in {"DEV_READ", "DEV_WRITE"} => mem = [i \in 1..asked.cnt |-> mem[i]]
          /\ dsk = [s \in FirstData..NrSects |-> dsk[s]] /\ InfoIs
      BY <1>2 DEF Transfers
    <3>. QED  BY <1>6, <1>7, <1>10, <3>2, <3>3 DEF Transfers, InfoIs
  <2>. QED  BY <1>13, <2>2, <2>3, <2>5, <2>6, <2>7 DEF DiskInv
<1>. QED  BY <1>9, <1>14, <1>15

\* FS asks.
LEMMA AskKeeps ==
    ASSUME DiskInv, NEW req \in NextRequests, rw_sector(req)
    PROVE  DiskInv'
<1>1. at[FS] = "boot" /\ ~panicked /\ ~Sending(FS) /\ ~Receiving(FS)
  BY HereRuns DEF rw_sector
<1>2. /\ Always /\ Consistent /\ DiskTypeOK /\ at \in [Native -> Locs] /\ OneInterrupt
      /\ BlockedFor /\ SysAnswers /\ OneRequest /\ ScanKnows /\ Transfers
      /\ at[HD] \in {"loop", "handle", "reply"} => left = 0
  BY <1>1 DEF DiskInv, Always
<1>3. /\ req \in Asked /\ req # NoReq /\ req.op # "none"
      /\ asked.op = "none" => req.op = "DEV_OPEN"
  BY RequestsAssumption DEF NextRequests, Asked, NoReq
<1>4. PICK b : b = Body(req.op, req)
  OBVIOUS
<1>5. b \in Bodies
  BY <1>3, <1>4, DiskAssumption
<1>6. /\ msg_send(FS, HD, b) /\ asked' = req /\ GoTo(FS, "sent")
      /\ mem' = [i \in 1..req.cnt |-> IF req.op = "DEV_WRITE" THEN Written(i) ELSE 0]
      /\ UNCHANGED <<jobVars, pollVars, ctlVars>>
  BY <1>4 DEF rw_sector
<1>7. UNCHANGED <<msg, left, scan, hd_info, cmd, want, late, ctl, intrq, dsk, layout>>
  BY <1>6 DEF jobVars, pollVars, ctlVars
<1>8. /\ at' \in [Native -> Locs] /\ at'[FS] = "sent"
      /\ at'[HD] = at[HD] /\ at'[SYS] = at[SYS]
  BY <1>2, <1>6, Goes, Names DEF Locs
<1>9. /\ Consistent' /\ UNCHANGED has_int_msg
      /\ \/ Delivered(FS, HD, b) \/ Queued(FS, HD, b)
         \/ panicked' /\ UNCHANGED <<p_flags, p_recvfrom, p_sendto, buf>>
  BY <1>2, <1>5, <1>6, Names, SendEffect
<1>10. CASE panicked' /\ UNCHANGED <<p_flags, p_recvfrom, p_sendto, buf>>
  BY <1>2, <1>7, <1>8, <1>9, <1>10, Halts
\* HD has nothing to do.
<1>11. /\ ~FSOut /\ HDFree /\ ~HDTaken /\ ~HDWorks /\ ~Polls
       /\ at[HD] \in {"loop", "handle"}
  BY <1>1, <1>2 DEF FSOut, OneRequest, HDFree, HDTaken, HDWorks, Polls
<1>12. /\ ~HDWorks' /\ ~Polls' /\ ~Awaits' /\ ~Told' /\ ~Reading' /\ ~Writing'
       /\ ~Reading /\ ~Writing /\ ~Awaits /\ ~Told
  BY <1>8, <1>11 DEF HDWorks, Polls, Awaits, Told, Reading, Writing
<1>13. ASSUME Delivered(FS, HD, b) \/ Queued(FS, HD, b)  PROVE DiskInv'
  <2>1. /\ ~panicked'
        /\ (Sending(HD)' <=> Sending(HD))
        /\ (Sending(SYS)' <=> Sending(SYS)) /\ (Receiving(SYS)' <=> Receiving(SYS))
        /\ buf'[SYS] = buf[SYS] /\ p_sendto'[SYS] = p_sendto[SYS]
    BY <1>13, Names DEF Delivered, Queued
  <2>2. BlockedFor'
    <3>1. Queued(FS, HD, b) => SendsFor(FS)'
      BY <1>8, Names DEF Queued, SendsFor
    <3>. QED  BY <1>1, <1>2, <1>5, <1>6, <1>13, <3>1, Names, SendBlocksFor DEF Locs
  <2>3. SysAnswers'
    <3>1. ~SysHas(HD) /\ ~SysHas(HD)'
      BY <1>2, <1>8, <1>11, <2>1 DEF SysAnswers, SysHas
    <3>. QED  BY <1>2, <1>8, <1>9, <2>1, <3>1 DEF SysAnswers
  <2>4. /\ HDFree' <=> ~FSOut'
        /\ Sending(FS)' => ~HDTaken' /\ buf'[FS].body = b
        /\ HDTaken' => buf'[HD].source = FS /\ buf'[HD].body = b
        /\ Sending(FS)' \/ HDTaken'
    <3>1. CASE Delivered(FS, HD, b)
      <4>1. Receiving(HD) /\ ~Receiving(HD)' /\ ~Sending(FS)' /\ buf'[HD] = [source |-> FS, body |-> b]
        BY <1>1, <3>1, Names DEF Delivered, Accepts
      <4>2. at[HD] = "handle"
        BY <1>2, <1>11, <4>1, Blocked
      <4>. QED  BY <1>8, <4>1, <4>2 DEF HDFree, FSOut, HDTaken
    <3>2. CASE Queued(FS, HD, b)
      <4>1. Sending(FS)' /\ (Receiving(HD)' <=> Receiving(HD)) /\ buf'[FS].body = b
        BY <3>2, Names DEF Queued
      <4>. QED  BY <1>8, <1>11, <2>1, <4>1 DEF HDFree, FSOut, HDTaken
    <3>. QED  BY <1>13, <3>1, <3>2
  <2>5. OneRequest'
    BY <1>3, <1>4, <1>6, <1>12, <2>4 DEF OneRequest
  <2>6. ScanKnows'
    <3>1. scan = NoScan /\ layout \in Layouts
      BY <1>2, <1>11 DEF ScanKnows
    <3>2. Opening => asked.op = "DEV_OPEN" /\ Sending(FS)
      BY <1>11 DEF Opening
    <3>3. BootKnown \/ asked'.op = "DEV_OPEN"
      BY <1>1, <1>2, <1>3, <1>6, <3>2 DEF ScanKnows
    <3>4. asked'.op = "DEV_OPEN" => Opening'
      BY <2>4 DEF Opening
    <3>. QED  BY <1>7, <1>12, <3>1, <3>3, <3>4 DEF ScanKnows, BootKnown
  <2>7. Transfers'
    <3>1. /\ dsk = [s \in FirstData..NrSects |-> dsk[s]] /\ InfoIs /\ want # "DRQ"
      BY <1>2, <1>12 DEF Transfers
    <3>2. mem' = [i \in 1..asked'.cnt |-> mem'[i]]
      BY <1>6
    <3>. QED  BY <1>7, <1>12, <2>4, <3>1, <3>2 DEF Transfers, InfoIs
  <2>8. OneInterrupt'
    BY <1>2, <1>7, <1>8, <1>9, <1>12 DEF OneInterrupt
  <2>9. DiskTypeOK'
    BY <1>2, <1>7, <1>9 DEF DiskTypeOK, Consistent
  <2>. QED  BY <1>2, <1>7, <1>8, <1>9, <2>2, <2>3, <2>5, <2>6, <2>7, <2>8, <2>9 DEF DiskInv, Always
<1>. QED  BY <1>9, <1>10, <1>13

-----------------------------------------------------------------------------
(* The theorems                                                            *)

LEMMA InitHolds == DiskInit => DiskInv
<1>. SUFFICES ASSUME DiskInit  PROVE DiskInv
  OBVIOUS
<1>1. /\ Consistent /\ ~panicked
      /\ \A p \in Procs : ~Sending(p) /\ ~Receiving(p) /\ ~has_int_msg[p]
  <2>1. Init
    BY DEF DiskInit
  <2>2. \A p \in Procs : p_flags[p] \in {{}, {"FREE_SLOT"}}
    BY <2>1 DEF Init
  <2>3. ~panicked /\ \A p \in Procs : ~has_int_msg[p]
    BY <2>1 DEF Init
  <2>. QED  BY <2>1, <2>2, <2>3, InitConsistent DEF Sending, Receiving
<1>2. /\ asked = NoReq /\ msg = NoReq /\ left = 0 /\ want = "BSY" /\ late = FALSE /\ scan = NoScan
      /\ ctl = Controller("ready", "none", 0, 0) /\ intrq = FALSE /\ layout \in Layouts
      /\ dsk = [s \in FirstData..NrSects |-> s]
      /\ hd_info = [primary  |-> [j \in 0..NR_PART_PER_DRIVE |-> 0],
                    logical  |-> [k \in 0..NrSubs - 1 |-> 0], open_cnt |-> 0]
  BY DEF DiskInit
<1>3. /\ at \in [Native -> Locs] /\ at[FS] = "boot" /\ at[HD] = "loop" /\ at[SYS] = "loop"
  <2>1. at = [p \in Native |-> CASE p = FS -> "boot"
                                 [] p \in {HD, SYS} -> "loop"
                                 [] OTHER -> "run"]
    BY DEF DiskInit
  <2>. QED  BY <2>1, Names DEF Locs
<1>4. /\ asked \in Asked /\ asked.cnt = 0 /\ asked.op = "none"
  BY <1>2 DEF Asked, NoReq
<1>5. /\ ctl = Controller(ctl.st, ctl.op, ctl.sect, ctl.left)
      /\ ctl.st = "ready" /\ ctl.left = 0 /\ 0 \in 0..MaxCount
  BY <1>2, DiskAssumption DEF Controller
<1>6. /\ HDFree /\ ~FSOut /\ ~HDTaken /\ ~HDWorks /\ ~Polls /\ ~Awaits /\ ~Told
      /\ ~Reading /\ ~Writing /\ ~SysHas(HD)
  BY <1>1, <1>3, Names
     DEF HDFree, FSOut, HDTaken, HDWorks, Polls, Awaits, Told, Reading, Writing, SysHas
<1>7. DiskTypeOK
  <2>1. TypeOK /\ msg \in Asked /\ left \in 0..msg.cnt
    BY <1>1, <1>2, <1>4 DEF Consistent
  <2>. QED  BY <1>2, <1>5, <2>1 DEF DiskTypeOK
<1>8. OneInterrupt
  BY <1>1, <1>2, <1>5, <1>6, Names DEF OneInterrupt
<1>9. BlockedFor
  BY <1>1 DEF BlockedFor
<1>10. SysAnswers
  BY <1>1, <1>3, <1>6, Names DEF SysAnswers
<1>11. OneRequest
  BY <1>1, <1>3, <1>4, <1>6, Names DEF OneRequest
<1>12. ScanKnows
  BY <1>2, <1>4, <1>6 DEF ScanKnows
<1>13. Transfers
  <2>1. dsk = [s \in FirstData..NrSects |-> dsk[s]] /\ Copied(asked.cnt)
    BY <1>2, <1>4 DEF Copied
  <2>2. InfoIs
    BY <1>2 DEF InfoIs
  <2>. QED  BY <1>2, <1>4, <1>6, <2>1, <2>2 DEF Transfers
<1>. QED  BY <1>1, <1>2, <1>3, <1>7, <1>8, <1>9, <1>10, <1>11, <1>12, <1>13 DEF DiskInv, Always

LEMMA StutterKeeps ==
    ASSUME DiskInv, UNCHANGED allVars
    PROVE  DiskInv'
<1>1. UNCHANGED <<vars, at, asked, mem, jobVars, pollVars, ctlVars>>
  BY DEF allVars, diskVars, fsVars
<1>2. UNCHANGED <<msg, left, cmd, want, late, ctl, intrq, dsk, layout, panicked, has_int_msg, p_flags>>
  BY <1>1 DEF jobVars, pollVars, ctlVars, vars
<1>3. Consistent'
  BY <1>1, Stays DEF DiskInv, Always
<1>4. CASE panicked
  BY <1>1, <1>2, <1>3, <1>4, Halts DEF DiskInv, Always
<1>5. CASE ~panicked
  <2>1. Consistent /\ BlockedFor /\ SysAnswers /\ OneRequest /\ DiskTypeOK /\ at \in [Native -> Locs]
    BY <1>5 DEF DiskInv, Always
  <2>2. /\ TypeOK' /\ BlockedFor' /\ SysAnswers' /\ OneRequest'
        /\ \A p \in Procs : (Sending(p)' <=> Sending(p)) /\ (Receiving(p)' <=> Receiving(p))
    BY <1>1, <1>2, <2>1, CallsKeep
  <2>3. (HDTaken' <=> HDTaken) /\ (Awaits' <=> Awaits) /\ (Told' <=> Told)
    BY <1>1, <2>2, Names DEF HDTaken, Awaits, Told
  <2>4. /\ ScanKnows' /\ Transfers' /\ OneInterrupt'
        /\ at'[HD] \in {"loop", "handle", "reply"} => left' = 0
    BY <1>1, <1>2, <1>5, <2>2, <2>3, Names, DataKeeps
  <2>5. DiskTypeOK'
    BY <1>2, <2>1, <2>2 DEF DiskTypeOK
  <2>. QED  BY <1>1, <1>3, <2>1, <2>2, <2>4, <2>5 DEF DiskInv, Always
<1>. QED  BY <1>4, <1>5

\* A step keeps the invariant; only port_write changes the disk, at the sector
\* that the controller has come to.
LEMMA DiskStep ==
    ASSUME DiskInv, [DiskNext]_allVars
    PROVE  /\ DiskInv'
           /\ dsk' = dsk \/ /\ dsk' = [dsk EXCEPT ![ctl.sect] = mem[msg.cnt - left + 1]]
                            /\ asked.op = "DEV_WRITE" /\ ctl.sect \in Target(asked)
<1>1. ASSUME NEW req \in NextRequests, rw_sector(req)  PROVE DiskInv' /\ dsk' = dsk
  BY <1>1, AskKeeps DEF rw_sector, ctlVars
<1>2. CASE FSHears
  BY <1>2, FSHearsKeeps DEF FSHears, ctlVars
<1>3. ASSUME NEW u \in Users, UserAsks(u)  PROVE DiskInv' /\ dsk' = dsk
  BY <1>3, UserKeeps DEF UserAsks, ctlVars
<1>4. CASE task_sys
  BY <1>4, SysKeeps DEF task_sys, ctlVars
<1>5. CASE HDTake
  BY <1>5, TakeKeeps DEF HDTake, ctlVars
<1>6. CASE hd_open
  BY <1>6, OpenKeeps DEF hd_open, ctlVars
<1>7. CASE hd_rdwt
  BY <1>7, RdwtKeeps DEF hd_rdwt, ctlVars
<1>8. CASE hd_ioctl
  BY <1>8, IoctlKeeps DEF hd_ioctl, ctlVars
<1>9. CASE get_ticks
  BY <1>9, TicksKeep DEF get_ticks, ctlVars
<1>10. CASE TimesOut \/ NoPartition
  BY <1>10, PanicsKeep DEF TimesOut, NoPartition, diskVars, ctlVars
<1>11. CASE PollsAgain
  BY <1>11, PollsAgainKeeps DEF PollsAgain
<1>12. CASE hd_cmd_out
  BY <1>12, CmdOutKeeps DEF hd_cmd_out
<1>13. CASE port_write
  BY <1>13, PortWriteKeeps DEF port_write
<1>14. CASE interrupt_wait
  BY <1>14, WaitKeeps DEF interrupt_wait, ctlVars
<1>15. CASE hd_identify
  BY <1>15, IdentifyKeeps DEF hd_identify
<1>16. CASE PrimaryTable
  BY <1>16, PrimaryKeeps DEF PrimaryTable
<1>17. CASE ExtendedTable
  BY <1>17, ExtendedKeeps DEF ExtendedTable
<1>18. CASE ReadsSector
  BY <1>18, ReadsKeeps DEF ReadsSector
<1>19. CASE WroteSector
  BY <1>19, WroteKeeps DEF WroteSector, ctlVars
<1>20. CASE HDReplies
  BY <1>20, RepliesKeep DEF HDReplies, ctlVars
<1>21. CASE DiskWorks
  BY <1>21, DiskWorksKeeps DEF DiskWorks
<1>22. CASE hd_handler
  BY <1>22, HandlerKeeps DEF hd_handler
<1>23. CASE TimePasses
  BY <1>23, TimeKeeps DEF TimePasses, ctlVars
<1>24. CASE UNCHANGED allVars
  BY <1>24, StutterKeeps DEF allVars, diskVars, ctlVars
<1>. QED
  BY <1>1, <1>2, <1>3, <1>4, <1>5, <1>6, <1>7, <1>8, <1>9, <1>10, <1>11, <1>12, <1>13, <1>14,
     <1>15, <1>16, <1>17, <1>18, <1>19, <1>20, <1>21, <1>22, <1>23, <1>24
     DEF DiskNext, HDStep

LEMMA DiskInvariant == DiskSpec => []DiskInv
<1>1. DiskInit => DiskInv
  BY InitHolds
<1>2. DiskInv /\ [DiskNext]_allVars => DiskInv'
  BY DiskStep
<1>. QED  BY <1>1, <1>2, PTL DEF DiskSpec

\* The fields have their types, and every disk interrupt is taken by the
\* request that caused it: none is left for task_hd, which would take it for a
\* request.
THEOREM DiskAlwaysSound == DiskSpec => []DiskSound
<1>1. DiskInv => DiskSound
  <2>. SUFFICES ASSUME DiskInv  PROVE DiskSound
    OBVIOUS
  <2>1. DiskTypeOK /\ OneInterrupt
    BY DEF DiskInv, Always
  <2>2. Here(HD, "handle") => buf[HD].source = FS
    <3>1. SUFFICES ASSUME Here(HD, "handle")  PROVE buf[HD].source = FS
      OBVIOUS
    <3>2. HDTaken /\ ~panicked
      BY <3>1, HereRuns DEF HDTaken
    <3>. QED  BY <3>2 DEF DiskInv, OneRequest
  <2>. QED  BY <2>1, <2>2 DEF DiskSound, NoStrayInterrupt, OneInterrupt
<1>. QED  BY <1>1, DiskInvariant, PTL

\* Whenever FS has an answer, its buffer and the sectors of its request agree,
\* whoever asked SYS for something meanwhile and whenever the interrupts came.
THEOREM AlwaysTransferred == DiskSpec => []Transferred
<1>1. DiskInv => Transferred
  <2>. SUFFICES ASSUME DiskInv, Here(FS, "boot")
                PROVE  \A i \in 1..asked.cnt : mem[i] = dsk[FirstData + asked.pos + i - 1]
    BY DEF Transferred
  <2>1. at[FS] = "boot" /\ ~panicked /\ ~Sending(FS) /\ ~Receiving(FS)
    BY HereRuns
  <2>2. OneRequest /\ Transfers
    BY <2>1 DEF DiskInv
  <2>3. HDFree
    BY <2>1, <2>2 DEF OneRequest, FSOut
  <2>4. ~HDWorks /\ ~HDTaken
    BY <2>3 DEF HDFree, HDWorks, HDTaken, Polls
  <2>5. Copied(asked.cnt)
    BY <2>1, <2>2, <2>4 DEF Transfers
  <2>. QED  BY <2>5 DEF Copied
<1>. QED  BY <1>1, DiskInvariant, PTL

\* No step changes a sector that FS has not asked to write.
THEOREM OnlyItsSectorsAlways == DiskSpec => OnlyItsSectors
<1>1. DiskInv /\ [DiskNext]_allVars =>
          [\A s \in FirstData..NrSects : dsk'[s] # dsk[s] =>
              asked.op = "DEV_WRITE" /\ s \in Target(asked)]_allVars
  <2>. SUFFICES ASSUME DiskInv, [DiskNext]_allVars, NEW s \in FirstData..NrSects, dsk'[s] # dsk[s]
                PROVE  asked.op = "DEV_WRITE" /\ s \in Target(asked)
    OBVIOUS
  <2>1. /\ dsk' = [dsk EXCEPT ![ctl.sect] = mem[msg.cnt - left + 1]]
        /\ asked.op = "DEV_WRITE" /\ ctl.sect \in Target(asked)
    BY DiskStep
  <2>2. DOMAIN dsk = FirstData..NrSects
    BY DEF DiskInv, Always, DiskTypeOK
  <2>3. s = ctl.sect
    BY <2>1, <2>2
  <2>. QED  BY <2>1, <2>3
<1>. QED  BY <1>1, DiskInvariant, PTL DEF DiskSpec, OnlyItsSectors

-----------------------------------------------------------------------------
(* The partitions                                                          *)

PartNrs == 1..NR_PART_PER_DRIVE
SubNrs  == 0..NR_SUB_PER_PART - 1

\* How far the scan has come: it is at the table scan.sub of scan.part, and all
\* before that is in hd_info.
ScanAt ==
    /\ PrimaryFound
    /\ Extended(scan.part) /\ TableAt(scan.part, scan.sub) = <<scan.sect>>
    /\ \A j \in PartNrs, k \in SubNrs :
          j < scan.part \/ (j = scan.part /\ k < scan.sub) => LogicalIn(j, k) = LogicalAt(j, k)

\* No entry is wrong at any time: those not come to yet are 0.
PartsInv ==
    /\ \A j \in PartNrs, k \in SubNrs : LogicalIn(j, k) \in {0, LogicalAt(j, k)}
    /\ scan # NoScan => ScanAt
    /\ scan = NoScan /\ BootKnown => PrimaryFound /\ LogicalFound
    /\ PartitionsFound

\* The tables of a chain, in the layout l.
TableNext(l, t, j, i) ==
    IF i = 0 THEN <<l[0][j].start_sect>>
    ELSE IF t[i - 1] = <<>> \/ l[t[i - 1][1]][2].sys_id = "NO_PART" THEN <<>>
    ELSE <<l[0][j].start_sect + l[t[i - 1][1]][2].start_sect>>
Chains(l, t, j, n) == t = [i \in 0..n |-> TableNext(l, t, j, i)]
ChainOf(l, j)      == CHOOSE t : Chains(l, t, j, NR_SUB_PER_PART - 1)

\* There are such tables: each follows from the one before.
LEMMA ChainExists ==
    ASSUME NEW l, NEW j
    PROVE  Chains(l, ChainOf(l, j), j, NR_SUB_PER_PART - 1)
<1> DEFINE Has(n) == \E t : Chains(l, t, j, n)
           last == NR_SUB_PER_PART - 1
           Bad == {n \in 0..last : ~Has(n)}
<1>1. last \in Nat
  BY DiskAssumption
<1>2. Has(0)
  <2> DEFINE t == [i \in 0..0 |-> <<l[0][j].start_sect>>]
  <2>1. \A i \in 0..0 : TableNext(l, t, j, i) = <<l[0][j].start_sect>>
    BY DEF TableNext
  <2>2. Chains(l, t, j, 0)
    BY <2>1 DEF Chains
  <2>. QED  BY <2>2
<1>3. ASSUME NEW n \in 0..last, n # 0, Has(n - 1)  PROVE Has(n)
  <2>1. PICK t : t = [i \in 0..n - 1 |-> TableNext(l, t, j, i)]
    BY <1>3 DEF Chains
  <2> DEFINE new == TableNext(l, t, j, n)
             u   == [i \in 0..n |-> IF i = n THEN new ELSE t[i]]
  <2>2. n \in Nat /\ n - 1 \in 0..n - 1
    BY <1>1, <1>3
  <2>3. \A i \in 0..n : i # 0 => i - 1 \in 0..n /\ i - 1 # n
    BY <2>2
  <2>4. \A i \in 0..n : i # 0 => u[i - 1] = t[i - 1]
    <3>. HIDE DEF new
    <3>. QED  BY <2>3
  <2>. HIDE DEF u
  <2>5. \A i \in 0..n : TableNext(l, u, j, i) = TableNext(l, t, j, i)
    BY <2>4 DEF TableNext
  <2>6. \A i \in 0..n : i # n => i \in 0..n - 1
    BY <2>2
  <2>7. \A i \in 0..n : (IF i = n THEN new ELSE t[i]) = TableNext(l, u, j, i)
    <3>. SUFFICES ASSUME NEW i \in 0..n  PROVE (IF i = n THEN new ELSE t[i]) = TableNext(l, u, j, i)
      OBVIOUS
    <3>1. CASE i = n
      BY <2>5, <3>1
    <3>2. CASE i # n
      <4>1. t[i] = TableNext(l, t, j, i)
        BY <2>1, <2>6, <3>2
      <4>. QED  BY <2>5, <3>2, <4>1
    <3>. QED  BY <3>1, <3>2
  <2>8. u = [i \in 0..n |-> TableNext(l, u, j, i)]
    <3>. HIDE DEF new
    <3>1. u = [i \in 0..n |-> IF i = n THEN new ELSE t[i]]
      BY DEF u
    <3>. QED  BY <2>7, <3>1
  <2>. QED  BY <2>8 DEF Chains
<1>4. Bad = {}
  <2>. SUFFICES ASSUME Bad # {}  PROVE FALSE
    OBVIOUS
  <2>1. Bad \in SUBSET Nat
    OBVIOUS
  <2>2. PICK n \in Bad : \A m \in Bad : n <= m
    <3>. HIDE DEF Bad
    <3>. QED  BY <2>1, LeastExists
  <2>3. n \in 0..last /\ n # 0
    BY <1>2, <2>2
  <2>4. n - 1 \in 0..last /\ ~(n <= n - 1)
    <3>. HIDE DEF last
    <3>. QED  BY <1>1, <2>3
  <2>5. n - 1 \notin Bad
    <3>. HIDE DEF Bad
    <3>. QED  BY <2>2, <2>4
  <2>6. Has(n - 1)
    <3>. HIDE DEF Has
    <3>. QED  BY <2>4, <2>5
  <2>7. Has(n)
    <3>. HIDE DEF Has
    <3>. QED  BY <1>3, <2>3, <2>6
  <2>. QED  BY <2>2, <2>7
<1>5. Has(last)
  <2>1. last \in 0..last
    BY <1>1
  <2>. HIDE DEF Has
  <2>. QED  BY <1>4, <2>1
<1>. QED  BY <1>5 DEF ChainOf

LEMMA TableIs ==
    ASSUME NEW j, NEW k
    PROVE  TableAt(j, k) = ChainOf(layout, j)[k]
BY DEF TableAt, ChainOf, Chains, TableNext, EntryOf

\* Table by table: the first is at the start, and where one has no link there
\* is no other.
LEMMA TablesAre ==
    ASSUME NEW j
    PROVE  /\ TableAt(j, 0) = <<EntryOf(0, j).start_sect>>
           /\ \A k \in SubNrs : k + 1 \in SubNrs =>
                TableAt(j, k + 1) =
                   IF TableAt(j, k) = <<>> \/ EntryOf(TableAt(j, k)[1], 2).sys_id = "NO_PART" THEN <<>>
                   ELSE <<EntryOf(0, j).start_sect + EntryOf(TableAt(j, k)[1], 2).start_sect>>
<1> DEFINE t == ChainOf(layout, j)
<1>1. t = [i \in SubNrs |-> TableNext(layout, t, j, i)]
  BY ChainExists DEF Chains, SubNrs
<1>2. \A k : TableAt(j, k) = t[k]
  BY TableIs
<1>. HIDE DEF t
<1>3. 0 \in SubNrs /\ \A k \in SubNrs : k + 1 # 0 /\ (k + 1) - 1 = k
  BY DiskAssumption DEF SubNrs
<1>4. t[0] = TableNext(layout, t, j, 0) /\ \A k \in SubNrs : k + 1 \in SubNrs => t[k + 1] = TableNext(layout, t, j, k + 1)
  BY <1>1, <1>3
<1>. QED  BY <1>2, <1>3, <1>4 DEF TableNext, EntryOf

LEMMA ChainEnds ==
    ASSUME NEW j, NEW k \in SubNrs, TableAt(j, k) = <<>>, NEW n \in SubNrs, n >= k
    PROVE  TableAt(j, n) = <<>>
<1> DEFINE Bad == {m \in SubNrs : m >= k /\ TableAt(j, m) # <<>>}
<1>. SUFFICES ASSUME Bad # {}  PROVE FALSE
  OBVIOUS
<1>1. Bad \in SUBSET Nat
  BY DiskAssumption DEF SubNrs
<1>2. PICK m \in Bad : \A y \in Bad : m <= y
  <2>. HIDE DEF Bad
  <2>. QED  BY <1>1, LeastExists
<1>3. m \in SubNrs /\ m >= k /\ m # k /\ TableAt(j, m) # <<>>
  BY <1>2
<1>4. m - 1 \in SubNrs /\ m - 1 >= k /\ (m - 1) + 1 = m /\ ~(m <= m - 1)
  BY <1>3, DiskAssumption DEF SubNrs
<1>5. m - 1 \notin Bad
  <2>. HIDE DEF Bad
  <2>. QED  BY <1>2, <1>4
<1>6. TableAt(j, m - 1) = <<>>
  BY <1>4, <1>5
<1>7. TableAt(j, (m - 1) + 1) = <<>>
  BY <1>3, <1>4, <1>6, TablesAre
<1>. QED  BY <1>3, <1>4, <1>7

\* Nothing on the disk moves.
LEMMA LayoutStays ==
    ASSUME layout' = layout
    PROVE  \A j, k : /\ (Extended(j)' <=> Extended(j)) /\ TableAt(j, k)' = TableAt(j, k)
                     /\ LogicalAt(j, k)' = LogicalAt(j, k)
                     /\ EntryOf(j, k)' = EntryOf(j, k)
<1>1. \A j, k : TableAt(j, k)' = ChainOf(layout', j)[k]
  BY DEF TableAt, ChainOf, Chains, TableNext, EntryOf
<1>2. \A j, k : TableAt(j, k)' = TableAt(j, k)
  BY <1>1, TableIs
<1>. QED  BY <1>2 DEF LogicalAt, Extended, EntryOf

\* Two logical partitions do not share an entry of hd_info.
LEMMA EntriesDiffer ==
    ASSUME NEW n \in Nat \ {0}, NEW i \in Nat, NEW j \in Nat, NEW k \in 0..n - 1, NEW m \in 0..n - 1,
           i * n + k = j * n + m
    PROVE  i = j /\ k = m
<1>1. ASSUME NEW a \in Nat, NEW b \in Nat, NEW x \in 0..n - 1, NEW y \in 0..n - 1,
             a * n + x = b * n + y, a < b
      PROVE  FALSE
  <2>1. PICK d \in Nat : b = a + 1 + d
    <3>1. b - a - 1 \in Nat /\ b = a + 1 + (b - a - 1)
      BY <1>1
    <3>. QED  BY <3>1
  <2>2. b * n = a * n + n + d * n /\ d * n \in Nat /\ a * n \in Nat
    BY <2>1
  <2>. QED  BY <1>1, <2>2
<1>2. ~(i < j) /\ ~(j < i)
  BY <1>1
<1>3. i = j
  BY <1>2
<1>4. i * n \in Nat
  OBVIOUS
<1>. QED  BY <1>3, <1>4

LEMMA Entries ==
    ASSUME NEW j \in PartNrs, NEW k \in SubNrs
    PROVE  /\ (j - 1) * NR_SUB_PER_PART + k \in 0..NrSubs - 1
           /\ \A i \in PartNrs, m \in SubNrs :
                 (i - 1) * NR_SUB_PER_PART + m = (j - 1) * NR_SUB_PER_PART + k => i = j /\ m = k
<1>1. NR_PART_PER_DRIVE \in Nat /\ NR_SUB_PER_PART \in Nat \ {0} /\ j - 1 \in Nat
  BY DiskAssumption DEF PartNrs
<1>2. (j - 1) * NR_SUB_PER_PART + k \in 0..NrSubs - 1
  <2>1. PICK d \in Nat : NR_PART_PER_DRIVE = (j - 1) + 1 + d
    <3>1. NR_PART_PER_DRIVE - j \in Nat /\ NR_PART_PER_DRIVE = (j - 1) + 1 + (NR_PART_PER_DRIVE - j)
      BY <1>1 DEF PartNrs
    <3>. QED  BY <3>1
  <2>2. PICK n \in Nat : n = NR_SUB_PER_PART
    BY <1>1
  <2>3. PICK i \in Nat : i = j - 1
    BY <1>1
  <2>4. NrSubs = i * n + n + d * n /\ d * n \in Nat /\ i * n \in Nat
    BY <2>1, <2>2, <2>3 DEF NrSubs
  <2>5. k \in 0..n - 1
    BY <2>2 DEF SubNrs
  <2>. QED  BY <2>2, <2>3, <2>4, <2>5
<1>3. ASSUME NEW i \in PartNrs, NEW m \in SubNrs,
             (i - 1) * NR_SUB_PER_PART + m = (j - 1) * NR_SUB_PER_PART + k
      PROVE  i = j /\ m = k
  <2>1. i - 1 \in Nat /\ i \in Nat /\ j \in Nat
    BY <1>1 DEF PartNrs
  <2>2. i - 1 = j - 1 /\ m = k
    BY <1>1, <1>3, <2>1, EntriesDiffer DEF SubNrs
  <2>. QED  BY <2>1, <2>2
<1>. QED  BY <1>2, <1>3

\* What the scan has found stays found.
LEMMA FoundStays ==
    ASSUME PartsInv, UNCHANGED <<scan, hd_info, layout>>, asked' = asked
    PROVE  PartsInv'
<1>1. \A j, k : /\ (Extended(j)' <=> Extended(j)) /\ TableAt(j, k)' = TableAt(j, k)
                /\ LogicalAt(j, k)' = LogicalAt(j, k) /\ EntryOf(j, k)' = EntryOf(j, k)
  BY LayoutStays
<1>2. \A j, k : LogicalIn(j, k)' = LogicalIn(j, k)
  BY DEF LogicalIn
<1>3. (PrimaryFound' <=> PrimaryFound) /\ (LogicalFound' <=> LogicalFound) /\ (BootKnown' <=> BootKnown)
  BY <1>1, <1>2 DEF PrimaryFound, LogicalFound, BootKnown
<1>4. ScanAt' <=> ScanAt
  BY <1>1, <1>2, <1>3 DEF ScanAt
<1>5. PartitionsFound' <=> PartitionsFound
  BY <1>3 DEF PartitionsFound
<1>. QED  BY <1>1, <1>2, <1>3, <1>4, <1>5 DEF PartsInv

\* FS does not ask for anything else before its partitions are found.
LEMMA AsksFound ==
    ASSUME DiskInv, PartsInv, NEW req \in NextRequests, rw_sector(req)
    PROVE  PartsInv'
<1>1. at[FS] = "boot" /\ ~panicked /\ ~Sending(FS) /\ ~Receiving(FS)
  BY HereRuns DEF rw_sector
<1>2. OneRequest /\ ScanKnows
  BY <1>1 DEF DiskInv
<1>3. ~HDWorks /\ ~HDTaken /\ ~Opening
  BY <1>1, <1>2 DEF FSOut, OneRequest, HDFree, HDTaken, HDWorks, Polls, Opening
<1>4. scan = NoScan /\ (BootKnown \/ asked.op = "none")
  BY <1>2, <1>3 DEF ScanKnows
<1>5. asked' = req /\ UNCHANGED <<scan, hd_info, layout>>
  BY DEF rw_sector, jobVars, ctlVars
<1>6. asked.op = "none" => req.op = "DEV_OPEN"
  BY DEF NextRequests, NoReq
<1>7. BootKnown => PrimaryFound /\ LogicalFound
  BY <1>4 DEF PartsInv
<1>8. \A j, k : /\ LogicalAt(j, k)' = LogicalAt(j, k) /\ EntryOf(j, k)' = EntryOf(j, k)
  BY <1>5, LayoutStays
<1>9. \A j, k : LogicalIn(j, k)' = LogicalIn(j, k)
  BY <1>5 DEF LogicalIn
<1>10. (PrimaryFound' <=> PrimaryFound) /\ (LogicalFound' <=> LogicalFound) /\ (BootKnown' <=> BootKnown)
  BY <1>5, <1>8, <1>9 DEF PrimaryFound, LogicalFound, BootKnown
<1>11. PartitionsFound'
  BY <1>4, <1>5, <1>6, <1>7, <1>10 DEF PartitionsFound
<1>. QED  BY <1>4, <1>5, <1>7, <1>8, <1>9, <1>10, <1>11 DEF PartsInv

\* hd_identify changes what no property is about.
LEMMA IdentifyFound ==
    ASSUME DiskInv, PartsInv, hd_identify
    PROVE  PartsInv'
<1>1. Here(HD, "data") /\ cmd.op = "IDENTIFY" /\ HDWorks /\ at[HD] = "data" /\ ScanKnows /\ Transfers
      /\ msg = asked
  BY HDAt DEF hd_identify
<1>2. asked.op = "DEV_OPEN" /\ scan = NoScan /\ InfoIs
  BY <1>1 DEF ScanKnows, Transfers
<1>3. /\ asked' = asked /\ scan' = scan /\ layout' = layout
      /\ hd_info' = [hd_info EXCEPT !.primary[0] = 0, !.open_cnt = @ + 1]
  BY DEF hd_identify, fsVars
<1>4. hd_info'.logical = hd_info.logical /\ \A j \in PartNrs : hd_info'.primary[j] = hd_info.primary[j]
  <2>1. hd_info'.logical = hd_info.logical /\ hd_info'.primary = [hd_info.primary EXCEPT ![0] = 0]
    BY <1>2, <1>3 DEF InfoIs
  <2>2. hd_info.primary = [j \in 0..NR_PART_PER_DRIVE |-> hd_info.primary[j]]
    BY <1>2 DEF InfoIs
  <2>3. \A j \in PartNrs : j # 0 /\ j \in 0..NR_PART_PER_DRIVE
    BY DiskAssumption DEF PartNrs
  <2>. QED  BY <2>1, <2>2, <2>3
<1>5. \A j, k : /\ LogicalAt(j, k)' = LogicalAt(j, k) /\ EntryOf(j, k)' = EntryOf(j, k)
  BY <1>3, LayoutStays
<1>6. \A j, k : LogicalIn(j, k)' = LogicalIn(j, k)
  BY <1>4 DEF LogicalIn
<1>7. (PrimaryFound' <=> PrimaryFound) /\ (LogicalFound' <=> LogicalFound) /\ (BootKnown' <=> BootKnown)
  BY <1>4, <1>5, <1>6 DEF PrimaryFound, LogicalFound, BootKnown, PartNrs
<1>. QED  BY <1>2, <1>3, <1>5, <1>6, <1>7 DEF PartsInv, PartitionsFound

\* The first table gives the primary partitions, and the scan goes to the first
\* extended one.
LEMMA PrimariesFound ==
    ASSUME DiskInv, PartsInv, PrimaryTable
    PROVE  PartsInv'
<1>. DEFINE used    == {j \in 1..NR_PART_PER_DRIVE : EntryOf(0, j).sys_id # "NO_PART"}
            primary == [j \in 0..NR_PART_PER_DRIVE |->
                           IF j \in used THEN EntryOf(0, j).start_sect ELSE hd_info.primary[j]]
<1>0. PICK k : k = Min(ExtAfter(0))
  OBVIOUS
<1>1. Here(HD, "data") /\ msg.op = "DEV_OPEN" /\ used # {} /\ msg = asked
      /\ ScanKnows /\ Transfers
  BY HDAt DEF PrimaryTable
<1>2. InfoIs /\ layout \in Layouts
  BY <1>1 DEF ScanKnows, Transfers
<1>3. PICK j \in 1..NR_PART_PER_DRIVE : EntryOf(0, j).sys_id # "NO_PART"
  BY <1>1
<1>4. Extended(BootPart) /\ BootPart \in 1..NR_PART_PER_DRIVE
  BY <1>2, <1>3, BootFound
<1>5. ExtAfter(0) # {} /\ NR_PART_PER_DRIVE \in Nat /\ 0 \in 0..NR_PART_PER_DRIVE
  BY <1>4, DiskAssumption DEF ExtAfter
<1>6. k \in 1..NR_PART_PER_DRIVE /\ Extended(k) /\ \A i \in ExtAfter(0) : k <= i
  BY <1>0, <1>5, NextPart
<1>7. /\ layout' = layout /\ asked' = asked
      /\ hd_info' = [hd_info EXCEPT !.primary = primary]
      /\ scan' = [part |-> k, sub |-> 0, sect |-> primary[k]]
  BY <1>0, <1>5 DEF PrimaryTable, NextExtended, fsVars
<1>8. hd_info'.primary = primary /\ hd_info'.logical = hd_info.logical
  BY <1>2, <1>7 DEF InfoIs
<1>9. /\ \A i \in 1..NR_PART_PER_DRIVE : EntryOf(0, i).sys_id # "NO_PART" => primary[i] = EntryOf(0, i).start_sect
      /\ primary[k] = EntryOf(0, k).start_sect
  BY <1>5, <1>6 DEF Extended
<1>. HIDE DEF primary, used
<1>10. \A i, m : /\ (Extended(i)' <=> Extended(i)) /\ TableAt(i, m)' = TableAt(i, m)
                 /\ LogicalAt(i, m)' = LogicalAt(i, m) /\ EntryOf(i, m)' = EntryOf(i, m)
  BY <1>7, LayoutStays
<1>11. \A i, m : LogicalIn(i, m)' = LogicalIn(i, m)
  BY <1>8 DEF LogicalIn
<1>12. PrimaryFound'
  BY <1>8, <1>9, <1>10 DEF PrimaryFound
<1>13. scan'.part = k /\ scan'.sub = 0 /\ scan'.sect = EntryOf(0, k).start_sect /\ scan' # NoScan
  BY <1>6, <1>7, <1>9 DEF NoScan
<1>14. Extended(k)' /\ TableAt(k, 0)' = <<scan'.sect>>
  BY <1>6, <1>10, <1>13, TablesAre
<1>15. ASSUME NEW i \in PartNrs, NEW m \in SubNrs, i < k \/ (i = k /\ m < 0)
       PROVE  LogicalIn(i, m) = LogicalAt(i, m)
  <2>1. i < k
    BY <1>15, DiskAssumption DEF SubNrs
  <2>2. ~Extended(i)
    <3>. SUFFICES ASSUME Extended(i)  PROVE FALSE
      OBVIOUS
    <3>1. i \in ExtAfter(0)
      BY <1>5 DEF ExtAfter, PartNrs
    <3>. QED  BY <1>5, <1>6, <2>1, <3>1 DEF PartNrs
  <2>3. LogicalAt(i, m) = 0
    BY <2>2 DEF LogicalAt
  <2>. QED  BY <2>3 DEF PartsInv
<1>16. ScanAt'
  BY <1>10, <1>11, <1>12, <1>13, <1>14, <1>15 DEF ScanAt
<1>17. PartitionsFound'
  BY <1>1, <1>7 DEF PartitionsFound
<1>. QED  BY <1>10, <1>11, <1>13, <1>16, <1>17 DEF PartsInv

\* One more table of a chain: its partition is the one the chain has there, and
\* where the chain ends the scan goes to the next extended partition.
LEMMA LogicalsFound ==
    ASSUME DiskInv, PartsInv, ExtendedTable
    PROVE  PartsInv'
<1>. DEFINE value  == scan.sect + EntryOf(scan.sect, 1).start_sect
            ends   == EntryOf(scan.sect, 2).sys_id = "NO_PART" \/ scan.sub + 1 = NR_SUB_PER_PART
            none   == ExtAfter(scan.part) = {}
<1>0. PICK part, sub, k : part = scan.part /\ sub = scan.sub /\ k = Min(ExtAfter(scan.part))
  OBVIOUS
<1>1. Here(HD, "data") /\ msg.op = "DEV_OPEN" /\ scan # NoScan
      /\ ScanKnows /\ Transfers /\ msg = asked
  BY HDAt DEF ExtendedTable
<1>2. InfoIs /\ layout \in Layouts /\ Opening
  BY <1>1 DEF ScanKnows, Transfers
<1>3. /\ scan = [part |-> scan.part, sub |-> scan.sub, sect |-> scan.sect]
      /\ part \in PartNrs /\ sub \in SubNrs
      /\ \A j \in 1..NR_PART_PER_DRIVE :
            Extended(j) => hd_info.primary[j] = EntryOf(0, j).start_sect
  BY <1>0, <1>1, <1>2 DEF ScanKnows, PartNrs, SubNrs
<1>4. /\ PrimaryFound /\ Extended(part) /\ TableAt(part, sub) = <<scan.sect>>
      /\ \A j \in PartNrs, m \in SubNrs :
            j < part \/ (j = part /\ m < sub) => LogicalIn(j, m) = LogicalAt(j, m)
  BY <1>0, <1>1 DEF PartsInv, ScanAt
<1>5. /\ layout' = layout /\ asked' = asked
      /\ hd_info' = [hd_info EXCEPT !.logical[(part - 1) * NR_SUB_PER_PART + sub] = value]
      /\ ends => NextExtended(part, hd_info.primary)
      /\ ~ends => scan' = [scan EXCEPT !.sub = @ + 1, !.sect = NextTable]
  BY <1>0 DEF ExtendedTable, fsVars
<1>6. /\ ends /\ none => scan' = NoScan
      /\ ends /\ ~none => scan' = [part |-> k, sub |-> 0, sect |-> hd_info.primary[k]]
      /\ ~ends => scan' = [part |-> part, sub |-> sub + 1, sect |-> NextTable]
  BY <1>0, <1>3, <1>5 DEF NextExtended
<1>7. /\ hd_info'.primary = hd_info.primary
      /\ hd_info'.logical = [hd_info.logical EXCEPT ![(part - 1) * NR_SUB_PER_PART + sub] = value]
  BY <1>2, <1>5 DEF InfoIs
<1>8. value = LogicalAt(part, sub)
  BY <1>4 DEF LogicalAt
<1>9. ends => \A m \in SubNrs : m > sub => LogicalAt(part, m) = 0
  <2>. SUFFICES ASSUME ends, NEW m \in SubNrs, m > sub  PROVE LogicalAt(part, m) = 0
    OBVIOUS
  <2>1. NR_SUB_PER_PART \in Nat \ {0} /\ sub + 1 \in SubNrs /\ m >= sub + 1
    BY <1>3, DiskAssumption DEF SubNrs
  <2>2. EntryOf(scan.sect, 2).sys_id = "NO_PART"
    BY <1>0, <1>3, <2>1 DEF SubNrs
  <2>3. TableAt(part, sub + 1) = <<>>
    <3>1. TableAt(part, sub + 1) =
             IF TableAt(part, sub) = <<>> \/ EntryOf(TableAt(part, sub)[1], 2).sys_id = "NO_PART" THEN <<>>
             ELSE <<EntryOf(0, part).start_sect + EntryOf(TableAt(part, sub)[1], 2).start_sect>>
      BY <1>3, <2>1, TablesAre
    <3>2. TableAt(part, sub)[1] = scan.sect
      BY <1>4
    <3>. QED  BY <2>2, <3>1, <3>2
  <2>4. TableAt(part, m) = <<>>
    BY <2>1, <2>3, ChainEnds
  <2>. QED  BY <2>4 DEF LogicalAt
<1>10. ~ends => TableAt(part, sub + 1) = <<NextTable>> /\ sub + 1 \in SubNrs
  <2>. SUFFICES ASSUME ~ends  PROVE TableAt(part, sub + 1) = <<NextTable>> /\ sub + 1 \in SubNrs
    OBVIOUS
  <2>1. sub + 1 \in SubNrs
    BY <1>0, <1>3, DiskAssumption DEF SubNrs
  <2>2. <<scan.sect>> # <<>> /\ <<scan.sect>>[1] = scan.sect
    OBVIOUS
  <2>3. TableAt(part, sub + 1) = <<EntryOf(0, part).start_sect + EntryOf(scan.sect, 2).start_sect>>
    <3>1. TableAt(part, sub + 1) =
             IF TableAt(part, sub) = <<>> \/ EntryOf(TableAt(part, sub)[1], 2).sys_id = "NO_PART" THEN <<>>
             ELSE <<EntryOf(0, part).start_sect + EntryOf(TableAt(part, sub)[1], 2).start_sect>>
      BY <1>3, <2>1, TablesAre
    <3>2. TableAt(part, sub)[1] = scan.sect /\ TableAt(part, sub) # <<>>
      BY <1>4, <2>2
    <3>. QED  BY <3>1, <3>2
  <2>4. hd_info.primary[part] = EntryOf(0, part).start_sect
    BY <1>3, <1>4 DEF PartNrs
  <2>. QED  BY <1>0, <2>1, <2>3, <2>4 DEF NextTable
<1>11. \A j, m : /\ (Extended(j)' <=> Extended(j)) /\ TableAt(j, m)' = TableAt(j, m)
                 /\ LogicalAt(j, m)' = LogicalAt(j, m) /\ EntryOf(j, m)' = EntryOf(j, m)
  BY <1>5, LayoutStays
<1>12. \A j \in PartNrs, m \in SubNrs :
          LogicalIn(j, m)' = IF j = part /\ m = sub THEN LogicalAt(part, sub) ELSE LogicalIn(j, m)
  <2>1. PICK v, n : v = LogicalAt(part, sub) /\ n = (part - 1) * NR_SUB_PER_PART + sub
    OBVIOUS
  <2>2. hd_info'.logical = [hd_info.logical EXCEPT ![n] = v]
    BY <1>7, <1>8, <2>1
  <2>3. \A j \in PartNrs, m \in SubNrs :
           LogicalIn(j, m)' = IF j = part /\ m = sub THEN v ELSE LogicalIn(j, m)
    <3> DEFINE nr(i, m) == (i - 1) * NR_SUB_PER_PART + m
    <3>1. hd_info.logical = [e \in 0..NrSubs - 1 |-> hd_info.logical[e]]
      BY <1>2 DEF InfoIs
    <3>2. \A i \in PartNrs, m \in SubNrs : nr(i, m) \in 0..NrSubs - 1
      BY Entries
    <3>3. \A i \in PartNrs, m \in SubNrs : nr(i, m) = nr(part, sub) => i = part /\ m = sub
      BY <1>3, Entries
    <3>4. \A i \in PartNrs, m \in SubNrs : LogicalIn(i, m)' = hd_info'.logical[nr(i, m)]
                                           /\ LogicalIn(i, m) = hd_info.logical[nr(i, m)]
      BY DEF LogicalIn
    <3>5. n = nr(part, sub)
      BY <2>1
    <3>. HIDE DEF nr
    <3>. QED  BY <2>2, <3>1, <3>2, <3>3, <3>4, <3>5
  <2>. QED  BY <2>1, <2>3
<1>13. /\ \A j \in PartNrs, m \in SubNrs : LogicalIn(j, m)' \in {0, LogicalAt(j, m)}
       /\ \A j \in PartNrs, m \in SubNrs :
             j < part \/ (j = part /\ m <= sub) => LogicalIn(j, m)' = LogicalAt(j, m)
  <2>1. \A j \in PartNrs, m \in SubNrs : j \in Nat /\ m \in Nat
    BY DiskAssumption DEF PartNrs, SubNrs
  <2>2. \A j \in PartNrs, m \in SubNrs : LogicalIn(j, m) \in {0, LogicalAt(j, m)}
    BY DEF PartsInv
  <2>. QED  BY <1>3, <1>4, <1>12, <2>1, <2>2
<1>14. PrimaryFound'
  BY <1>4, <1>7, <1>11 DEF PrimaryFound
<1>15. ends => \A m \in SubNrs : LogicalIn(part, m)' = LogicalAt(part, m)
  <2>1. \A m \in SubNrs : m <= sub \/ m > sub
    BY <1>3, DiskAssumption DEF SubNrs
  <2>. QED  BY <1>3, <1>9, <1>13, <2>1
<1>16. \A j \in PartNrs, m \in SubNrs : ~Extended(j) => LogicalIn(j, m)' = LogicalAt(j, m)
  BY <1>13 DEF LogicalAt
<1>17. CASE ends /\ none
  <2>1. scan' = NoScan
    BY <1>6, <1>17
  <2>2. \A j \in PartNrs : j < part \/ j = part \/ ~Extended(j)
    BY <1>0, <1>3, <1>17, DiskAssumption DEF ExtAfter, PartNrs
  <2>3. \A j \in PartNrs, m \in SubNrs : LogicalIn(j, m)' = LogicalAt(j, m)
    BY <1>13, <1>15, <1>16, <1>17, <2>2
  <2>4. LogicalFound'
    BY <1>11, <2>3 DEF LogicalFound, PartNrs, SubNrs
  <2>. QED  BY <1>1, <1>5, <1>11, <1>13, <1>14, <2>1, <2>4 DEF PartsInv, PartitionsFound
<1>18. CASE ends /\ ~none
  <2>1. part \in 0..NR_PART_PER_DRIVE
    BY <1>3, DiskAssumption DEF PartNrs
  <2>2. /\ k \in PartNrs /\ k > part /\ Extended(k) /\ \A i \in ExtAfter(part) : k <= i
    BY <1>0, <1>18, <2>1, NextPart DEF PartNrs
  <2>3. /\ scan'.part = k /\ scan'.sub = 0 /\ scan'.sect = hd_info.primary[k]
    BY <1>6, <1>18
  <2>4. hd_info.primary[k] = EntryOf(0, k).start_sect
    BY <1>3, <2>2 DEF PartNrs
  <2>5. scan' # NoScan
    BY <1>3, <2>2, <2>3, DiskAssumption DEF NoScan, PartNrs
  <2>6. Extended(k)' /\ TableAt(k, 0)' = <<scan'.sect>>
    BY <1>11, <2>2, <2>3, <2>4, TablesAre
  <2>7. \A j \in PartNrs : j < k => j < part \/ j = part \/ ~Extended(j)
    <3>. SUFFICES ASSUME NEW j \in PartNrs, j < k, j > part, Extended(j)  PROVE FALSE
      BY <1>3, DiskAssumption DEF PartNrs
    <3>1. j \in ExtAfter(part)
      BY <1>3, DiskAssumption DEF ExtAfter, PartNrs
    <3>2. k <= j
      BY <2>2, <3>1
    <3>. QED  BY <2>2, <3>2, DiskAssumption DEF PartNrs
  <2>8. \A m \in SubNrs : ~(m < 0)
    BY DiskAssumption DEF SubNrs
  <2>9. \A j \in PartNrs, m \in SubNrs : j < k \/ (j = k /\ m < 0) => LogicalIn(j, m)' = LogicalAt(j, m)
    BY <1>13, <1>15, <1>16, <1>18, <2>7, <2>8
  <2>10. ScanAt'
    BY <1>11, <1>14, <2>3, <2>6, <2>9 DEF ScanAt
  <2>. QED  BY <1>1, <1>5, <1>11, <1>13, <2>5, <2>10 DEF PartsInv, PartitionsFound
<1>19. CASE ~ends
  <2>1. scan'.part = part /\ scan'.sub = sub + 1 /\ scan'.sect = NextTable
    BY <1>6, <1>19
  <2>2. scan' # NoScan
    BY <1>3, <2>1, DiskAssumption DEF NoScan, PartNrs
  <2>3. Extended(part)' /\ TableAt(part, sub + 1)' = <<scan'.sect>>
    BY <1>4, <1>10, <1>11, <1>19, <2>1
  <2>4. \A m \in SubNrs : m < sub + 1 => m <= sub
    BY <1>3, DiskAssumption DEF SubNrs
  <2>5. \A j \in PartNrs, m \in SubNrs :
           j < part \/ (j = part /\ m < sub + 1) => LogicalIn(j, m)' = LogicalAt(j, m)
    BY <1>13, <2>4
  <2>6. ScanAt'
    BY <1>11, <1>14, <2>1, <2>3, <2>5 DEF ScanAt
  <2>. QED  BY <1>1, <1>5, <1>11, <1>13, <2>2, <2>6 DEF PartsInv, PartitionsFound
<1>. QED  BY <1>17, <1>18, <1>19

\* At boot nothing is found, and nothing wrong.
LEMMA PartsInitial == DiskInit => PartsInv
<1>. SUFFICES ASSUME DiskInit  PROVE PartsInv
  OBVIOUS
<1>1. /\ asked.op = "none" /\ scan = NoScan
      /\ hd_info.logical = [k \in 0..NrSubs - 1 |-> 0]
  BY DEF DiskInit, NoReq
<1>2. \A j \in PartNrs, k \in SubNrs : LogicalIn(j, k) = 0
  BY <1>1, Entries DEF LogicalIn
<1>3. ~BootKnown
  BY <1>1, BootIsEntry, DiskAssumption DEF BootKnown
<1>. QED  BY <1>1, <1>2, <1>3 DEF PartsInv, PartitionsFound

LEMMA PartsStep ==
    ASSUME DiskInv, PartsInv, [DiskNext]_allVars
    PROVE  PartsInv'
<1>1. ASSUME NEW req \in NextRequests, rw_sector(req)  PROVE PartsInv'
  BY <1>1, AsksFound
<1>2. CASE hd_identify
  BY <1>2, IdentifyFound
<1>3. CASE PrimaryTable
  BY <1>3, PrimariesFound
<1>4. CASE ExtendedTable
  BY <1>4, LogicalsFound
<1>5. ASSUME NEW u \in Users, UserAsks(u)  PROVE UNCHANGED <<scan, hd_info, layout, asked>>
  BY <1>5 DEF UserAsks, fsVars, jobVars, ctlVars
<1>6. CASE \/ FSHears \/ task_sys \/ get_ticks \/ HDTake \/ interrupt_wait
  <2>1. UNCHANGED <<scan, hd_info, layout, asked>>
    BY <1>6 DEF FSHears, task_sys, get_ticks, HDTake, interrupt_wait, fsVars, jobVars, ctlVars
  <2>. QED  BY <2>1, FoundStays
<1>7. CASE \/ hd_open \/ hd_rdwt \/ hd_ioctl \/ ReadsSector \/ WroteSector \/ HDReplies
  <2>1. UNCHANGED <<scan, hd_info, layout, asked>>
    BY <1>7 DEF hd_open, hd_rdwt, hd_ioctl, ReadsSector, WroteSector, HDReplies, fsVars, ctlVars
  <2>. QED  BY <2>1, FoundStays
<1>8. CASE \/ TimesOut \/ NoPartition \/ PollsAgain \/ hd_cmd_out \/ port_write
           \/ DiskWorks \/ hd_handler \/ TimePasses \/ UNCHANGED allVars
  <2>1. UNCHANGED <<scan, hd_info, layout, asked>>
    BY <1>8 DEF TimesOut, NoPartition, PollsAgain, hd_cmd_out, port_write, DiskWorks, hd_handler,
                TimePasses, allVars, diskVars, fsVars, jobVars, ctlVars
  <2>. QED  BY <2>1, FoundStays
<1>. QED  BY <1>1, <1>2, <1>3, <1>4, <1>5, <1>6, <1>7, <1>8, FoundStays DEF DiskNext, HDStep

\* Once FS has opened the disk, every partition of every chain of boot records is
\* in hd_info, whatever the tables are and however often HD was interrupted.
THEOREM PartitionsAlwaysFound == DiskSpec => []PartitionsFound
<1>1. DiskInit => DiskInv /\ PartsInv
  BY InitHolds, PartsInitial
<1>2. DiskInv /\ PartsInv /\ [DiskNext]_allVars => DiskInv' /\ PartsInv'
  BY DiskStep, PartsStep
<1>3. PartsInv => PartitionsFound
  BY DEF PartsInv
<1>. QED  BY <1>1, <1>2, <1>3, PTL DEF DiskSpec
=============================================================================
