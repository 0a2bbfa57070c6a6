-------------------------------- MODULE Disk ---------------------------------
(***************************************************************************)
(* The disk driver (kernel/hd.c): requests of FS, the commands they become *)
(* and the interrupts that answer these, on top of the kernel calls of     *)
(* Ipc.                                                                    *)
(*                                                                         *)
(* Before a command, and before each sector that is written, HD polls the  *)
(* controller and reads the clock: it asks SYS, which serves programs too, *)
(* while disk interrupts come in.  The controller, which is not in the     *)
(* repository, does what the registers in hd.h document.  FS opens the     *)
(* disk at boot, asks for the size of its partition, and then has one      *)
(* request under way at a time (rw_sector).                                *)
(***************************************************************************)
EXTENDS Ipc, Integers, Functions

CONSTANTS
    FS, HD, SYS, Users,   \* Users ask SYS for their pid
    NR_PART_PER_DRIVE, NR_SUB_PER_PART, MAX_PRIM, MINOR_hd1a,
    MINOR_BOOT,           \* the device that FS uses
    Layouts,              \* partition tables: sector -> entries
    NrSects,              \* sectors of the disk
    FirstData,            \* the sectors from here on are in no table
    MaxCount,             \* the count register of the controller holds less
    Requests,             \* [op, pos, cnt] of FS, in sectors
    GARBAGE               \* what the data port yields out of turn

VARIABLES
    at,       \* where each process is
    asked,    \* the request FS made last
    mem,      \* the buffer of that request
    msg,      \* the request HD works on
    cmd,      \* the command it is about to write to the controller
    want,     \* the status bit it polls
    late,     \* HD_TIMEOUT has passed since it began to poll
    left,     \* bytes_left, in sectors
    scan,     \* the partition table being read: [part, sub, sect]
    hd_info,  \* base sectors: primary and logical partitions, open_cnt
    ctl,      \* the controller: state, operation, next sector, sectors left
    intrq,    \* its interrupt line
    dsk,      \* the data sectors
    layout    \* the partition tables on the disk

fsVars   == <<asked, mem>>
jobVars  == <<msg, left, scan, hd_info>>
pollVars == <<cmd, want, late>>
ctlVars  == <<ctl, intrq, dsk, layout>>
diskVars == <<at, fsVars, jobVars, pollVars, ctlVars>>
allVars  == <<vars, diskVars>>

Body(t, req)    == [type |-> t, req |-> req]
NoReq           == [op |-> "none", pos |-> 0, cnt |-> 0]
Command(op, s, n) == [op |-> op, sect |-> s, count |-> n % MaxCount]
Controller(st, op, s, n) == [st |-> st, op |-> op, sect |-> s, left |-> n]

NrSubs    == NR_PART_PER_DRIVE * NR_SUB_PER_PART
NoScan    == [part |-> 0, sub |-> 0, sect |-> 0]
EntryOf(s, i) == layout[s][i]
Extended(j)   == EntryOf(0, j).sys_id = "EXT_PART"

\* What FS may ask HD, and what HD works on when nobody does.
Asked == Requests \cup {[NoReq EXCEPT !.op = o] : o \in {"none", "DEV_OPEN", "DEV_IOCTL"}}

\* Where hd_info keeps FS's partition, and the primary partition it is in.
BootIndex == (MINOR_BOOT - MINOR_hd1a) % NrSubs
BootPart  == BootIndex \div NR_SUB_PER_PART + 1

ASSUME DiskAssumption ==
    /\ {FS, HD, SYS} \cup Users \subseteq Native
    /\ FS # HD /\ FS # SYS /\ HD # SYS /\ {FS, HD, SYS} \cap Users = {}
    /\ HD \in IntTasks
    /\ {NR_PART_PER_DRIVE, NR_SUB_PER_PART, MaxCount} \subseteq Nat \ {0}
    /\ FirstData \in Nat \ {0} /\ NrSects \in Nat
    /\ {Body(r.op, r) : r \in Asked \ {NoReq}} \subseteq Bodies
    /\ {Body("GET_PID", NoReq), Body("GET_TICKS", NoReq)} \subseteq Bodies

\* FS asks for sectors of its partition.
ASSUME RequestsAssumption ==
    /\ Requests \subseteq [op : {"DEV_READ", "DEV_WRITE"}, pos : Nat, cnt : Nat \ {0}]
    /\ \A req \in Requests : FirstData + req.pos + req.cnt - 1 <= NrSects

\* MINOR_BOOT is MINOR_hd2a: FS's partition is the first logical one of an
\* extended partition.  The data begins there, on every disk with partitions.
ASSUME LayoutAssumption ==
    /\ {MAX_PRIM, MINOR_hd1a, MINOR_BOOT} \subseteq Nat /\ MINOR_BOOT >= MAX_PRIM
    /\ BootPart \in 1..NR_PART_PER_DRIVE /\ BootIndex = (BootPart - 1) * NR_SUB_PER_PART
    /\ \A l \in Layouts :
          (\E j \in 1..NR_PART_PER_DRIVE : l[0][j].sys_id # "NO_PART") =>
              LET start == l[0][BootPart].start_sect
              IN  /\ l[0][BootPart].sys_id = "EXT_PART"
                  /\ start + l[start][1].start_sect = FirstData

DiskInit ==
    /\ Init
    /\ at = [p \in Native |-> CASE p = FS -> "boot"
                                [] p \in {HD, SYS} -> "loop"
                                [] OTHER -> "run"]
    /\ asked = NoReq
    /\ mem = <<>>
    /\ msg = NoReq
    /\ cmd = Command("none", 0, 0) /\ want = "BSY" /\ late = FALSE
    /\ left = 0 /\ scan = NoScan
    /\ hd_info = [primary  |-> [j \in 0..NR_PART_PER_DRIVE |-> 0],
                  logical  |-> [k \in 0..NrSubs - 1 |-> 0], open_cnt |-> 0]
    /\ ctl = Controller("ready", "none", 0, 0)
    /\ intrq = FALSE
    /\ dsk = [s \in FirstData..NrSects |-> s]
    /\ layout \in Layouts

Here(p, loc) == at[p] = loc /\ Runnable(p) /\ ~panicked
GoTo(p, loc) == at' = [at EXCEPT ![p] = loc]

-----------------------------------------------------------------------------
(* FS                                                                      *)

\* What FS asks next: DEV_OPEN and GET_GEO at boot, then rw_sector.
NextRequests ==
    CASE asked.op = "none"     -> {[NoReq EXCEPT !.op = "DEV_OPEN"]}
      [] asked.op = "DEV_OPEN" -> {[NoReq EXCEPT !.op = "DEV_IOCTL"]}
      [] OTHER                 -> Requests

\* The data that FS writes.
Written(i) == NrSects + i

\* The SEND of rw_sector, of init_fs and of mkfs ...
rw_sector(req) ==
    /\ Here(FS, "boot")
    /\ msg_send(FS, HD, Body(req.op, req))
    /\ asked' = req
    /\ mem' = [i \in 1..req.cnt |-> IF req.op = "DEV_WRITE" THEN Written(i) ELSE 0]
    /\ GoTo(FS, "sent")
    /\ UNCHANGED <<jobVars, pollVars, ctlVars>>

\* ... and its RECEIVE.
FSHears ==
    /\ Here(FS, "sent")
    /\ msg_receive(FS, HD)
    /\ GoTo(FS, "boot")
    /\ UNCHANGED <<fsVars, jobVars, pollVars, ctlVars>>

-----------------------------------------------------------------------------
(* SYS and the programs that ask it                                        *)

\* getpid() of a program.
UserAsks(u) ==
    /\ \/ Here(u, "run") /\ msg_send(u, SYS, Body("GET_PID", NoReq)) /\ GoTo(u, "sent")
       \/ Here(u, "sent") /\ msg_receive(u, SYS) /\ GoTo(u, "run")
    /\ UNCHANGED <<fsVars, jobVars, pollVars, ctlVars>>

\* task_sys answers whoever asked, with the message it has received.
task_sys ==
    /\ \/ Here(SYS, "loop") /\ msg_receive(SYS, ANY) /\ GoTo(SYS, "reply")
       \/ /\ Here(SYS, "reply")
          /\ msg_send(SYS, buf[SYS].source, buf[SYS].body)
          /\ GoTo(SYS, "loop")
    /\ UNCHANGED <<fsVars, jobVars, pollVars, ctlVars>>

-----------------------------------------------------------------------------
(* HD: polling, commands and interrupts                                    *)

\* HD goes to poll for a status: BSY clear before a command, DRQ before data.
Poll(status) ==
    /\ want' = status
    /\ late' = FALSE
    /\ GoTo(HD, "ticks")

\* hd_cmd_out begins.
Issue(c) == cmd' = c /\ Poll("BSY")

\* waitfor: get_ticks() for the start and in every round, SEND and RECEIVE.
\* (The first of the two that precede the first look at the status, which only
\* sets t, is not told from the second.)
get_ticks ==
    /\ \/ Here(HD, "ticks") /\ msg_send(HD, SYS, Body("GET_TICKS", NoReq))
          /\ GoTo(HD, "clock")
       \/ Here(HD, "clock") /\ msg_receive(HD, SYS) /\ GoTo(HD, "look")
    /\ UNCHANGED <<fsVars, jobVars, pollVars, ctlVars>>

\* The status HD waits for.
Ready == IF want = "BSY" THEN ctl.st \notin {"busy", "setup"} ELSE ctl.st = "drq"

\* waitfor has run out of time: hd_cmd_out and hd_rdwt panic.
TimesOut ==
    /\ Here(HD, "look") /\ late
    /\ panicked' = TRUE
    /\ UNCHANGED <<p_flags, p_msg, p_recvfrom, p_sendto, has_int_msg, q_sending, buf, diskVars>>

\* Reading the status clears the interrupt line.
PollsAgain ==
    /\ Here(HD, "look") /\ ~late /\ ~Ready
    /\ intrq' = FALSE
    /\ GoTo(HD, "ticks")
    /\ UNCHANGED <<vars, fsVars, jobVars, pollVars, ctl, dsk, layout>>

\* hd_cmd_out: the registers are written, the controller goes to work.  A
\* count of 0 stands for the largest there is.
hd_cmd_out ==
    /\ Here(HD, "look") /\ ~late /\ Ready /\ want = "BSY"
    /\ ctl' = Controller(IF cmd.op = "WRITE" THEN "setup" ELSE "busy", cmd.op, cmd.sect,
                         IF cmd.count = 0 THEN MaxCount ELSE cmd.count)
    /\ intrq' = FALSE
    /\ IF cmd.op = "WRITE" THEN Poll("DRQ")
                           ELSE GoTo(HD, "wait") /\ UNCHANGED <<want, late>>
    /\ UNCHANGED <<vars, fsVars, jobVars, cmd, dsk, layout>>

\* Mutant: the interrupt after a written sector is not waited for.
port_write_NoWait ==
    /\ Here(HD, "look") /\ ~late /\ Ready /\ want = "DRQ"
    /\ dsk' = [dsk EXCEPT ![ctl.sect] = mem[msg.cnt - left + 1]]
    /\ ctl' = Controller("busy", "WRITE", ctl.sect + 1, ctl.left - 1)
    /\ intrq' = FALSE
    /\ GoTo(HD, "data")
    /\ UNCHANGED <<vars, fsVars, jobVars, pollVars, layout>>

\* port_write of the next sector of the caller's buffer.
port_write ==
    /\ Here(HD, "look") /\ ~late /\ Ready /\ want = "DRQ"
    /\ dsk' = [dsk EXCEPT ![ctl.sect] = mem[msg.cnt - left + 1]]
    /\ ctl' = Controller("busy", "WRITE", ctl.sect + 1, ctl.left - 1)
    /\ intrq' = FALSE
    /\ GoTo(HD, "wait")
    /\ UNCHANGED <<vars, fsVars, jobVars, pollVars, layout>>

\* interrupt_wait: RECEIVE from INTERRUPT.
interrupt_wait ==
    /\ Here(HD, "wait")
    /\ msg_receive(HD, INTERRUPT)
    /\ GoTo(HD, "data")
    /\ UNCHANGED <<fsVars, jobVars, pollVars, ctlVars>>

\* What the data port yields, and the controller after it has been read.
port_read == IF ctl.st = "drq" /\ ctl.op # "WRITE" THEN ctl.sect ELSE GARBAGE
AfterRead ==
    IF ctl.st = "drq"
    THEN Controller(IF ctl.left = 1 THEN "ready" ELSE "busy", ctl.op,
                    ctl.sect + 1, ctl.left - 1)
    ELSE ctl

-----------------------------------------------------------------------------
(* HD: requests                                                            *)

HDTake ==
    /\ Here(HD, "loop")
    /\ msg_receive(HD, ANY)
    /\ GoTo(HD, "handle")
    /\ UNCHANGED <<fsVars, jobVars, pollVars, ctlVars>>

HDHandles(ops) == Here(HD, "handle") /\ buf[HD].body.type \in ops

\* hd_open: identify the drive first.
hd_open ==
    /\ HDHandles({"DEV_OPEN"})
    /\ msg' = buf[HD].body.req
    /\ Issue(Command("IDENTIFY", 0, 1))
    /\ UNCHANGED <<vars, fsVars, left, scan, hd_info, ctlVars>>

\* Mutants: logical partitions counted from 1; the table of the primary
\* partitions for all devices.
BaseOf_FromOne(dev) ==
    IF dev < MAX_PRIM THEN hd_info.primary[dev % (NR_PART_PER_DRIVE + 1)]
                      ELSE hd_info.logical[(dev - MINOR_hd1a + 1) % NrSubs]
BaseOf_Primary(dev) == hd_info.primary[dev % (NR_PART_PER_DRIVE + 1)]

\* The first sector of the partition behind a device number.
BaseOf(dev) ==
    IF dev < MAX_PRIM THEN hd_info.primary[dev % (NR_PART_PER_DRIVE + 1)]
                      ELSE hd_info.logical[(dev - MINOR_hd1a) % NrSubs]

\* hd_rdwt: one command for the whole request, however long it is.
hd_rdwt ==
    /\ HDHandles({"DEV_READ", "DEV_WRITE"})
    /\ LET req == buf[HD].body.req IN
       /\ msg' = req
       /\ left' = req.cnt
       /\ Issue(Command(IF req.op = "DEV_READ" THEN "READ" ELSE "WRITE",
                        BaseOf(MINOR_BOOT) + req.pos, req.cnt))
    /\ UNCHANGED <<vars, fsVars, scan, hd_info, ctlVars>>

\* hd_ioctl: the partition's geometry is copied to the caller.
hd_ioctl ==
    /\ HDHandles({"DEV_IOCTL"})
    /\ msg' = buf[HD].body.req
    /\ mem' = <<BaseOf(MINOR_BOOT)>>
    /\ GoTo(HD, "reply")
    /\ UNCHANGED <<vars, asked, left, scan, hd_info, pollVars, ctlVars>>

\* The extended partitions after part j, in the order of the table.
ExtAfter(j) == {k \in j + 1..NR_PART_PER_DRIVE : Extended(k)}

\* get_part_table of the next sector to be read: the first of the next extended
\* partition after part j, or none.
NextExtended(j, primary) ==
    IF ExtAfter(j) = {}
    THEN GoTo(HD, "reply") /\ scan' = NoScan /\ UNCHANGED pollVars
    ELSE LET k == Min(ExtAfter(j)) IN
         /\ scan' = [part |-> k, sub |-> 0, sect |-> primary[k]]
         /\ Issue(Command("READ", primary[k], 1))

\* hd_identify reads the identification; hd_open goes on with the partition
\* table, the first time.
hd_identify ==
    /\ Here(HD, "data") /\ cmd.op = "IDENTIFY"
    /\ ctl' = AfterRead
    /\ hd_info' = [hd_info EXCEPT !.primary[0] = 0, !.open_cnt = @ + 1]
    /\ Issue(Command("READ", 0, 1))
    /\ UNCHANGED <<vars, fsVars, msg, left, scan, intrq, dsk, layout>>

\* partition(.., P_PRIMARY), with the table in sector 0 read.
PrimaryTable ==
    LET used    == {j \in 1..NR_PART_PER_DRIVE : EntryOf(0, j).sys_id # "NO_PART"}
        primary == [j \in 0..NR_PART_PER_DRIVE |->
                       IF j \in used THEN EntryOf(0, j).start_sect
                                     ELSE hd_info.primary[j]]
    IN
    /\ Here(HD, "data") /\ msg.op = "DEV_OPEN" /\ cmd.op = "READ"
    /\ scan = NoScan /\ used # {}
    /\ ctl' = AfterRead
    /\ hd_info' = [hd_info EXCEPT !.primary = primary]
    /\ NextExtended(0, primary)
    /\ UNCHANGED <<vars, fsVars, msg, left, intrq, dsk, layout>>

\* ... assert(nr_prim_parts != 0).
NoPartition ==
    /\ Here(HD, "data") /\ msg.op = "DEV_OPEN" /\ cmd.op = "READ" /\ scan = NoScan
    /\ \A j \in 1..NR_PART_PER_DRIVE : EntryOf(0, j).sys_id = "NO_PART"
    /\ panicked' = TRUE
    /\ UNCHANGED <<p_flags, p_msg, p_recvfrom, p_sendto, has_int_msg, q_sending, buf, diskVars>>

\* Mutant: the link is taken from the table it is in.
NextTable_Chained == scan.sect + EntryOf(scan.sect, 2).start_sect

\* The links of an extended partition count from its start.
NextTable == hd_info.primary[scan.part] + EntryOf(scan.sect, 2).start_sect

\* partition(.., P_EXTENDED), with one more table of the chain read.
ExtendedTable ==
    LET dev_nr == (scan.part - 1) * NR_SUB_PER_PART + scan.sub IN
    /\ Here(HD, "data") /\ msg.op = "DEV_OPEN" /\ scan # NoScan
    /\ ctl' = AfterRead
    /\ hd_info' = [hd_info EXCEPT !.logical[dev_nr] =
                      scan.sect + EntryOf(scan.sect, 1).start_sect]
    /\ IF EntryOf(scan.sect, 2).sys_id = "NO_PART" \/ scan.sub + 1 = NR_SUB_PER_PART
       THEN NextExtended(scan.part, hd_info.primary)
       ELSE /\ scan' = [scan EXCEPT !.sub = @ + 1, !.sect = NextTable]
            /\ Issue(Command("READ", NextTable, 1))
    /\ UNCHANGED <<vars, fsVars, msg, left, intrq, dsk, layout>>

\* The loop of hd_rdwt: what follows a sector.
AfterSector ==
    /\ left' = left - 1
    /\ IF left = 1 THEN GoTo(HD, "reply") /\ UNCHANGED pollVars
       ELSE IF msg.op = "DEV_READ" THEN GoTo(HD, "wait") /\ UNCHANGED pollVars
       ELSE Poll("DRQ") /\ UNCHANGED cmd

ReadsSector ==
    /\ Here(HD, "data") /\ msg.op = "DEV_READ"
    /\ mem' = [mem EXCEPT ![msg.cnt - left + 1] =
                  IF port_read \in DOMAIN dsk THEN dsk[port_read] ELSE GARBAGE]
    /\ ctl' = AfterRead
    /\ AfterSector
    /\ UNCHANGED <<vars, asked, msg, scan, hd_info, intrq, dsk, layout>>

WroteSector ==
    /\ Here(HD, "data") /\ msg.op = "DEV_WRITE"
    /\ AfterSector
    /\ UNCHANGED <<vars, fsVars, msg, scan, hd_info, ctlVars>>

\* The end of task_hd's loop.
HDReplies ==
    /\ Here(HD, "reply")
    /\ msg_send(HD, FS, Body(msg.op, msg))
    /\ msg' = NoReq
    /\ cmd' = Command("none", 0, 0) /\ want' = "BSY" /\ late' = FALSE
    /\ GoTo(HD, "loop")
    /\ UNCHANGED <<fsVars, left, scan, hd_info, ctlVars>>

HDStep ==
    \/ HDTake \/ hd_open \/ hd_rdwt \/ hd_ioctl
    \/ get_ticks \/ TimesOut \/ PollsAgain \/ hd_cmd_out \/ port_write
    \/ interrupt_wait \/ hd_identify \/ PrimaryTable \/ NoPartition
    \/ ExtendedTable \/ ReadsSector \/ WroteSector \/ HDReplies

-----------------------------------------------------------------------------
(* The controller and the clock                                            *)

\* A sector has been read, or written: the controller says so with an
\* interrupt, except when it is ready for the first sector of a write.
DiskWorks ==
    /\ ctl.st \in {"busy", "setup"} /\ ~panicked
    /\ ctl' = [ctl EXCEPT !.st = IF ctl.left = 0 THEN "ready" ELSE "drq"]
    /\ intrq' = (ctl.st = "busy")
    /\ UNCHANGED <<vars, at, fsVars, jobVars, pollVars, dsk, layout>>

\* Mutant: HD is told only when it waits.
hd_handler_NoLatch ==
    /\ intrq /\ ~panicked
    /\ IF AcceptsInt(HD) THEN inform_int(HD) ELSE UNCHANGED vars
    /\ intrq' = FALSE
    /\ UNCHANGED <<at, fsVars, jobVars, pollVars, ctl, dsk, layout>>

\* hd_handler reads the status and tells HD.
hd_handler ==
    /\ intrq /\ ~panicked
    /\ inform_int(HD)
    /\ intrq' = FALSE
    /\ UNCHANGED <<at, fsVars, jobVars, pollVars, ctl, dsk, layout>>

\* HD_TIMEOUT passes while HD polls.
TimePasses ==
    /\ at[HD] \in {"ticks", "clock", "look"} /\ ~late /\ ~panicked
    /\ late' = TRUE
    /\ UNCHANGED <<vars, at, fsVars, jobVars, cmd, want, ctlVars>>

DiskNext ==
    \/ \E req \in NextRequests : rw_sector(req)
    \/ FSHears
    \/ \E u \in Users : UserAsks(u)
    \/ task_sys
    \/ HDStep
    \/ DiskWorks \/ hd_handler \/ TimePasses

\* Every process that can run gets its turn, the controller finishes what it
\* has been told to do and the interrupt controller delivers.
Fairness ==
    /\ WF_allVars(FSHears) /\ WF_allVars(task_sys) /\ WF_allVars(HDStep)
    /\ \A u \in Users : WF_allVars(UserAsks(u))
    /\ WF_allVars(DiskWorks) /\ WF_allVars(hd_handler)

DiskSpec == DiskInit /\ [][DiskNext]_allVars /\ Fairness
-----------------------------------------------------------------------------
(* Properties                                                              *)

DiskTypeOK ==
    /\ TypeOK
    /\ msg \in Asked
    /\ left \in 0..msg.cnt
    /\ ctl.left \in 0..MaxCount
    /\ DOMAIN dsk = FirstData..NrSects
    /\ want \in {"BSY", "DRQ"} /\ {late, intrq} \subseteq BOOLEAN

\* The k-th table of an extended partition, <<its sector>> or <<>>, as the
\* Extended Boot Record chain (hd.h) defines it: the first is at the start,
\* every other one where its predecessor's second entry says, counted from the
\* start of the partition.
TableAt(j, k) ==
    LET start == EntryOf(0, j).start_sect
        table[i \in 0..NR_SUB_PER_PART - 1] ==
            IF i = 0 THEN <<start>>
            ELSE IF table[i - 1] = <<>> \/ EntryOf(table[i - 1][1], 2).sys_id = "NO_PART"
                 THEN <<>>
            ELSE <<start + EntryOf(table[i - 1][1], 2).start_sect>>
    IN  table[k]

\* Where the k-th logical partition of a primary one begins, 0 if there is none.
LogicalAt(j, k) ==
    IF ~Extended(j) \/ TableAt(j, k) = <<>> THEN 0
    ELSE TableAt(j, k)[1] + EntryOf(TableAt(j, k)[1], 1).start_sect
LogicalIn(j, k) == hd_info.logical[(j - 1) * NR_SUB_PER_PART + k]

\* Once FS has opened the disk, every partition is known by its first sector:
\* the primary ones and the logical ones of every chain, up to the number of
\* entries there is room for.
PrimaryFound ==
    \A j \in 1..NR_PART_PER_DRIVE : EntryOf(0, j).sys_id # "NO_PART" =>
        hd_info.primary[j] = EntryOf(0, j).start_sect
LogicalFound ==
    \A j \in 1..NR_PART_PER_DRIVE, k \in 0..NR_SUB_PER_PART - 1 :
        LogicalIn(j, k) = LogicalAt(j, k)
PartitionsFound == asked.op \notin {"none", "DEV_OPEN"} => PrimaryFound /\ LogicalFound

\* The sectors of the disk a request is about.
Target(req) == FirstData + req.pos .. FirstData + req.pos + req.cnt - 1

\* When FS has its answer, the sectors of the disk and its buffer agree: no
\* interrupt was taken for another one, none of the sectors was read before
\* the controller had it or left out, whatever came in while HD polled.
Transferred ==
    Here(FS, "boot") /\ asked.cnt > 0 =>
        \A i \in 1..asked.cnt : mem[i] = dsk[FirstData + asked.pos + i - 1]

\* A write changes the sectors it is about and no others.
OnlyItsSectors ==
    [][\A s \in FirstData..NrSects : dsk'[s] # dsk[s] =>
          asked.op = "DEV_WRITE" /\ s \in Target(asked)]_allVars

\* Every interrupt is awaited by the request that caused it: none is left for
\* task_hd, which would take it for a request and spin.
NoStrayInterrupt ==
    /\ Here(HD, "handle") => buf[HD].source = FS
    /\ at[HD] \in {"loop", "handle", "reply"} => ~intrq /\ ~has_int_msg[HD]

DiskSound == DiskTypeOK /\ NoStrayInterrupt

\* Every request the controller can serve with one command is answered, if the
\* controller is not too slow for it.  do_rdwt asks for more sectors at once
\* (fs/read_write.c:88-118) than the register of cmd.count counts (hd.c:186):
\* such a request is cut, and HD waits for an interrupt that never comes.
RequestsServed ==
    at[FS] = "sent" /\ asked.cnt <= MaxCount ~> Here(FS, "boot") \/ panicked
=============================================================================
