# final_os in TLA+

TLA+ models of final_os, a message-passing operating system for the i386 in the
line of Orange'S and MINIX, with the TLC configurations that check them on small
instances and TLAPS proofs of what matters most. Paths are relative to the
repository's `src/`.

## 1. The system

One processor, one kernel in ring 0, six tasks in ring 1 (TTY, SYS, HD, FS, MM,
LOG), INIT and three spinning test programs, and up to 28 forked processes. They
share almost nothing: a program asks a task with a synchronous message
(`send_recv(BOTH, ...)` is a SEND followed by a RECEIVE) and the tasks ask each
other in the same way. What they do share is `proc_table`: the kernel writes the
IPC fields, and MM writes flags, parents and exit statuses in it directly.

| Component | State | Operations | Talks to |
|---|---|---|---|
| kernel IPC `kernel/proc.c` | per process: `p_flags`, `p_msg`, `p_recvfrom`, `p_sendto`, `has_int_msg`, the list `q_sending`/`next_sending` | `msg_send`, `msg_receive`, `deadlock`, `inform_int` | called by everybody; interrupts call `inform_int` |
| scheduler and clock `kernel/proc.c`, `kernel/clock.c` | `ticks`, `priority`, `p_proc_ready`, `k_reenter` | `schedule`, `clock_handler` | wakes TTY when `key_pressed` |
| MM `mm/` | `p_parent`, `exit_status`, WAITING/HANGING/FREE_SLOT, heap bitmap, page tables | fork, exit, wait, kill, exec, malloc, free | FS (FORK, EXIT, file reads of exec); aborts IPC in the kernel's table |
| FS `fs/` | descriptors, inode table with reference counts, superblocks; on disk: inode map, sector map, inodes, directory | open, close, read, write, stat, unlink, FORK, EXIT, RESUME_PROC | TTY and HD |
| disk log `fs/disklog.c` | reserved sectors | `disklog`, `dump_fd_graph` | FS's own sectors |
| TTY `kernel/tty.c`, `keyboard.c`, `console.c` | keyboard buffer, per-terminal ring, the one pending reader | DEV_READ (suspend), DEV_WRITE, key interrupts (resume) | FS; keyboard and clock interrupts |
| HD `kernel/hd.c` | partition tables, open count; the drive's registers | DEV_OPEN, READ, WRITE, IOCTL | disk interrupt; SYS for the time |
| SYS `kernel/systask.c` | - | ticks, pid, process list, RTC | reads `proc_table` |
| LOG `kernel/log.c` | ring of 80 entries, filters | post, read, clear, block, freeze | every task posts when logging is on |
| INIT, shell, commands `kernel/main.c`, `command/` | a line and its words, a chunk of cmd.tar | untar; fork, exec, wait, kill; rm, touch, logman | all servers |

**Hard behaviours.**
Kernel calls run with interrupts *enabled* (`sti` in `sys_call`,
`kernel/kernel.asm:366`), so `inform_int` can run between any two statements of
`msg_send` and `msg_receive`. A second interrupt level never reschedules
(`k_reenter`, `kernel/clock.c:43`), so no other process runs inside a call.
Between the SEND and the RECEIVE of one `send_recv(BOTH, ...)` anything may
happen: a parent is marked WAITING before it is RECEIVING, a child exits before
its parent waits, a process is killed while a server works for it. `abort_ipc`
edits queues the kernel believes it owns. A zombie outlives its parent. The
server chain program - FS - TTY - FS can close.

**What makes each component correct.**
*IPC*: the fields of a process agree with the reason it is blocked for; queues
hold exactly the blocked senders; no fitting pair stays blocked; no sender cycle;
nothing is released without its message. *Processes*: exits and waits meet in
every order, every orphan has a parent, a status reaches the right parent,
nobody sends in a circle. *Terminal*: every reader is resumed exactly once, with its
own characters. *File system*: reference counts equal users, descriptors are
private, maps agree with inodes, directory entries stay reachable. *Disk*: a
request moves exactly its sectors, every interrupt is taken by who waits for it.
*Scheduler*: every runnable process runs again (true but for what is forked while
FS dumps its graph, section 5). *Memory*: no block is handed out
twice. *Log*: the ring is the last entries. *Screen*, *keyboard*: what is printed
is in sight, what is typed arrives. *Shell*: a command in the foreground is over
when the prompt comes back, and gets the words that were typed.

## 2. Modules

```
Rendezvous <--refines-- Ipc <--refines-- IpcSteps      (calls / statements)
                         |
                         +-- ProcLife      (MM: fork exit wait kill)
                         +-- Terminal      (TTY, FS, keyboard, programs)
                         +-- Disk          (HD, FS, SYS, the drive)
                         +-- IpcProofs     (TLAPS)
Files                        (FS: descriptors, inodes, maps, directory)
Screen Keyboard Heap Log Sched Shell DiskLog Untar     (parts of their own)
IpcSteps, IpcProofs <-- IpcStepsProofs,
Heap, Sched, DiskLog, Log, Keyboard, Screen <-- UnitProofs,
Shell <-- ShellProofs, Files <-- FilesProofs,
Disk, IpcProofs <-- DiskProofs, Terminal, IpcProofs <-- TerminalProofs,
ProcLife, IpcProofs <-- ProcLifeProofs                              (TLAPS)
MCIpc MCIpcSteps MCProcLife MCTerminal MCFiles MCDisk: instances
MCUnits: Screen, ..., Untar side by side
```

* **Rendezvous** says what the IPC promises: a process is idle, in a call or
  dead; a message passes when both sides are in fitting calls; an interrupt is
  pending at most once. It has no queue, flags or pointers.
* **Ipc** has the fields of `struct proc` as variables (same names; `p_msg` only
  as "set or null"; the list as a sequence) and one action per outcome of each
  kernel call: `SendDelivers`, `SendBlocks`, `SendPanics`, `ReceiveInt`,
  `ReceiveFrom`, `ReceiveBlocks`, `InformWakes`, `InformLatches`, `abort_ipc`.
  `buf` is the MESSAGE of the call a process made last, the only memory of a
  process the kernel touches. `deadlock` follows the chain in the code; the
  definition says the same without recursion ("src is in every set that holds
  dest and is closed under *is blocked sending to*"), which is also what the
  proof needs; IpcSteps walks the chain as the code does, and `ImplementsIpc`
  shows the two agree. Any process may make any call in any state.
* **IpcSteps** opens the calls up. The list is `q_sending`/`next_sending`
  pointers. A step is what lies between two points where an interrupt can make
  a difference (the code is compiled without optimisation, so each statement
  rereads memory). `nested` says whether interrupts occur inside calls; it is
  chosen at the start. `before` is a history variable, the table when the call
  began.
* **ProcLife** puts MM on top of Ipc: `at` is the program counter of each
  program, a step goes to the next kernel call. `do_fork`, `do_exit`, `do_kill`,
  `do_wait`, `do_process_exit` and `cleanup` are cut exactly at their SENDs and
  RECEIVEs. FS and SYS receive and answer. Programs do anything out of `Calls`
  and exit with 1 (not the initial 0 nor the -1 of a killed process). INIT forks
  `Shells` shells and then waits for ever. `exited` and `killed` are history
  variables: what each process gave to exit(), and who was killed.
* **Terminal** puts TTY, the terminal part of FS, the keyboard and clock
  interrupts and the programs on top of Ipc, with the same `at`. TTY's loop takes
  a step per key, so interrupts come between any two keys; `tty` is the terminal
  it is at. `tty_table` is the struct of each terminal: the ring `ibuf`,
  `tty_procnr`, `tty_left_cnt`, `escape_pending`, and `line` for the
  `tty_trans_cnt` characters written at `tty_req_buf`. FS serves one request at a
  time: `FSAsks` and `FSHears` are the two halves of its BOTH to TTY,
  `FSReplies` the end of its loop with the SUSPEND_PROC exception. A key is one
  press here.
* **Files** is `fs/` behind its message loop: `filp`, `f_desc_table`,
  `inode_table` with the same names, the disk as `inode_array`, `imap`, `smap`
  and `dir`. FS waits for the disk in the middle of a request without listening
  to anybody, so a request is one step; what interleaves is the requests of
  different processes and the two halves of a fork (`do_fork` copies `filp`,
  `fs_fork` counts it later, others close and unlink in between). Every loop over
  a map or the directory is the set of what it finds, with its off-by-one:
  `Searched` goes one entry too far as `search_file` does, `SlotsOf` does not, as
  in `do_unlink`. `failed` is the panic or assertion that stopped the system.
* **Disk** is `kernel/hd.c` on top of Ipc, with SYS, which HD asks for the time
  while it polls the drive, and a drive that does what `include/sys/hd.h` says of
  its registers (external). `hd_info` is filled by walking the partition tables
  of a `Layouts` member, as `partition` does.
* **Screen**, **Keyboard**, **Heap**, **Log**, **Sched**: a console in its video
  memory with the window of the controller; scan codes to keys, byte by byte;
  MM's bitmaps, with the rows behind one another; the ring of the log with its
  posters and readers; ticks, priorities and the processes FS stops while it
  dumps its graph.
* **Shell** has INIT, the shells and their children as program counters: what
  `fork`, `wait`, `exit` do to callers is taken from ProcLife, `do_exec` is cut
  where FS can serve others. A line is a sequence of characters, taken to words,
  to the argument stack of `execv`, to addresses in the new image and back.
* **DiskLog** is `disklog` with a byte of the disk as the number of the logged
  character in it. Files get bits as `alloc_smap_bit` gives them, and write to the
  sectors these stand for (`FirstSect` is `n_1st_sect`), also where the log is. **Untar** is INIT's `untar` over every archive of two members.

Every definition's source lines are in PROJECT.json (`map`).

## 3. Runs

| Run | Configuration | States | Shows |
|---|---|---|---|
| ipc | MM, a driver, two interchangeable forked processes | 65 583 | all of Ipc's properties, and that it implements Rendezvous |
| ipc_steps | MM, a driver, one forked process, `nested` both ways | 228 056 | lists, assertions, and that the statements implement Ipc |
| life | MM, FS, INIT, two slots | 94 298 | process life, safety and liveness |
| terminal | one program, one terminal, every kind of key | 476 129 | noticing keys, editing a line, answering a read once |
| terminals | two programs, two terminals | 189 856 | that reads and writes return |
| files | three processes, two names and cmd.tar, scarce tables | 184 075 | counts, caches, the inode map and entries agree |
| disk | FS, HD, SYS, a program, three partition layouts | 42 499 | partitions, transfers, interrupts, answers |
| units | eight parts side by side | 401 432 | see below |
| lost_wakeup, killed_server, circle, entry | as above, killed_server with SYS | | the four disagreements of section 5 |

**ipc.** `Consistent` is the types, `CallFields` (the kernel's assertions about
both parties) and `QueueIsSenders`; `NoMissedRendezvous`; `NoWaitCycle`;
`SentMeansDelivered` and `WokenByWhatItAwaits` (what releases a blocked process);
`ImplementsRendezvous`. Four processes: a cycle of three senders with one
onlooker, a queue of three, a receive from the middle of a queue, and an abort of
a process that has senders and receivers waiting for it at once. Symmetry only
exchanges the two forked processes, and all properties are safety properties.

**ipc_steps.** `ListsSound` (the lists are the queues of Ipc, and a released
process is left clean) holds with interrupts in any place; `AssertionsHold` and
`ImplementsIpc` without them. `AssertionsHold` is about the assertions on the
process table in `msg_send`, `msg_receive`, `block`, `unblock` and `inform_int`; those on
the arguments of a call (`kernel/proc.c:70`, 71, 84, 260, 347) are what `Enter` lets in. Three processes are enough for a list of two and an
unlink of its tail (the `prev` case). With four processes the invariants were
also checked once (4.4 million states); the refinement is then too large.

**life.** `FamilySound`: which flags go together, no zombie of a waiting parent,
every process has a living parent, a forked child exists; the middle two are
about moments between requests of MM (`Quiet`), the only ones at which another
program can act on them. `NeverPanics`: the order of system calls never closes a
circle of senders; this is the run without SYS, and it is false once programs may both
kill and call SYS (section 5). `WaitTellsTruth`: the status is the one the child
itself gave to exit(), or -1 if it was killed, also if only its zombie was (section 5).
`WaitReturns` and `InitGoesOnReaping` are liveness. That servers go on is not claimed:
here programs call only MM, and *killed_server* shows what happens when they call others. Two slots give a parent, a
child and the lack of a slot; a process number is reused after a reap. "Every
zombie of INIT is reaped in the end" is *false*: `do_wait` scans from the lowest
slot, and programs that fork and exit for ever keep the lower slots filled.
`InitGoesOnReaping` is what remains.

**terminal.** `TermSound`: TTY writes only into the buffer of a program that
waits in a read, room and characters always make up its count, and a suspended
reader is the one its terminal will resume (but for the swallowed escape of
section 5). `KeysNoticed`: no order of the interrupt setting `key_pressed` and
TTY resetting it leaves a key unnoticed while TTY waits. `ReadTellsTruth`: a read
is answered once, when its line is complete, with the length of that line.
`KeysRead` is liveness. Three keys out of six kinds meet every pair of escape and
edit and a full line with each of them last; a keyboard buffer and a ring of two
are overrun by the third.

**terminals.** Two readers, a key that switches consoles between them, buffers of
one key. `ReadReturns` and `WriteReturns` are liveness. Both allow for the panic
of *circle*, which ends any run in which it happens; two keys let one terminal
complete a line while the other waits. Each program reads its own terminal, as
INIT's shells do.

**files.** `FilesSound`: an open file has its inode in the map and no position
behind its end, and the bits of the map are exactly the inodes there are. `CountsCoverUsers`: `fd_cnt` is exactly the number of
fds, `i_cnt` at least (an unlink that is refused leaks one), also between the
halves of a fork. `CacheIsDisk`: what is cached is what is on
the disk. One fd, two
descriptors, three inode slots, room for two more files: each table runs out. A
name that fills its entry writes its NUL into the next one (`LongNames`). The
bits of cmd.tar lie in the middle of the free ones, as in the code (bit 32 500 or
so, with files of 2048 bits from bit 2049 on): the second file of the instance, the
fifteenth of the code, is a set of bits around cmd.tar's with sectors counted through
it. No property says that the sectors of files are apart, because they are not, nor
that the sector map is exact; what do_unlink then does is section 5.

**disk.** `PartitionsFound` compares `hd_info` with the chain of boot records as
`hd.h` defines it, for a chain longer than the table, a short one and an empty
one. `Transferred` and `OnlyItsSectors`: the sectors of a request, in its
partition, and no others. `DiskSound`: no interrupt is left to be taken for a
request. `RequestsServed` is liveness, of the requests that one command can serve:
`do_rdwt` asks for up to 2048 sectors at once, `cmd.count` is a byte. With a register
for less than two, requests of one, two (which it counts as 0) and three sectors are
one below, at and one above its end; the last are cut and never answered (section 5). What HD
does for them until it waits is covered by the other properties.

**units.** These parts share no state, and a behaviour of MCUnits is one of one
part: the variable `unit` says which. Each has an instance of its own:

| Part | Instance | Properties |
|---|---|---|
| Screen | 2 columns, a window of 2 lines in 4 | `ScreenSound`: window in the console, the last lines in sight; `OthersUntouched` |
| Keyboard | nine keys, one per treatment, three events, 3 bytes of buffer | `KeyboardSound`: the keys typed arrive with the modifiers they were typed with |
| Heap | two programs, three rows, sizes of 1, 2 and 5 blocks in a heap of 3 | `HeapSound`: blocks are apart, marked and not lost |
| Log | two posters, one of them logman, a ring of 3, 4 posts | `LogSound`: the ring is the history, a search finds |
| Sched | SYS, FS, MM, INIT and a slot for a fork, one dump, priorities 2 and 1 for 15 and 5 | `PrioritiesKept`, `ReadyRuns` (liveness); both but for what is forked during a dump |
| Shell | one shell, three slots, rm, touch and a command, one kill | `ShellSound`: nobody left to wait for at the prompt, the own child awaited, one shell per terminal, arguments intact |
| DiskLog | a log of 3 sectors of 3 characters, strings of 1, 3 and 4, files that get its sectors | `DiskLogSound`: text kept over sector boundaries, disklog writes nothing behind the log |
| Untar | archives of up to two members of 0 to 9 bytes, chunks of 2 sectors | `UntarSound`: what was packed is extracted |

The 5-block request in a heap of 3 makes `total_blocks - blocks_needed` wrap
round, and the search goes on into the rows of other processes, as it does in
the code. A file of 8 bytes is shorter than the longest member. Two forked
processes, a child of one of them and their deaths take three slots in Shell; a
second shell would only be one more process that INIT has forked.
`DiskLogSound` excepts the last sector of the log, over which the header's copy
is written, and the sectors that a file has got: without this exception TLC finds a
file created and written that overwrites the header (section 5).

**Deadlock** is not checked: the system really stops when it panics, when an
assertion fails, and when every program has exited or waits for ever.

**Fairness** (`FairLifeSpec`). Weak fairness for MM, for the servers, for INIT's
calls, and for a program inside a system call: `schedule` gives every process
with `p_flags == 0` its turn, because the ticks of the others are finite and are
refilled only when no runnable process has any left. A program between calls has
no fairness: it may compute for ever. Queues are FIFO, so a server that keeps
receiving from ANY reaches every sender; this is in the model, not assumed.
`FairTermSpec` assumes the same of TTY, FS and of programs waiting for an answer,
and that clock ticks recur while a key is unnoticed. Nobody need press a key.
`DiskSpec` adds the drive, which finishes the command it has, and the delivery of
its interrupt. `SchedFair`: the clock ticks; the disk answers the helper that FS
waits for; and, strongly, FS's dump goes on: its steps are enabled only while FS
or the helper is the one that runs, and it need not be chosen at any one time,
but a process that runs again and again does its next step in the end.

**Bounds.** `MaxKeys` and `MaxEvents` bound the keys: somebody who types faster
than TTY reads, for ever, keeps TTY in `keyboard_read`. `KB_IN_BYTES`,
`KB_IN_SIZE` and `TTY_IN_BYTES` (32, 32 and 256 in the code) are small so that
they fill up. `MaxSlots` and `MaxCnt` bound the directory and leaked references,
`MaxBack` backspaces in a row (at most a screenful), `MaxPosts` and `MaxAsked` the log's
messages, `MaxDumps` and `MaxForks` what happens to the scheduler, `MaxKilled`
the kills, `MaxLogged` the characters logged; `AfterLog` is as much of the disk
behind the log as DiskLog looks at. `Procs`, `Bodies`, `Calls`, `Shells`,
`Users`, `Ops`, `Keys` and `Counts` bound the instances; no other counter grows
without bound. Except in Log, logging is off, as after boot (`log_enable` is 0).

## 4. Proofs

TLAPS proves, for every value of the constants that the assumptions of the
module allow:

| Theorem | Statement |
|---|---|
| ConsistentAlways (IpcProofs) | `Spec => []Consistent` |
| NeverMissed | `Spec => []NoMissedRendezvous` |
| NeverAWaitCycle | `Spec => []NoWaitCycle` |
| SentIsDelivered | `Spec => SentMeansDelivered` |
| WokenIsAnswered | `Spec => WokenByWhatItAwaits` |
| RendezvousImplemented | `Spec => ImplementsRendezvous` |
| ListsAlwaysSound (IpcStepsProofs) | `Spec => []ListsSound` |
| AssertionsAlwaysHold | `Spec => []AssertionsHold` |
| IpcImplemented | `Spec => ImplementsIpc` |
| HeapAlwaysSound (UnitProofs) | `HeapSpec => []HeapSound` |
| PrioritiesAlwaysKept | `SchedSpec => []PrioritiesKept` |
| DiskLogAlwaysSound | `DlSpec => []DiskLogSound` |
| LogAlwaysSound | `LogSpec => []LogSound` |
| KeyboardAlwaysSound | `KbSpec => []KeyboardSound` |
| ScreenAlwaysSound | `ScrSpec => []ScreenSound` |
| OthersAlwaysUntouched | `ScrSpec => OthersUntouched` |
| ShellAlwaysSound (ShellProofs) | `ShSpec => []ShellSound` |
| CountsAlwaysCoverUsers (FilesProofs) | `Spec => []CountsCoverUsers` |
| FilesAlwaysSound | `Spec => []FilesSound` |
| CacheIsAlwaysDisk | `Spec => []CacheIsDisk` |
| DiskAlwaysSound (DiskProofs) | `DiskSpec => []DiskSound` |
| AlwaysTransferred | `DiskSpec => []Transferred` |
| OnlyItsSectorsAlways | `DiskSpec => OnlyItsSectors` |
| PartitionsAlwaysFound | `DiskSpec => []PartitionsFound` |
| KeysAlwaysNoticed (TerminalProofs) | `TermSpec => []KeysNoticed` |
| BufferAlwaysOfReader | `TermSpec => []BufferOfReader` |
| ReadersAlwaysRemembered | `OwnTerminals => (TermSpec => []TermSound)` |
| ReadsAlwaysTellTruth | `OwnTerminals => (TermSpec => []ReadTellsTruth)` |
| LifeNeverPanics (ProcLifeProofs) | `KillsApart => (LifeSpec => []NeverPanics)` |
| LifeFamilySound | `KillsApart => (LifeSpec => []FamilySound)` |
| LifeWaitTellsTruth | `KillsApart => (LifeSpec => WaitTellsTruth)` |

`IpcProofs` assumes only `IpcAssumption`: native processes are processes, the
pseudo numbers ANY, INTERRUPT, NO_TASK are not, and are distinct. The inductive
invariant of IPC is `Consistent == TypeOK /\ CallFields /\
QueueIsSenders`. None of the three is inductive alone: unlinking a sender needs
to know that it is in the queue exactly once (`QueueIsSenders`), that a blocked
sender's target is the owner of that queue needs `CallFields`, and both need the
types. `NoMissedRendezvous` and `NoWaitCycle` are then inductive relative to it:
the first because a receive that blocks has looked at every sender (directly or
through the queue's head) and a send that blocks has looked at the receiver; the
second because a new edge p -> d closes a cycle only if p is reachable from d,
which is what `deadlock` excludes - the set of the cycle minus p is closed under
the edges. The action properties use the same invariant in the unprimed state.

Every step of Ipc is a step of Rendezvous or a stutter. The proof needs the invariant, to read a process's call off its fields, and
`NoMissedRendezvous`: Rendezvous lets a process begin a call only if no fitting
partner is there, and releases exactly the pairs that fit, so a blocking call
must have looked at everybody and a delivery must be the only one possible.

`IpcStepsProofs` proves the same kernel calls at the level of their statements and
of the linked lists. `IpcStepsAssumption` is that of Ipc, with a null pointer that
is no process and finitely many processes, as in `proc_table`. `Chain` relates the
pointers to the queue they stand for; unlinking and appending keep it
(`ChainUnlink`, `ChainAppend`). What the walks of the code find (the list itself,
`prev`, the senders in `deadlock()`) is proved without induction: if a walk went
wrong somewhere there would be a least place, and its step there is the chain's.
The invariant `StepsInv` has two parts.

* `SoundInv` holds with interrupts at any place: the fields of each process,
  with what is not yet or no longer so in the middle of a call (`FieldsOf`), what
  a call may rely on where it has come to (`Calling`), and `Linked`. The step that
  matters is an interrupt that releases a process a call has already looked at:
  it ends a receive and touches no list, so the lists stay sound.
* `Quiet` is asked only of a system without `nested`: the table is what it was when
  the call began but for exactly the assignments made so far (`Changed`,
  `ChangedBuf`), and what the call has found out was true then (`Known`: no
  deadlock, who fits, whether an interrupt is pending). So no assertion can fail,
  the step that returns is a step of Ipc, and all before it are stutters.

`NoMissedRendezvous`, `NoWaitCycle` and the other theorems of Ipc are thereby
true of the linked lists as well, as long as interrupts wait until a call has
ended. With `nested` only `ListsSound` is left; *lost_wakeup* shows what breaks.

`UnitProofs` has six parts that share only lemmas about numbers. It proves
`HeapSound` for heaps of any size, any number of processes and any requests
(`HeapAssumption`: sizes are positive, the rows hold the blocks). It is inductive as it stands: a new block is apart from the others
because theirs are marked, and a block given back leaves the others marked
because they are apart from it. The wrapped search is included.

It proves `PrioritiesKept` for any number of processes, forks and dumps
(`SchedAssumption`: the tasks come before the free slots of the table, and 15 and
5 are not 0). The property says nothing while FS dumps; the invariant `SchedInv`
adds what must be true then: everybody who was there before has his priority or
will get it - it is saved, and the loop has not passed his slot - and nobody
else's was saved for him. That the loop misses nobody is the step in which it
takes the first slot that is left; that the slots restored stay so is that all
other actions leave priorities alone, but for forks (odd) and freed slots.

It proves `DiskLogSound` for logs, sectors, strings and files of any size, whatever
is written to the files (`DiskLogAssumption`: they are not empty, the log is smaller than the device, its
header fits a sector). `TextKept` alone is not inductive: `InStep` says that `pos`
is behind the last character logged and the string under way goes on where `pos`
points, `Found` that every character has its own place, in a sector the disk has.
Then the next piece, which ends with its sector, meets no place of an earlier one,
and the header's copy meets none but in the last sector.

It proves `LogSound` for a ring of any length (`LogAssumption`). `RingIsLog` is
inductive with the types: `Before(cnt, i)` is the slot of the i-th latest entry, and
an entry more makes each of them one older, also where the ring wraps. The loop of
GET_PID_LOG is a recursive function on its two counters. That it exists, and that it
finds an entry if there is one, is shown by least counterexamples: a round less is
left at each place it goes on to, and it comes by every slot before it gives up.

It proves `KeyboardSound` for any number of events and any size of `kb_in`. The
invariant `KbInv` looks forward: as long as nothing is lost, the bytes in `kb_in`
and on the wire, read one by one from where `keyboard_read` is (`KbPlace`) with the
modifiers it has now, come to just what is due and to the modifiers of the user
(`Tells`). That is compositional: a key adds its bytes at the end (`TellsMore`,
`KeyTells`), `keyboard_read` takes one off the front (`OneRead`), and an interrupt
moves one from the wire to the buffer, which changes nothing. `Reads` says what each
byte does in each place; that the actions do just that is a lemma per action. The
bytes in the middle of Pause are not read as keys, because `KbPlace` tells them apart.
Trying to prove it showed an error in the model: the arms of `KeyMap` overlapped for
the keys with the prefix E0, of which TLC evaluates the first only.

And it proves `ScreenSound` and `OthersUntouched` for consoles of any size
(`ScreenAssumption`: the window is not larger than the console, and at most a
screenful is taken back). `TextShown` is not inductive: it says nothing while the
user has scrolled, and the next character brings the old lines back into sight.
`ScrInv` has the text in memory as far back as the console has lines, wherever the
window is (`TextIn`), and what can be taken back in one piece before the cursor
(`BackIn`). Where the console starts again, the copy moves the lines and the cursor
by the same distance (`TextCopied`). `WindowsSound` has the loop of out_char as a
recursive function: every window it passes lies in the console. `OthersUntouched`
then is about the cursor alone: in a step that began with the cursor in sight, it
leaves the window only onto the first column of the next line or backwards, and
in both cases a line's length from it ends in the console (`LinesApart`).

`ShellProofs` proves `ShellSound` for any number of shells and slots and any lines
(`ShellAssumption`: names are distinct, a pointer has a length, a line is a sequence
of characters without NUL). The family carries it (`FamilyBut`): a parent that is
no INIT waits, or is about to, for the child it forked last, so nobody else is its
child; that is why wait() can only return the right one, and why nobody is left at
the prompt. A death breaks it for the children of the dead until INIT has inherited
them, inside the same request of MM, so the lemmas on exits and waits are about tables in which
one process is exempt. `ArgsArrive` is arithmetic, for every line: the words of a
line are as many as their starts, the strings lie behind the pointers one after
another (`JoinsExist` makes the fold of `Strings` a function of their number),
a pointer moved by the distance of the two stacks still meets its string, and the
first NUL after it is that string's, because no word has one.

`FilesProofs` proves three properties of the file system for any number of
processes, descriptors, slots, inodes and names. `FilesAssumption` asks that
tables are not empty, lengths positive, the root directory's and cmd.tar's bits
inside the sector map, and (for `Cardinality`) that the processes are finitely
many. The invariant `FilesInv` adds to them: a parent and child whose fork FS
has not heard of do nothing and have the same files (`Forked`; without it
`fs_fork` could count other fds than the ones that were copied); the root
keeps the first slot (`RootIn`), so no full table can take it away; every entry
names an inode of its own (`EntriesIn`), so that an unlink frees the inode of no
other name; no file is longer than its sectors. The step that carries
`CountsCoverUsers` is the fork: counting what was copied later adds exactly the
child's fds, because the child had none before. The lemmas on counts
(`AtLeastOne`, `DisjointCount`, `CountsMore`) serve all handlers.

Three lemmas of `IpcProofs` say what a kernel call does, once for all programs:
`SendEffect` (delivered or queued, and nobody else is touched), `ReceiveEffect`
(an interrupt or a queued message is taken, or the caller waits) and
`InformEffect`. DiskProofs and TerminalProofs use only these, never the fields.
ProcLifeProofs has its own of the same kind, because MM edits those fields.

`DiskProofs` proves the driver for any partition tables, requests, and programs
that ask SYS. `RequestsAssumption`: FS asks for sectors inside its partition.
`LayoutAssumption`: that partition is the first logical one of an extended
partition, since `MINOR_BOOT` is `MINOR_hd2a` (`include/sys/config.h:38`,
`include/sys/const.h:295`), on every disk that has a partition at all; one
without stops HD at boot, in the code and in the model alike. `DiskInv` has one
part per hazard. `OneInterrupt`: the interrupt of a command is in one place - to
come, raised, latched or taken - and the controller's state fits it. It is this
that keeps an interrupt of one command from being taken for the next one's.
`OneRequest`: a request is with FS, HD or on its way back, and what HD works on
is what FS asked. `SysAnswers`: HD's question for the time is answered before HD
goes on, whoever else asks. `ScanKnows`: FS's partition is known before its first
read. `Transfers`: how many sectors are copied, against the registers, the count
left and the place in the loop; counts are taken modulo the register.

`PartitionsAlwaysFound` needs `PartsInv` besides: no entry of `hd_info` is wrong
at any time, those the scan has not come to are 0, and `ScanAt` says which table
of which chain the scan is at. What the tables of a chain are is a recursive
function; that there is one is shown by the least table that would not follow
from its predecessor (`ChainExists`). `FirstData` is not sector 0, which holds
the boot record: an entry of 0 means that no partition is there.

`TerminalProofs` proves four things of TTY, FS and the programs
(`TerminalAssumption`: the names are distinct, programs ask for one character or
more; `MessagesAssumption`: what is sent is a message, and only the kernel's
has the type HARD_INT). `TermInv` holds for shared terminals as well. `Talk` says
where each process is when it is blocked, what is in its message, and that a
request FS has passed on is with TTY until it is answered; it is what makes a
reply reach the request it belongs to. `Readers`: whoever is registered at a
terminal, or told or about to be told to go on, waits for it, and for one of
these reasons only - a reader is resumed once. `Filled`: room and characters add
up. `Noticed` is the argument for `KeysNoticed`: a key that the clock would not
announce is one that TTY's round has still to come to, that is, it is in
`keyboard_read`, or the round has not passed `current_console`, to which the
interrupts put the keys. `Talk` and `Readers` are not asked of a system that has
stopped (section 5, *circle*), the rest is.
`OwnInv` is about each program by itself: it is suspended, and remembered, or its
call is at one definite place between it, FS and TTY, with the length of its
line. It needs the hypothesis `OwnTerminals`, that two programs have not opened
the same terminal. INIT starts its shells like that (`kernel/main.c:342`), and a shell
waits while its command has the terminal; a command in the background that reads makes
it false, and then a reader is indeed forgotten (section 5).
`BufferAlwaysOfReader` and `KeysAlwaysNoticed` do not need it. Proving
`BufferOfReader` showed that an exemption it once had, for the moment in which
TTY sends RESUME_PROC, was not needed: `tty_left_cnt` is reset with the send.

`ProcLifeProofs` proves what programs, MM, FS and SYS do to each other by forking,
exiting, killing and waiting, for any number of slots, shells and servers.
`ProcLifeAssumption`: the names are distinct, native processes are not slots, 0 is
no slot, and who may ask SYS has one; `LifeMessagesAssumption`: what is sent is a
message. The theorems have the hypothesis `KillsApart`, that programs do not *both*
kill and call SYS: with both they are false (section 5), without one of them they
hold whatever else programs do. The run *life* is an instance with kills.

MM breaks the invariant of Ipc - a zombie is an idle process with a flag, a dead
one receives from nobody, a waiting parent is blocked but in no call - so `LifeInv`
begins with what remains of it, `Linked`. `BlockedFor` and `Placed` say where
everybody is in its program when it sends or receives, and why. `Service`: whoever
a server works for waits for that server, but for a process that MM is killing.
That exception is harmless here because it is final: FS sends to the dead process
and MM to FS, both for ever, so the slot is never reaped and never given away. With
SYS in FS's place MM would get through, and that is why `KillsApart` is needed.
`Handling`, `Forking`, `Replying`, `Replied`, `Ending` and `Reaping` say what is
true of MM's locals between any two of its kernel calls; `Parents`, `ZombiesUnawaited` and `ToldChildStays` are the
parts of `FamilySound` in the form that holds *inside* MM's requests too, with
`Dying` for the process whose children MM is handing to INIT.
There is then no circle of senders, hence no panic: a program sends only to the
server it calls, a server only to programs that wait for it or to MM when MM
listens, and MM only to programs that wait for it or to FS, which never sends to an
MM that is sending. `WaitTellsTruth` is proved of each step that writes into a
caller's message: MM's answer, delivered at once or left in the queue until the
caller comes for it - `Reaping` holds the child's slot and status until then. That
this status is the child's own is `EndsInv`: whoever has ended (or is ending, while MM
is at it) has in the table what it gave to exit(), or -1 if it was killed
(`Recorded`). It is a second invariant, because a fork must clear the history of a
slot and a kill of a zombie changes it, whatever else `LifeInv` knows.

TLC checked these invariants before they were proved, but for `KbInv`, which says
that there is a sequence of readings, on the instances of section 3, Terminal also with two programs on one terminal (228 724 states),
`LifeInv` and `EndsInv` with two slots, once with kills and calls of FS (129 854 states),
once with calls of SYS (63 102), `StepsInv` with three processes, nested and not
(228 056), `ShInv`, `DlInv` and `LogTyped` with the parts of *units* (66 349, 1 016 and
56 213), `DiskInv` and `PartsInv` with *disk* (42 499),
`ScrInv` also with two characters and four backspaces (481 340).

**Only model-checked.**

* Liveness, which this prover cannot do: `WaitReturns`,
  `InitGoesOnReaping`, `KeysRead`, `ReadReturns`, `WriteReturns`,
  `RequestsServed`, `ReadyRuns`.
* `EntryFoundAgain`, `ServersGoOn` and `NoLostWakeup` are false, as the runs *entry*,
  *killed_server* and *lost_wakeup* show.
* `UntarSound`: where the headers of an archive are is a RECURSIVE operator, and
  what untar has extracted is an induction over it.

## 5. Where the code and its comments disagree

* **lost_wakeup.** An interrupt between `has_int_msg` being tested
  (`kernel/proc.c:349`) and `p_recvfrom` being set (475) is latched for a task
  that then blocks for it. HD would wait for ever for a finished disk command.
* **killed_server.** A process killed while SYS works for it is not a free slot,
  so `can_reply` says yes and SYS blocks for ever. FS, LOG and MM-in-BOTH are
  exposed in the same way.
* **circle.** TTY tells FS to resume a reader while FS passes another program's
  request on to TTY: each sends to the other, and the kernel panics. Two shells on
  two terminals are enough.
* **entry.** Unlinking the last entry of the directory sets its size to the number
  of entries in use (`fs/link.c:204`). With a free entry before it, a live one
  then lies behind the end; `search_file` still finds it, `do_unlink` does not,
  and `assert(flg)` (203) stops FS.

Seen while modelling, and part of the models, without a run of their own:

* *IPC.* An interrupt between `msg_send` testing the receiver (267-269) and
  copying (273) ends the receiver's wait: the send "succeeds" and the message is
  nowhere, or an assertion fails. The assertion in `block()` fails when an
  interrupt arrives between 475 and 181, the one in line 370 when it arrives after 365
  (`AssertionsHold` is false with `nested`). `sys_sendrec` reads `proc_table[src_dest]`
  (75) before it knows that `src_dest` is not ANY or INTERRUPT; the models take the
  word read there as not FREE_SLOT.
* *Processes.* When programs both kill and call SYS, ordinary calls can stop the
  machine: the dead process of *killed_server* is reaped while SYS is still
  sending to its slot (`mm/forkexit.c:385`), `fork` gives the slot to a new process, and
  when that one calls SYS the two send to each other and `msg_send` panics. TLC
  finds it in 51 states with the constants of *killed_server*, EXIT and WAIT among
  the calls, and `NeverPanics` as the invariant of `LifeSpec`. `do_wait` counts freed slots whose `p_parent` is stale, so wait()
  without children blocks instead of failing (`mm/forkexit.c:402` promises an
  error). `fork()` promises -1 and asserts instead (`lib/fork.c:47`). Killing a
  zombie replaces its exit status by -1 (`mm/forkexit.c:344`), and `lib/wait.c:28`
  promises "the value returned from the child"; `WaitTellsTruth` counts it as killed.
* *Terminal.* When the backslash of an unrecognised escape takes the last place
  in the reader's buffer, the code that would resume the reader is skipped for
  ever (`kernel/tty.c:281-299`); so it is after a read of 0 characters (410). A
  second reader of a terminal overwrites the first (406-411). Keys already
  buffered after Alt+Fn go to the old console (`kernel/keyboard.c:131`); `key`
  keeps PAUSEBREAK or PRINTSCREEN for the rest of `keyboard_read` (178) and the
  right Alt key sets `alt_l` (217-219). `clear_screen` runs into the next console
  when the window was scrolled back at the last line (`kernel/console.c:134`).
* *Files.* A refused unlink leaks a reference (`fs/link.c:35`), and four full
  tables stop FS on a request of a program (`fs/open.c:66`, 74, 326;
  `fs/main.c:489`). A full inode map would not: `alloc_imap_bit` returns inside its
  loop (261), so the panic (265) cannot be reached and FS would go on with inode 0;
  the map has more bits than the device has room for files. The fifteenth file
  overlaps cmd.tar (section 3): `alloc_smap_bit` (281) skips the bits in use and the
  file's sectors are counted from the first one. Unlinking it frees bits of cmd.tar
  and not its own last ones; when cmd.tar or the next file there is unlinked in turn, an assertion of
  do_unlink (`fs/link.c:126`, 139, 150) stops FS.
* *Disk.* A request of more than 256 sectors (FS sends up to 2048,
  `fs/read_write.c:88`) is cut to the byte `cmd.count` (`kernel/hd.c:186`). The drive
  does what it was told, and HD waits for interrupts that never come, or polls for
  DRQ until it panics. `MAX_IO_BYTES` (`include/sys/hd.h:227`) is the limit; only
  disklog keeps it.
* *Scheduler.* `dump_fd_graph` restores all processes from its arrays `tcks` and
  `prio` (`fs/disklog.c:828`), also those forked since it filled them: these get
  words of the stack. With 0 there such a process, and whatever it forks, never runs
  again. `PrioritiesKept` and `EveryoneRuns` are about all others (`odd`).
* *Disk log.* The bits it reserves "so that other files cannot use the log
  sectors" (`fs/disklog.c:83`) are not those of its sectors (no `n_1st_sect - 1`),
  and its assertion (101) stops FS when a file has one of them. A file whose bits
  come before the reserved ones has sectors of the log, and what is written to it
  overwrites header and text. `pos` never comes
  back, so the log in the end runs past the device; the copy of the header covers
  the text in the last sector (189).
* *Commands.* exec of an empty file runs what MM's buffer last held
  (`mm/exec.c:59`); a file removed between the shell's open and exec's leaves a
  second shell on the terminal (`kernel/main.c:313`); the line "&" alone opens a
  null name (277).
* *Memory.* A request for more than the heap is answered from other processes'
  rows (`mm/main.c:184`), and free does not take it back; a row outlives its
  process (153).
* *Log.* The text is copied from the poster's stack when the poster may have gone
  on (`kernel/log.c:149`); answers begin at `ans[1]` (169) and logman prints from
  `ans[0]`.

## 6. Plan

Done: the kernel's IPC with its refinements and proofs; process life; terminals;
files; disk; scheduler, screen, keyboard, heap, log, shells, disk log, untar.

1. **Terminal**: MM killing a suspended reader, two readers of one terminal, and
   the abstract specification, a terminal as a queue of keys and at most one
   reader.
2. **Files**: the abstract specification "names to files" and the refinement.
3. **Sched** over Ipc: that a wake-up by a message reaches the scheduler.
4. **Proofs**: `UntarSound`, with the headers of an archive as a recursive
   function.

## 7. Not modelled, and why

* Boot loader, descriptors, page tables, PIC and register saving: hardware set-up
  that runs once, or copies between physical addresses. `alloc_mem` is a product
  of the slot number; nothing in it can go wrong that the slot does not show.
* `printf`, `vsprintf`, the banners, the drive's identification and the printed
  graph of descriptors (most of `fs/disklog.c`): wording and layout.
* GET_RTC_TIME and GET_PROCS fill a buffer; the keyboard's LEDs; `do_lseek`,
  which no message reaches; `milli_delay`, which is the loop of `waitfor`.
* The editor, cat, ls, ps and the three poc programs are clients whose requests
  are among those the models allow; ls and ps print. Scripts and build files.
* A crash that keeps the disk: `init_fs` makes a new file system at every boot, so
  nothing survives one.
