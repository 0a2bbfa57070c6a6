------------------------------- MODULE Sched ---------------------------------
(***************************************************************************)
(* Who runs (kernel/proc.c, schedule; kernel/clock.c, clock_handler), and   *)
(* how FS takes the processor away from the others while it writes its      *)
(* graph of descriptors to the disk (fs/disklog.c, dump_fd_graph): it sets  *)
(* ticks and priority of nearly every process to 0, has HD write, and puts  *)
(* them back one by one.  Before each it asks SYS for its pid, and those    *)
(* put back already run meanwhile.                                          *)
(*                                                                          *)
(* Why a process blocks is not modelled, except that FS waits for a Helper  *)
(* while it dumps, and that MM forks for a process that waits for it.  A    *)
(* process forked during a dump is restored from words of the stack that    *)
(* were never set; a negative one is as good as 0.                          *)
(***************************************************************************)
EXTENDS Naturals, FiniteSetsExt

CONSTANTS
    SchedProcs,            \* the slots of the process table
    Helpers,               \* TTY, SYS and HD
    Filer, Forker,         \* TASK_FS and TASK_MM
    FreeSlots,             \* the slots nobody has at first
    NoProc,
    TaskPrio, UserPrio,    \* 15 and 5
    MaxDumps, MaxForks     \* bounds: dumps and forks

Tasks == Helpers \cup {Filer, Forker}

ASSUME SchedAssumption ==
    /\ SchedProcs \subseteq Nat /\ NoProc \notin SchedProcs
    /\ Tasks \cup FreeSlots \subseteq SchedProcs /\ Tasks \cap FreeSlots = {}
    /\ Helpers # {} /\ Filer \notin Helpers /\ Forker \notin Helpers \cup {Filer}
    /\ \A t \in Tasks, p \in FreeSlots : t < p      \* native slots come first
    /\ {TaskPrio, UserPrio} \subseteq Nat \ {0}

VARIABLES
    pt,             \* proc_table: flags, ticks and priority of each slot
    p_proc_ready,   \* the process that runs
    idle,           \* schedule() loops in the kernel: nobody can run
    dump,           \* dump_fd_graph: its phase, whom FS waits for, the slot
                    \* it is about to restore, tcks and prio
    odd,            \* processes forked during a dump, and their descendants
    dumps, forks

schedVars == <<pt, p_proc_ready, idle, dump, odd, dumps, forks>>

NoDump  == [phase |-> "none", waits |-> NoProc, slot |-> NoProc, saved |-> <<>>]
FREE_SLOT == [flags |-> "free", ticks |-> 0, prio |-> 0]
PrioOf(p) == IF p \in Tasks THEN TaskPrio ELSE UserPrio

\* kernel_main: every native process is ready, the first one runs.
SchedInit ==
    /\ pt = [p \in SchedProcs |->
               IF p \in FreeSlots THEN FREE_SLOT
               ELSE [flags |-> "ready", ticks |-> PrioOf(p), prio |-> PrioOf(p)]]
    /\ p_proc_ready = Min(SchedProcs)
    /\ idle = FALSE
    /\ dump = NoDump
    /\ odd = {}
    /\ dumps = 0 /\ forks = 0

-----------------------------------------------------------------------------
(* schedule                                                                *)

ReadyIn(t)  == {p \in SchedProcs : t[p].flags = "ready"}
Refill(t) == [p \in SchedProcs |->
                IF p \in ReadyIn(t) THEN [t[p] EXCEPT !.ticks = t[p].prio] ELSE t[p]]

\* Those schedule may choose: the most ticks, and of these the first slot.
Greatest(t) == {p \in ReadyIn(t) : t[p].ticks > 0 /\ \A q \in ReadyIn(t) : t[q].ticks <= t[p].ticks}

\* (Bound by \E, the table and the choice are evaluated once.)
Chooses(t) ==
    \E best \in {Greatest(t)} :
        /\ pt' = t
        /\ idle' = (best = {})
        /\ p_proc_ready' = IF best = {} THEN p_proc_ready ELSE Min(best)

\* Mutant: the ticks are handed out anew at every call.
schedule_Refills(t) == \E full \in {Refill(t)} : Chooses(full)

schedule(t) ==
    \E table \in {t} : \E full \in {IF Greatest(table) = {} THEN Refill(table) ELSE table} :
        Chooses(full)

Runs(p) == ~ idle /\ p_proc_ready = p
Charged == [pt EXCEPT ![p_proc_ready].ticks = IF @ > 0 THEN @ - 1 ELSE 0]

Dumping(p) == p = Filer /\ dump.phase # "none"

\* FS runs with interrupts disabled while it stops the others (one step here)
\* and again while it puts them back; between, as it writes, it is preempted like
\* anybody else.
Masked(p) == Dumping(p) /\ dump.slot # NoProc

\* clock_handler, when it interrupts a process.
clock_handler(p) ==
    /\ Runs(p) /\ ~ Masked(p)
    /\ IF Charged[p].ticks > 0
       THEN pt' = Charged /\ UNCHANGED <<p_proc_ready, idle>>
       ELSE schedule(Charged)
    /\ UNCHANGED <<dump, odd, dumps, forks>>

\* clock_handler, when it interrupts the kernel, schedule() included.
ClockInKernel ==
    /\ pt[p_proc_ready].ticks > 0
    /\ pt' = Charged
    /\ UNCHANGED <<p_proc_ready, idle, dump, odd, dumps, forks>>

\* A process blocks in a send or a receive.
block(p) ==
    /\ Runs(p) /\ p # Filer
    /\ schedule([pt EXCEPT ![p].flags = "blocked"])
    /\ UNCHANGED <<dump, odd, dumps, forks>>

Woken(t, q) == [t EXCEPT ![q].flags = "ready"]

\* unblock, by the process that runs.
unblock(q) ==
    /\ ~ idle /\ ~ Dumping(p_proc_ready)
    /\ pt[q].flags = "blocked" /\ ~ Dumping(q)
    /\ pt' = Woken(pt, q)
    /\ UNCHANGED <<p_proc_ready, idle, dump, odd, dumps, forks>>

\* inform_int by a key or by the disk; the loop of schedule() ends.
interrupt(h) ==
    /\ pt[h].flags = "blocked"
    /\ IF idle THEN schedule(Woken(pt, h))
               ELSE pt' = Woken(pt, h) /\ UNCHANGED <<p_proc_ready, idle>>
    /\ UNCHANGED <<dump, odd, dumps, forks>>

\* do_fork: the child starts as a copy of its parent.
do_fork(parent, child) ==
    /\ Runs(Forker) /\ forks < MaxForks
    /\ forks' = forks + 1
    /\ pt[parent].flags = "blocked" /\ pt[child].flags = "free"
    /\ pt' = [pt EXCEPT ![child] = pt[parent]]
    /\ odd' = IF dump.phase # "none" \/ parent \in odd THEN odd \cup {child} ELSE odd
    /\ UNCHANGED <<p_proc_ready, idle, dump, dumps>>

\* cleanup: a process is gone.  What its slot still holds is of no use:
\* do_fork overwrites it.
cleanup(q) ==
    /\ Runs(Forker)
    /\ pt[q].flags # "free"
    /\ pt' = [pt EXCEPT ![q] = FREE_SLOT]
    /\ odd' = odd \ {q}
    /\ UNCHANGED <<p_proc_ready, idle, dump, dumps, forks>>

-----------------------------------------------------------------------------
(* dump_fd_graph                                                           *)

\* The processes it stops, and those it puts back: all but these.
Spared == Helpers \cup {Filer}
Frozen == {p \in SchedProcs \ Spared : pt[p].flags # "free"}

FSBlocks ==
    /\ Runs(Filer) /\ dump.phase = "none"
    /\ schedule([pt EXCEPT ![Filer].flags = "blocked"])
    /\ UNCHANGED <<dump, odd, dumps, forks>>

Freeze ==
    /\ Runs(Filer) /\ dump.phase = "none" /\ dumps < MaxDumps
    /\ dumps' = dumps + 1
    /\ dump' = [NoDump EXCEPT !.phase = "writes",
                              !.saved = [p \in Frozen |-> [ticks |-> pt[p].ticks, prio |-> pt[p].prio]]]
    /\ pt' = [p \in SchedProcs |-> IF p \in Frozen THEN [pt[p] EXCEPT !.ticks = 0, !.prio = 0] ELSE pt[p]]
    /\ UNCHANGED <<p_proc_ready, idle, odd, forks>>

\* FS sends a request to h and waits for the answer: one stands for all that
\* write the graph.
Asking(t, h) == [Woken(t, h) EXCEPT ![Filer].flags = "blocked"]

Logs(h) ==
    /\ Runs(Filer) /\ dump.phase = "writes"
    /\ schedule(Asking(pt, h))
    /\ dump' = [dump EXCEPT !.phase = "restores", !.waits = h]
    /\ UNCHANGED <<odd, dumps, forks>>

Replies(h) ==
    /\ Runs(h) /\ dump.waits = h
    /\ pt' = Woken(pt, Filer)
    /\ dump' = [dump EXCEPT !.waits = NoProc]
    /\ UNCHANGED <<p_proc_ready, idle, odd, dumps, forks>>

\* Mutant: the loop does not come to the last slot.
Left_ButLast(t) ==
    {p \in SchedProcs \ Helpers : p # Max(SchedProcs) /\ t[p].flags # "free"
                                  /\ (dump.slot = NoProc \/ p > dump.slot)}

\* The slots the loop has still to come to; for each it first calls getpid().
Left(t) == {p \in SchedProcs \ Helpers : t[p].flags # "free" /\ (dump.slot = NoProc \/ p > dump.slot)}

GoesOn(t) ==
    IF Left(t) = {}
    THEN pt' = t /\ dump' = NoDump /\ UNCHANGED <<p_proc_ready, idle>>
    ELSE \E sys \in Helpers :
             /\ schedule(Asking(t, sys))
             /\ dump' = [dump EXCEPT !.slot = Min(Left(t)), !.waits = sys]

\* tcks and prio of a slot that was free are not set.
SavedOf(p) ==
    IF p \in DOMAIN dump.saved THEN {dump.saved[p]} ELSE [ticks : {0, UserPrio}, prio : {0, UserPrio}]

Restores ==
    /\ Runs(Filer) /\ dump.phase = "restores"
    /\ IF dump.slot \in {NoProc, Filer} THEN GoesOn(pt)
       ELSE \E s \in SavedOf(dump.slot) :
                GoesOn([pt EXCEPT ![dump.slot].ticks = s.ticks, ![dump.slot].prio = s.prio])
    /\ UNCHANGED <<odd, dumps, forks>>

-----------------------------------------------------------------------------
SchedNext ==
    \/ \E p \in SchedProcs : clock_handler(p)
    \/ ClockInKernel
    \/ \E p \in SchedProcs : block(p)
    \/ \E q \in SchedProcs : unblock(q)
    \/ \E h \in Helpers : interrupt(h)
    \/ \E parent \in SchedProcs \ Tasks, child \in FreeSlots : do_fork(parent, child)
    \/ \E q \in FreeSlots : cleanup(q)
    \/ FSBlocks
    \/ Freeze
    \/ \E h \in Helpers : Logs(h)
    \/ \E h \in Helpers : Replies(h)
    \/ Restores

(***************************************************************************)
(* The clock strikes sooner or later whatever runs; the disk answers HD,    *)
(* HD and SYS answer FS when they run, and FS goes on with its dump when it *)
(* runs.                                                                    *)
(***************************************************************************)
DumpGoesOn ==
    (\E h \in Helpers : Logs(h)) \/ (\E h \in Helpers : Replies(h)) \/ Restores

SchedFair ==
    /\ WF_schedVars(\E p \in SchedProcs : clock_handler(p))
    /\ \A h \in Helpers : WF_schedVars(interrupt(h))
    /\ SF_schedVars(DumpGoesOn)

SchedSpec == SchedInit /\ [][SchedNext]_schedVars /\ SchedFair

-----------------------------------------------------------------------------
(* Properties                                                              *)

\* After a dump everybody has his priority again: what dump_fd_graph stops it
\* restores, whatever ran, forked or ended in between.  Not those forked
\* meanwhile: nothing was saved for them.
PrioritiesKept ==
    \A p \in SchedProcs \ odd :
        dump.phase = "none" /\ pt[p].flags # "free" => pt[p].prio = PrioOf(p)

\* A process that is ready comes to run, or its slot is freed: others that
\* block and wake, fork and end, and a dump of FS, delay it only so long.  Not so
\* one that was forked during a dump, or descends from one that was: if the words
\* it is restored from are 0 or less, it has no ticks and gets none, ever.
EveryoneRuns ==
    \A p \in SchedProcs :
        pt[p].flags = "ready" ~> Runs(p) \/ pt[p].flags # "ready" \/ p \in odd
=============================================================================
