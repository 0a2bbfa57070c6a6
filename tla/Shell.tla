------------------------------- MODULE Shell ---------------------------------
(***************************************************************************)
(* INIT and the shells it starts (kernel/main.c, Init, shabby_shell): a     *)
(* line becomes a command, in the foreground (fork, wait) or, with a last   *)
(* word "&", in the background (the child forks again and exits, so that    *)
(* INIT inherits the command).  The command is run by execv (lib/exec.c)    *)
(* and do_exec (mm/exec.c).  Everybody may remove, create or kill what the  *)
(* others are about to use.                                                 *)
(*                                                                          *)
(* fork, exit, wait and kill are what ProcLife shows of them to callers     *)
(* that are not killed while a server answers them.  MM serves one call at  *)
(* a time; only exec leaves FS to the others meanwhile.  Descriptors are    *)
(* modelled in Files, what terminals do in Terminal.  The line "&" alone,   *)
(* for which open() is given no name, is not typed.                         *)
(***************************************************************************)
EXTENDS Naturals, FiniteSets, SequencesExt

CONSTANTS
    InitPid, ShPids,   \* INIT and the slots for forked processes
    Shells,            \* how many INIT starts, NR_CONSOLES - 1 in the code
    ShLines,           \* what is typed: sequences of characters
    ShPrograms,        \* the programs of cmd.tar, by name
    RM, TOUCH,         \* the names of two of them
    NoPid, NUL,
    PTR,               \* size of a pointer
    ArgStacks,         \* where arg_stack may lie in the caller
    OrigStack,         \* PROC_IMAGE_SIZE_DEFAULT - PROC_ORIGIN_STACK
    MaxKilled          \* bound: how many are killed

ASSUME ShellAssumption ==
    /\ InitPid \notin ShPids /\ NoPid \notin ShPids \cup {InitPid}
    /\ ShPids \subseteq Nat /\ Shells \in Nat /\ MaxKilled \in Nat
    /\ {RM, TOUCH} \subseteq ShPrograms
    /\ PTR \in Nat \ {0} /\ ArgStacks \cup {OrigStack} \subseteq Nat
    /\ \A line \in ShLines : line \in Seq(ToSet(line)) /\ NUL \notin ToSet(line)

VARIABLES
    sh,        \* the processes
    files,     \* what each name stands for: a program, "empty" or "none"
    mmbuf,     \* MM's buffer holds the program it read last
    started,   \* how many shells INIT has started
    killed

shVars == <<sh, files, mmbuf, started, killed>>

ShProcs == ShPids \cup {InitPid}

-----------------------------------------------------------------------------
(* The line and the arguments                                              *)

IsStart(line, i) == line[i] # " " /\ (i > 1 => line[i - 1] = " ")
WordFrom(line, i) ==
    LET ends == {j \in i..Len(line) : \A k \in i..j : line[k] # " "}
    IN  SubSeq(line, i, Max(ends))

\* argv of a line, "&" included: a word for each start, the n-th for the one
\* that has n - 1 before it.
WordStarts(line) == {i \in 1..Len(line) : IsStart(line, i)}
StartsBefore(line, i) == Cardinality({j \in WordStarts(line) : j < i})
WordsOf(line) ==
    [n \in 1..Cardinality(WordStarts(line)) |->
        WordFrom(line, CHOOSE i \in WordStarts(line) : StartsBefore(line, i) = n - 1)]

Background(words) == words # <<>> /\ Last(words) = <<"&">>
ArgvOf(words)     == IF Background(words) THEN Front(words) ELSE words

\* execv: the pointers, a null pointer, and the strings behind them.
Strings(argv) == FlattenSeq([k \in 1..Len(argv) |-> argv[k] \o <<NUL>>])
TextAt(n)     == PTR * (n + 1)
ArgStack(argv, at) ==
    [ptrs |-> [k \in 1..Len(argv) |->
                 at + TextAt(Len(argv)) + Len(Strings(SubSeq(argv, 1, k - 1)))],
     text |-> Strings(argv)]

\* do_exec: the pointers of a stack that lay at from.
Relocated(stack, from) == [k \in DOMAIN stack.ptrs |-> stack.ptrs[k] + OrigStack - from]

\* What the new program finds where a pointer of its argv points to.
StringAt(text, i) ==
    IF i \notin 1..Len(text) THEN <<>>
    ELSE SubSeq(text, i, Min({j \in i..Len(text) : text[j] = NUL}) - 1)
Arrived(argv, from) ==
    LET stack == ArgStack(argv, from)
        ptrs  == Relocated(stack, from)
    IN  [k \in DOMAIN ptrs |->
           StringAt(stack.text, ptrs[k] + 1 - (OrigStack + TextAt(Len(ptrs))))]

-----------------------------------------------------------------------------
(* Processes                                                               *)

FreeSh == [pc |-> "free", parent |-> NoPid, words |-> <<>>, child |-> NoPid,
           got |-> NoPid, argv |-> <<>>, image |-> "none", stray |-> FALSE]

ShInit ==
    /\ sh = [p \in ShProcs |-> IF p = InitPid THEN [FreeSh EXCEPT !.pc = "starts"] ELSE FreeSh]
    /\ files = [f \in {<<c>> : c \in ShPrograms} |-> f[1]]
    /\ mmbuf = "none"
    /\ started = 0 /\ killed = 0

At(p, pc)    == sh[p].pc = pc
MMFree       == \A p \in ShProcs : ~ At(p, "loads")
FreePids     == {p \in ShPids : At(p, "free")}
ChildrenOf(t, p) == {q \in ShPids : t[q].parent = p}

\* fork(): the child is a copy that goes on elsewhere.  Without a free slot
\* the caller loops in a failed assertion (lib/fork.c).
Forks(p, next, there) ==
    /\ MMFree
    /\ IF FreePids = {} THEN sh' = [sh EXCEPT ![p].pc = "spins"]
       ELSE \E c \in {Min(FreePids)} :
              sh' = [sh EXCEPT ![c] = [sh[p] EXCEPT !.pc = there, !.parent = p,
                                                    !.child = NoPid, !.got = NoPid],
                               ![p].pc = next, ![p].child = c, ![p].got = NoPid]
    /\ UNCHANGED <<files, mmbuf, killed>>

\* cleanup(): c's parent returns from wait.  A slot keeps p_parent.
Tells(t, c) ==
    [t EXCEPT ![t[c].parent].pc = IF t[c].parent = InitPid THEN "waits" ELSE "prompt",
              ![t[c].parent].got = c,
              ![c] = [FreeSh EXCEPT !.parent = t[c].parent]]

\* do_process_exit(): the parent is told or will be, INIT inherits.
Gone(t, p) ==
    IF t[t[p].parent].pc = "waiting" THEN Tells(t, p)
    ELSE [t EXCEPT ![p] = [FreeSh EXCEPT !.pc = "zombie", !.parent = t[p].parent]]
Inherits(t, p) == [q \in ShProcs |-> IF t[q].parent = p THEN [t[q] EXCEPT !.parent = InitPid] ELSE t[q]]
Exits(p) ==
    /\ MMFree
    /\ \E t \in {Inherits(Gone(sh, p), p)} :
       \E dead \in {{q \in ChildrenOf(t, InitPid) : q \in ChildrenOf(sh, p) /\ t[q].pc = "zombie"}} :
           sh' = IF dead # {} /\ t[InitPid].pc = "waiting" THEN Tells(t, Min(dead)) ELSE t

\* wait()
Waits(p) ==
    /\ At(p, "waits") /\ MMFree
    /\ LET dead == {q \in ChildrenOf(sh, p) : At(q, "zombie")}
       IN  sh' = IF dead # {} THEN Tells(sh, Min(dead))
                 ELSE IF ChildrenOf(sh, p) # {} THEN [sh EXCEPT ![p].pc = "waiting"]
                 ELSE IF p = InitPid THEN sh
                 ELSE [sh EXCEPT ![p].pc = "prompt"]
    /\ UNCHANGED <<files, mmbuf, started, killed>>

-----------------------------------------------------------------------------
(* INIT and the shells                                                     *)

\* Init(): a shell for each terminal, then it reaps.
InitForks ==
    /\ At(InitPid, "starts") /\ started < Shells
    /\ Forks(InitPid, IF started + 1 < Shells THEN "starts" ELSE "waits", "prompt")
    /\ started' = started + 1

\* read() and the words; a line without any is ignored.
Reads(p, line) ==
    /\ At(p, "prompt") /\ p # InitPid
    /\ WordsOf(line) # <<>>
    /\ sh' = [sh EXCEPT ![p].pc = "opens", ![p].words = WordsOf(line),
                          ![p].child = NoPid, ![p].got = NoPid]
    /\ UNCHANGED <<files, mmbuf, started, killed>>

Exists(f) == f \in DOMAIN files /\ files[f] # "none"
Command(p) == ArgvOf(sh[p].words)

Opens(p) ==
    /\ At(p, "opens")
    /\ sh' = [sh EXCEPT ![p].pc = IF Exists(Command(p)[1]) THEN "forks" ELSE "prompt"]
    /\ UNCHANGED <<files, mmbuf, started, killed>>

\* What the child of a shell does: a background command is left to a child
\* of its own.
Doubles(p) == Background(sh[p].words)

\* Mutant: a shell does not wait for the child of a background command.
ShellForks_Goes(p) ==
    /\ At(p, "forks")
    /\ IF Doubles(p) THEN Forks(p, "prompt", "doubles") ELSE Forks(p, "waits", "execs")
    /\ UNCHANGED started

ShellForks(p) ==
    /\ At(p, "forks")
    /\ Forks(p, "waits", IF Doubles(p) THEN "doubles" ELSE "execs")
    /\ UNCHANGED started

ChildForks(p)  == At(p, "doubles") /\ Forks(p, "leaves", "execs") /\ UNCHANGED started
ChildLeaves(p) == At(p, "leaves") /\ Exits(p) /\ UNCHANGED <<files, mmbuf, started, killed>>

\* execv returns -1: a background child tries it again, then the child of a
\* shell is one more shell.
ExecFails(p) ==
    sh' = IF Background(sh[p].words) THEN [sh EXCEPT ![p].words = Front(@), ![p].pc = "execs"]
          ELSE [sh EXCEPT ![p].pc = "prompt", ![p].stray = TRUE]

\* do_exec() up to stat(); from there to open() FS serves others.
ExecStats(p) ==
    /\ At(p, "execs") /\ MMFree
    /\ IF Exists(Command(p)[1]) THEN sh' = [sh EXCEPT ![p].pc = "loads"] ELSE ExecFails(p)
    /\ UNCHANGED <<files, mmbuf, started, killed>>

\* The rest of it.  Nothing of an empty file is read, and what MM read for
\* the last exec is run.
Read(f) == IF files[f] = "empty" THEN mmbuf ELSE files[f]
ExecLoads(p) ==
    /\ At(p, "loads")
    /\ IF ~ Exists(Command(p)[1]) THEN ExecFails(p) /\ UNCHANGED mmbuf
       ELSE \E from \in ArgStacks :
              /\ mmbuf' = Read(Command(p)[1])
              /\ sh' = [sh EXCEPT ![p].pc = "runs", ![p].image = mmbuf',
                                  ![p].argv = Arrived(Command(p), from)]
    /\ UNCHANGED <<files, started, killed>>

\* The programs: what rm and touch do with their argument, and their end.
Names(p, f) == Len(sh[p].argv) > 1 /\ sh[p].argv[2] = f
Removes(p, f) ==
    /\ At(p, "runs") /\ sh[p].image = RM /\ Names(p, f)
    /\ files' = [files EXCEPT ![f] = "none"]
    /\ UNCHANGED <<sh, mmbuf, started, killed>>
Touches(p, f) ==
    /\ At(p, "runs") /\ sh[p].image = TOUCH /\ Names(p, f) /\ ~ Exists(f)
    /\ files' = [files EXCEPT ![f] = "empty"]
    /\ UNCHANGED <<sh, mmbuf, started, killed>>
ProgramEnds(p) == At(p, "runs") /\ Exits(p) /\ UNCHANGED <<files, mmbuf, started, killed>>

\* kill, of anybody but INIT, by a program.
Kills(p, q) ==
    /\ At(p, "runs") /\ p # q /\ killed < MaxKilled
    /\ sh[q].pc \notin {"free", "zombie"}
    /\ killed' = killed + 1
    /\ Exits(q)
    /\ UNCHANGED <<files, mmbuf, started>>

ShNext ==
    \/ InitForks
    \/ Waits(InitPid)
    \/ \E p \in ShPids : Waits(p)
    \/ \E p \in ShPids, line \in ShLines : Reads(p, line)
    \/ \E p \in ShPids : Opens(p)
    \/ \E p \in ShPids : ShellForks(p)
    \/ \E p \in ShPids : ChildForks(p)
    \/ \E p \in ShPids : ChildLeaves(p)
    \/ \E p \in ShPids : ExecStats(p)
    \/ \E p \in ShPids : ExecLoads(p)
    \/ \E p \in ShPids, f \in DOMAIN files : Removes(p, f)
    \/ \E p \in ShPids, f \in DOMAIN files : Touches(p, f)
    \/ \E p \in ShPids : ProgramEnds(p)
    \/ \E p, q \in ShPids : Kills(p, q)

ShSpec == ShInit /\ [][ShNext]_shVars

-----------------------------------------------------------------------------
(* Properties                                                              *)

Alive(p) == sh[p].pc \notin {"free", "zombie"}

\* A shell that asks for a line has nobody left to wait for: its command in
\* the foreground has ended, one in the background is INIT's.
PromptMeansDone == \A p, q \in ShPids : At(p, "prompt") /\ sh[q].parent = p => At(q, "free")

\* wait() gives a shell the child it has forked for this command, no other.
OwnChild == \A p \in ShPids : Alive(p) => sh[p].got \in {NoPid, sh[p].child}

\* No two read lines from one terminal, but for what execv has made of a
\* child that found its file gone.
NoStrangers == \A p \in ShPids : At(p, "prompt") /\ ~ sh[p].stray => sh[p].parent = InitPid

\* A program finds in its argv the words that were typed, wherever execv had
\* put them and do_exec moved them to.
ArgsArrive == \A p \in ShPids : At(p, "runs") => sh[p].argv = Command(p)

ShellSound == PromptMeansDone /\ OwnChild /\ NoStrangers /\ ArgsArrive
=============================================================================
