------------------------------- MODULE MCUnits --------------------------------
(***************************************************************************)
(* The parts that share no state, each with its instance, side by side: a  *)
(* behaviour is one of a part, the others keep their initial state.         *)
(***************************************************************************)
EXTENDS Screen, Keyboard, Heap, Log, Sched, Shell, DiskLog, Untar

VARIABLE unit    \* the part whose behaviour this is

-----------------------------------------------------------------------------
unitVars == <<unit, scrVars, kbVars, heapVars, logVars, schedVars, shVars, dlVars, utVars>>

MCInit ==
    /\ unit \in {"screen", "keyboard", "heap", "log", "sched", "shell", "disklog", "untar"}
    /\ ScrInit /\ KbInit /\ HeapInit /\ LogInit /\ SchedInit
    /\ ShInit /\ DlInit /\ UtInit
    /\ unit # "untar" => archive = <<>>

InScreen ==
    /\ unit = "screen" /\ ScrNext
    /\ UNCHANGED <<unit, kbVars, heapVars, logVars, schedVars, shVars, dlVars, utVars>>
InKeyboard ==
    /\ unit = "keyboard" /\ KbNext
    /\ UNCHANGED <<unit, scrVars, heapVars, logVars, schedVars, shVars, dlVars, utVars>>
InHeap ==
    /\ unit = "heap" /\ HeapNext
    /\ UNCHANGED <<unit, scrVars, kbVars, logVars, schedVars, shVars, dlVars, utVars>>
InLog ==
    /\ unit = "log" /\ LogNext
    /\ UNCHANGED <<unit, scrVars, kbVars, heapVars, schedVars, shVars, dlVars, utVars>>
InSched ==
    /\ unit = "sched" /\ SchedNext
    /\ UNCHANGED <<unit, scrVars, kbVars, heapVars, logVars, shVars, dlVars, utVars>>
InShell ==
    /\ unit = "shell" /\ ShNext
    /\ UNCHANGED <<unit, scrVars, kbVars, heapVars, logVars, schedVars, dlVars, utVars>>
InDiskLog ==
    /\ unit = "disklog" /\ DlNext
    /\ UNCHANGED <<unit, scrVars, kbVars, heapVars, logVars, schedVars, shVars, utVars>>
InUntar ==
    /\ unit = "untar" /\ UtNext
    /\ UNCHANGED <<unit, scrVars, kbVars, heapVars, logVars, schedVars, shVars, dlVars>>

MCNext ==
    \/ InScreen \/ InKeyboard \/ InHeap \/ InLog \/ InSched
    \/ InShell \/ InDiskLog \/ InUntar

MCSpec == /\ MCInit /\ [][MCNext]_unitVars
          /\ unit = "sched" => SchedFair

\* What is typed at a shell, and what INIT finds in cmd.tar.
MCLines    == {<<" ", "c", " ", "&">>, <<"r", " ", "c">>, <<"t", " ", " ", "c", " ">>}
MCArchives == {<<>>} \cup [1..1 -> 0..9] \cup [1..2 -> 0..9]

\* EveryoneRuns (kernel/proc.c, schedule), of the behaviours of the scheduler:
\* in the others its processes stand still.
ReadyRuns == unit = "sched" => EveryoneRuns
=============================================================================
