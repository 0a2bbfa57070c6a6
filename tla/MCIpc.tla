------------------------------- MODULE MCIpc -------------------------------
(* Ipc for TLC: MM, a driver task and two forked processes. *)
EXTENDS Ipc
CONSTANTS mm, hd, u1, u2, req
MCProcs  == {mm, hd, u1, u2}
MCNative == {mm, hd}
MCIntTasks == {hd}
MCBodies == {req}
\* The two forked processes are interchangeable.
Symm     == Permutations({u1, u2})
=============================================================================
