----------------------------- MODULE MCIpcSteps -----------------------------
(* IpcSteps for TLC: MM, a driver task and a forked process. *)
EXTENDS IpcSteps
CONSTANTS mm, hd, u1, req
MCProcs3 == {mm, hd, u1}
MCNative == {mm, hd}
MCIntTasks == {hd}
MCBodies == {req}
=============================================================================
