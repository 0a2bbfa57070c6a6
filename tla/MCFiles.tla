------------------------------- MODULE MCFiles -------------------------------
(* A small disk.  Descriptors, inode slots, files and sectors run out.       *)
EXTENDS Files, TLC

CONSTANTS p1, p2, p3, a, b

Symmetry == Permutations(Procs)

\* A system that has stopped is one state.
View == IF failed = "no" THEN vars ELSE <<failed>>
=============================================================================
