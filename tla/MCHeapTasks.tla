---------------------------- MODULE MCHeapTasks ----------------------------
(* Instances of HeapTasks for TLC.                                          *)
EXTENDS HeapTasks, TLC

ThreadSymmetry == Permutations(Threads)
=============================================================================
