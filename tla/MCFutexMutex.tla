---------------------------- MODULE MCFutexMutex ----------------------------
(***************************************************************************)
(* FutexMutex for TLC.                                                     *)
(***************************************************************************)
EXTENDS FutexMutex, TLC

\* Threads are interchangeable: no definition singles one out.
Symmetry == Permutations(Threads)
=============================================================================
