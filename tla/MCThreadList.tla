---------------------------- MODULE MCThreadList ----------------------------
(***************************************************************************)
(* ThreadList for TLC.                                                     *)
(***************************************************************************)
EXTENDS ThreadList, TLC

\* Threads are interchangeable: no definition singles one out.
Symmetry == Permutations(Threads)
=============================================================================
