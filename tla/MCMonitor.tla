------------------------------ MODULE MCMonitor ------------------------------
(* Instances of Monitor for TLC.                                             *)
EXTENDS Monitor, TLC

\* Threads are interchangeable.
Symmetry == Permutations(Threads)
==============================================================================
