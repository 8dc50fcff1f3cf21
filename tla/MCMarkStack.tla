----------------------------- MODULE MCMarkStack -----------------------------
(* Small instances of MarkStack.                                           *)
EXTENDS MarkStack, TLC

\* The objects are interchangeable.
Symmetry == Permutations(Objects)
=============================================================================
