------------------------- MODULE MCEmptyCheckpoint -------------------------
(* Instances of EmptyCheckpoint for TLC.                                    *)
EXTENDS EmptyCheckpoint, TLC

MutatorSymmetry == Permutations(Mutators)
=============================================================================
