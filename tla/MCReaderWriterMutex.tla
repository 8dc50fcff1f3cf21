------------------------ MODULE MCReaderWriterMutex ------------------------
(* Instances of ReaderWriterMutex for TLC.                                  *)
EXTENDS ReaderWriterMutex, TLC

ThreadSymmetry == Permutations(Threads)
=============================================================================
