----------------------------- MODULE SharedLock -----------------------------
(***************************************************************************)
(* What a lock promises: one thread has it exclusively or several share    *)
(* it.  The abstract specification of art::ReaderWriterMutex.              *)
(***************************************************************************)
EXTENDS FiniteSets

CONSTANTS
  Threads,   \* the threads that use the lock
  NoThread   \* nobody

VARIABLES
  writer,    \* the thread that has the lock exclusively
  readers    \* the threads that share it

lock == <<writer, readers>>

Init == writer = NoThread /\ readers = {}

AcquireExclusive(t) ==
  /\ writer = NoThread /\ readers = {}
  /\ writer' = t
  /\ UNCHANGED readers

ReleaseExclusive(t) ==
  /\ writer = t
  /\ writer' = NoThread
  /\ UNCHANGED readers

AcquireShared(t) ==
  /\ writer = NoThread
  /\ t \notin readers
  /\ readers' = readers \cup {t}
  /\ UNCHANGED writer

ReleaseShared(t) ==
  /\ t \in readers
  /\ readers' = readers \ {t}
  /\ UNCHANGED writer

Next ==
  \E t \in Threads :
    \/ AcquireExclusive(t) \/ ReleaseExclusive(t)
    \/ AcquireShared(t) \/ ReleaseShared(t)

Spec == Init /\ [][Next]_lock
=============================================================================
