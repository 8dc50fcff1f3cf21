----------------------- MODULE ReaderWriterMutexProofs -----------------------
(***************************************************************************)
(* Proofs about ReaderWriterMutex, for any finite set of threads: it       *)
(* implements SharedLock, its owner and its pending counts are exact, and  *)
(* no wakeup is lost.                                                      *)
(***************************************************************************)
EXTENDS ReaderWriterMutex, FiniteSetTheorems, TLAPS

-----------------------------------------------------------------------------
(* The inductive invariant                                                 *)

\* state_ says who has the mutex: one writer, or as many readers as it counts.
HeldExact ==
  /\ \A u, v \in Writers : u = v
  /\ Writers # {} <=> state = -1
  /\ state = -1 => Readers = {}
  /\ state >= 0 => state = Cardinality(Readers)

\* exclusive_owner_ is set exactly while a writer is between its two accesses.
OwnerSet == \A t \in Threads : exclusiveOwner = t <=> pc[t] = "held" /\ mode[t] = "exclusive"

\* Only a writer is between the two.
WriterMode == \A t \in Threads : pc[t] \in {"setOwner", "unlock"} => mode[t] = "exclusive"

\* The futex queue holds the sleeping threads.
SleepersAsleep == \A t \in Threads : t \in sleepers <=> pc[t] = "asleep"

\* A thread is prepared to sleep only on a value of state_ that keeps it out.
ExpectedTaken ==
  \A t \in Threads : pc[t] \in {"increment", "futexWait"} =>
    expected[t] = -1 \/ (expected[t] > 0 /\ mode[t] = "exclusive")

IInv ==
  /\ TypeOK
  /\ HeldExact
  /\ OwnerSet
  /\ WriterMode
  /\ SleepersAsleep
  /\ ExpectedTaken
  /\ PendingExact
  /\ NoLostWakeup

-----------------------------------------------------------------------------
(* Counting                                                                *)

\* Readers and pending threads can be counted.
LEMMA CountType ==
  ASSUME NEW S \in SUBSET Threads
  PROVE  IsFiniteSet(S) /\ Cardinality(S) \in Nat
  BY ThreadsAssumption, FS_Subset, FS_CardinalityType

\* A reader more, or a pending thread more, adds one.
LEMMA CountAdd ==
  ASSUME NEW S \in SUBSET Threads, NEW t \in Threads, t \notin S
  PROVE  Cardinality(S \cup {t}) = Cardinality(S) + 1
  BY CountType, FS_AddElement

\* One that leaves takes one away.
LEMMA CountRemove ==
  ASSUME NEW S \in SUBSET Threads, NEW t \in S
  PROVE  Cardinality(S \ {t}) = Cardinality(S) - 1 /\ Cardinality(S) > 0
  <1>1. IsFiniteSet(S) /\ Cardinality(S) \in Nat
    BY CountType
  <1>2. Cardinality(S \ {t}) = Cardinality(S) - 1
    BY <1>1, FS_RemoveElement, Zenon
  <1>3. Cardinality(S \ {t}) \in Nat
    BY CountType
  <1> QED
    BY <1>1, <1>2, <1>3

\* A count of zero means that nobody is counted.
LEMMA CountZero ==
  ASSUME NEW S \in SUBSET Threads, Cardinality(S) = 0
  PROVE  S = {}
  BY CountType, FS_EmptySet

-----------------------------------------------------------------------------
(* What a step does to the holders of the mutex                            *)

\* A writer takes the mutex, or returns it; a reader does.
TakenByWriter ==
  \E t \in Threads : /\ state = 0 /\ state' = -1
                     /\ Writers' = Writers \cup {t} /\ Readers' = Readers
TakenByReader ==
  \E t \in Threads : /\ state >= 0 /\ state' = state + 1
                     /\ t \notin Readers
                     /\ Readers' = Readers \cup {t} /\ Writers' = Writers
ReturnedByWriter ==
  \E t \in Writers : state' = 0 /\ Writers' = Writers \ {t} /\ Readers' = Readers
ReturnedByReader ==
  \E t \in Readers : /\ state' = state - 1
                     /\ Readers' = Readers \ {t} /\ Writers' = Writers
HoldersKept == state' = state /\ Writers' = Writers /\ Readers' = Readers

Holders == HoldersKept \/ TakenByWriter \/ TakenByReader \/ ReturnedByWriter \/ ReturnedByReader

\* Whatever a thread does in SharedLock, ExclusiveLock and the unlocks, state_
\* and the holders of the mutex change together.
LEMMA HoldersStep ==
  ASSUME TypeOK, SleepersAsleep, WriterMode,
         NEW t \in Threads, Progress(t) \/ Call(t) \/ Interrupt(t)
  PROVE  Holders
  <1> USE DEF Goto, Labels, Modes, words, calls, TypeOK, Writers, Readers
  <1>1. CASE Acquire(t)
    <2>1. CASE mode[t] = "shared"
      <3>1. TakenByReader
        BY <1>1, <2>1 DEF Acquire, Take, Admits, TakenByReader
      <3> QED
        BY <3>1 DEF Holders
    <2>2. CASE mode[t] = "exclusive"
      <3>1. TakenByWriter
        BY <1>1, <2>2 DEF Acquire, Take, Admits, TakenByWriter
      <3> QED
        BY <3>1 DEF Holders
    <2> QED
      BY <2>1, <2>2
  <1>2. CASE SharedTryLock(t)
    <2>1. TakenByReader
      BY <1>2 DEF SharedTryLock, Take, Admits, TakenByReader
    <2> QED
      BY <2>1 DEF Holders
  <1>3. CASE ExclusiveUnlock(t)
    <2>1. ReturnedByWriter
      BY <1>3 DEF ExclusiveUnlock, ReturnedByWriter
    <2> QED
      BY <2>1 DEF Holders
  <1>4. CASE SharedUnlock(t)
    <2>1. ReturnedByReader
      BY <1>4 DEF SharedUnlock, ReturnedByReader
    <2> QED
      BY <2>1 DEF Holders
  <1>5. CASE SetOwner(t) \/ ClearOwner(t)
    <2>1. HoldersKept
      BY <1>5 DEF SetOwner, ClearOwner, HoldersKept, WriterMode
    <2> QED
      BY <2>1 DEF Holders
  <1>8. ASSUME NEW m \in Modes, NEW b \in BOOLEAN, Lock(t, m, b) PROVE Holders
    <2>1. HoldersKept
      BY <1>8 DEF Lock, HoldersKept
    <2> QED
      BY <2>1 DEF Holders
  <1>6. CASE Contend(t) \/ TimedOut(t) \/ IncrementPending(t) \/ FutexWait(t) \/ DecrementPending(t)
    <2>1. HoldersKept
      BY <1>6 DEF Contend, TimedOut, IncrementPending, FutexWait, DecrementPending, HoldersKept
    <2> QED
      BY <2>1 DEF Holders
  <1>7. CASE \/ Look(t) \/ LookAgain(t) \/ WakeAll(t)
             \/ \E label \in {"decrement", "giveUp"} : WakeEarly(t, label)
    <2>1. HoldersKept
      BY <1>7 DEF Look, LookAgain, WakeAll, WakeEarly, HoldersKept, SleepersAsleep
    <2> QED
      BY <2>1 DEF Holders
  <1> QED
    BY <1>1, <1>2, <1>3, <1>4, <1>5, <1>6, <1>7, <1>8 DEF Progress, Call, Interrupt

\* state_ goes on saying who has the mutex.
LEMMA HeldExactStep ==
  ASSUME TypeOK, HeldExact, Holders
  PROVE  HeldExact'
  <1>0. Readers \subseteq Threads /\ Cardinality(Readers) \in Nat /\ state \in Int
    BY CountType DEF Readers, TypeOK
  <1>1. CASE HoldersKept
    BY <1>1 DEF HoldersKept, HeldExact
  <1>2. CASE TakenByWriter
    <2>1. Readers = {} /\ Writers = {}
      BY <1>0, <1>2, CountZero DEF TakenByWriter, HeldExact
    <2> QED
      BY <1>2, <2>1 DEF TakenByWriter, HeldExact
  <1>3. CASE TakenByReader
    <2>1. PICK t \in Threads : /\ state >= 0 /\ state' = state + 1 /\ t \notin Readers
                               /\ Readers' = Readers \cup {t} /\ Writers' = Writers
      BY <1>3 DEF TakenByReader
    <2>2. Cardinality(Readers') = Cardinality(Readers) + 1
      BY <1>0, <2>1, CountAdd
    <2> QED
      BY <1>0, <2>1, <2>2 DEF HeldExact
  <1>4. CASE ReturnedByWriter
    <2>1. Readers' = {} /\ Writers' = {} /\ state' = 0
      BY <1>4 DEF ReturnedByWriter, HeldExact
    <2> QED
      BY <2>1, FS_EmptySet DEF HeldExact
  <1>5. CASE ReturnedByReader
    <2>1. PICK t \in Readers : /\ state' = state - 1
                               /\ Readers' = Readers \ {t} /\ Writers' = Writers
      BY <1>5 DEF ReturnedByReader
    <2>2. Cardinality(Readers') = Cardinality(Readers) - 1 /\ Cardinality(Readers) > 0
      BY <1>0, <2>1, CountRemove
    <2>3. state >= 0
      BY <1>0, <2>1 DEF HeldExact, TypeOK
    <2> QED
      BY <1>0, <2>1, <2>2, <2>3 DEF HeldExact
  <1> QED
    BY <1>1, <1>2, <1>3, <1>4, <1>5 DEF Holders

-----------------------------------------------------------------------------
(* What a step does to the pending threads                                 *)

\* A thread becomes pending and is counted, or is no longer either.
PendingKept == \A m \in Modes : Pending(m)' = Pending(m) /\ pending'[m] = pending[m]
PendingMore ==
  \E t \in Threads, k \in Modes :
    /\ t \notin Pending(k) /\ Pending(k)' = Pending(k) \cup {t} /\ pending'[k] = pending[k] + 1
    /\ \A m \in Modes \ {k} : Pending(m)' = Pending(m) /\ pending'[m] = pending[m]
PendingLess ==
  \E k \in Modes : \E t \in Pending(k) :
    /\ Pending(k)' = Pending(k) \ {t} /\ pending'[k] = pending[k] - 1
    /\ \A m \in Modes \ {k} : Pending(m)' = Pending(m) /\ pending'[m] = pending[m]

\* num_pending_readers_ and num_pending_writers_ change with the threads they count.
LEMMA PendingStep ==
  ASSUME TypeOK, SleepersAsleep, NEW t \in Threads, Progress(t) \/ Call(t) \/ Interrupt(t)
  PROVE  PendingKept \/ PendingMore \/ PendingLess
  <1> USE DEF Goto, Labels, Modes, words, calls, TypeOK, Pending
  <1>1. CASE Acquire(t) \/ SharedTryLock(t)
    BY <1>1 DEF Acquire, SharedTryLock, Take, PendingKept
  <1>2. CASE ExclusiveUnlock(t) \/ SharedUnlock(t) \/ SetOwner(t) \/ ClearOwner(t)
    BY <1>2 DEF ExclusiveUnlock, SharedUnlock, SetOwner, ClearOwner, PendingKept
  <1>3. ASSUME NEW m \in Modes, NEW b \in BOOLEAN, Lock(t, m, b) PROVE PendingKept
    BY <1>3 DEF Lock, PendingKept
  <1>4. CASE Contend(t) \/ TimedOut(t) \/ Look(t) \/ LookAgain(t)
    BY <1>4 DEF Contend, TimedOut, Look, LookAgain, PendingKept
  <1>5. CASE FutexWait(t) \/ \E label \in {"decrement", "giveUp"} : WakeEarly(t, label)
    BY <1>5 DEF FutexWait, WakeEarly, PendingKept
  <1>6. CASE WakeAll(t)
    BY <1>6 DEF WakeAll, PendingKept, SleepersAsleep
  <1>7. CASE IncrementPending(t)
    BY <1>7 DEF IncrementPending, PendingMore
  <1>8. CASE DecrementPending(t)
    BY <1>8 DEF DecrementPending, PendingLess
  <1> QED
    BY <1>1, <1>2, <1>3, <1>4, <1>5, <1>6, <1>7, <1>8 DEF Progress, Call, Interrupt

\* The pending counts stay exact, and so do not fall below zero.
LEMMA PendingExactStep ==
  ASSUME TypeOK, PendingExact, PendingKept \/ PendingMore \/ PendingLess
  PROVE  PendingExact' /\ \A m \in Modes : pending'[m] \in Nat
  <1>0. \A m \in Modes : Pending(m) \subseteq Threads /\ Pending(m)' \subseteq Threads
    BY DEF Pending
  <1>1. \A m \in Modes : pending'[m] = Cardinality(Pending(m)')
    <2>1. CASE PendingKept
      BY <2>1 DEF PendingKept, PendingExact
    <2>2. CASE PendingMore
      <3>1. PICK t \in Threads, k \in Modes :
              /\ t \notin Pending(k) /\ Pending(k)' = Pending(k) \cup {t}
              /\ pending'[k] = pending[k] + 1
              /\ \A m \in Modes \ {k} : Pending(m)' = Pending(m) /\ pending'[m] = pending[m]
        BY <2>2 DEF PendingMore
      <3>2. Cardinality(Pending(k)') = Cardinality(Pending(k)) + 1
        BY <1>0, <3>1, CountAdd
      <3> QED
        BY <3>1, <3>2, Zenon DEF PendingExact
    <2>3. CASE PendingLess
      <3>1. PICK k \in Modes : \E t \in Pending(k) :
              /\ Pending(k)' = Pending(k) \ {t} /\ pending'[k] = pending[k] - 1
              /\ \A m \in Modes \ {k} : Pending(m)' = Pending(m) /\ pending'[m] = pending[m]
        BY <2>3 DEF PendingLess
      <3>2. Cardinality(Pending(k)') = Cardinality(Pending(k)) - 1
        BY <1>0, <3>1, CountRemove
      <3> QED
        BY <3>1, <3>2, Zenon DEF PendingExact
    <2> QED
      BY <2>1, <2>2, <2>3
  <1>2. \A m \in Modes : Cardinality(Pending(m)') \in Nat
    BY <1>0, CountType
  <1> QED
    BY <1>1, <1>2 DEF PendingExact

-----------------------------------------------------------------------------
(* What a step does to the rest of the invariant                           *)

\* The words and labels keep their types.
LEMMA TypeStep ==
  ASSUME TypeOK, HeldExact, \A m \in Modes : pending'[m] \in Nat,
         NEW t \in Threads, Progress(t) \/ Call(t) \/ Interrupt(t)
  PROVE  TypeOK'
  <1> USE DEF Goto, Labels, Modes, words, calls, TypeOK
  <1>1. CASE Acquire(t) \/ SharedTryLock(t)
    BY <1>1 DEF Acquire, SharedTryLock, Take, Admits
  <1>2. CASE SharedUnlock(t)
    <2>1. t \in Readers
      BY <1>2 DEF SharedUnlock, Readers
    <2>2. state >= 0
      BY <2>1 DEF HeldExact
    <2> QED
      BY <1>2, <2>2 DEF SharedUnlock
  <1>3. CASE ExclusiveUnlock(t) \/ SetOwner(t) \/ ClearOwner(t)
    BY <1>3 DEF ExclusiveUnlock, SetOwner, ClearOwner
  <1>4. ASSUME NEW m \in Modes, NEW b \in BOOLEAN, Lock(t, m, b) PROVE TypeOK'
    BY <1>4 DEF Lock
  <1>5. CASE Contend(t) \/ TimedOut(t) \/ Look(t) \/ LookAgain(t) \/ FutexWait(t)
    BY <1>5 DEF Contend, TimedOut, Look, LookAgain, FutexWait
  <1>6. CASE WakeAll(t) \/ \E label \in {"decrement", "giveUp"} : WakeEarly(t, label)
    BY <1>6 DEF WakeAll, WakeEarly
  <1>7. CASE IncrementPending(t) \/ DecrementPending(t)
    BY <1>7, SMTT(60) DEF IncrementPending, DecrementPending
  <1> QED
    BY <1>1, <1>2, <1>3, <1>4, <1>5, <1>6, <1>7 DEF Progress, Call, Interrupt

\* exclusive_owner_ is written by the one writer only.
LEMMA OwnerStep ==
  ASSUME TypeOK, HeldExact, OwnerSet, WriterMode, SleepersAsleep,
         NEW t \in Threads, Progress(t) \/ Call(t) \/ Interrupt(t)
  PROVE  OwnerSet' /\ WriterMode'
  <1> USE ThreadsAssumption DEF Goto, Labels, Modes, words, calls, TypeOK, OwnerSet, WriterMode
  <1>1. CASE Acquire(t) \/ SharedTryLock(t)
    BY <1>1 DEF Acquire, SharedTryLock, Take
  <1>2. CASE SetOwner(t)
    BY <1>2 DEF SetOwner, HeldExact, Writers
  <1>3. CASE ClearOwner(t)
    BY <1>3 DEF ClearOwner
  <1>4. CASE ExclusiveUnlock(t) \/ SharedUnlock(t)
    BY <1>4 DEF ExclusiveUnlock, SharedUnlock
  <1>5. ASSUME NEW m \in Modes, NEW b \in BOOLEAN, Lock(t, m, b) PROVE OwnerSet' /\ WriterMode'
    BY <1>5 DEF Lock
  <1>6. CASE Contend(t) \/ TimedOut(t) \/ Look(t) \/ LookAgain(t) \/ FutexWait(t)
    BY <1>6 DEF Contend, TimedOut, Look, LookAgain, FutexWait
  <1>7. CASE WakeAll(t) \/ \E label \in {"decrement", "giveUp"} : WakeEarly(t, label)
    BY <1>7 DEF WakeAll, WakeEarly, SleepersAsleep
  <1>8. CASE IncrementPending(t) \/ DecrementPending(t)
    BY <1>8, SMTT(60) DEF IncrementPending, DecrementPending
  <1> QED
    BY <1>1, <1>2, <1>3, <1>4, <1>5, <1>6, <1>7, <1>8 DEF Progress, Call, Interrupt

\* Threads sleep in the futex queue, on a value that keeps them out.
LEMMA SleepStep ==
  ASSUME TypeOK, SleepersAsleep, ExpectedTaken,
         NEW t \in Threads, Progress(t) \/ Call(t) \/ Interrupt(t)
  PROVE  SleepersAsleep' /\ ExpectedTaken'
  <1> USE DEF Goto, Labels, Modes, words, calls, TypeOK, SleepersAsleep, ExpectedTaken
  <1>1. CASE Acquire(t) \/ SharedTryLock(t)
    BY <1>1 DEF Acquire, SharedTryLock, Take
  <1>2. CASE SetOwner(t) \/ ClearOwner(t) \/ ExclusiveUnlock(t) \/ SharedUnlock(t)
    BY <1>2 DEF SetOwner, ClearOwner, ExclusiveUnlock, SharedUnlock
  <1>3. ASSUME NEW m \in Modes, NEW b \in BOOLEAN, Lock(t, m, b)
        PROVE  SleepersAsleep' /\ ExpectedTaken'
    BY <1>3 DEF Lock
  <1>4. CASE Contend(t)
    BY <1>4 DEF Contend, Admits
  <1>5. CASE TimedOut(t) \/ Look(t) \/ LookAgain(t)
    BY <1>5 DEF TimedOut, Look, LookAgain
  <1>6. CASE FutexWait(t)
    BY <1>6 DEF FutexWait
  <1>7. CASE WakeAll(t) \/ \E label \in {"decrement", "giveUp"} : WakeEarly(t, label)
    BY <1>7 DEF WakeAll, WakeEarly
  <1>8. CASE IncrementPending(t) \/ DecrementPending(t)
    BY <1>8 DEF IncrementPending, DecrementPending
  <1> QED
    BY <1>1, <1>2, <1>3, <1>4, <1>5, <1>6, <1>7, <1>8 DEF Progress, Call, Interrupt

\* A sleeper that the mutex keeps out, and a thread that is going to wake it.
KeptOut(s) == state = -1 \/ (state > 0 /\ mode[s] = "exclusive")
Wakes(u, s) == pc[u] \in {"look", "wake"} \/ (pc[u] = "lookAgain" /\ mode[u] = mode[s])

\* A thread that sleeps is among the pending ones of its kind, so their count is
\* not zero when an unlock reads it.
LEMMA SleeperCounted ==
  ASSUME TypeOK, SleepersAsleep, PendingExact, NEW s \in sleepers
  PROVE  pending[mode[s]] > 0
  <1>1. s \in Threads /\ mode[s] \in Modes /\ s \in Pending(mode[s])
    BY DEF TypeOK, SleepersAsleep, Pending
  <1>2. Pending(mode[s]) \subseteq Threads
    BY DEF Pending
  <1>3. Cardinality(Pending(mode[s])) > 0
    BY <1>1, <1>2, CountRemove, Zenon
  <1> QED
    BY <1>1, <1>3 DEF PendingExact

\* No step leaves a sleeper without a thread that will wake it.
LEMMA WakeupStep ==
  ASSUME IInv, NEW t \in Threads, Progress(t) \/ Call(t) \/ Interrupt(t),
         NEW s \in sleepers'
  PROVE  KeptOut(s)' \/ \E u \in Threads : Wakes(u, s)'
  <1> USE DEF Goto, Labels, Modes, words, calls, TypeOK, KeptOut, Wakes
  <1>0. /\ TypeOK /\ SleepersAsleep /\ ExpectedTaken /\ PendingExact /\ HeldExact
        /\ s \in sleepers => s \in Threads /\ pc[s] = "asleep"
        /\ s \in sleepers => KeptOut(s) \/ \E u \in Threads : Wakes(u, s)
    BY DEF IInv, SleepersAsleep, NoLostWakeup
  <1>1. CASE Acquire(t) \/ SharedTryLock(t)
    BY <1>0, <1>1 DEF Acquire, SharedTryLock, Take, Admits
  <1>2. CASE SetOwner(t) \/ ClearOwner(t)
    BY <1>0, <1>2 DEF SetOwner, ClearOwner
  <1>3. ASSUME NEW m \in Modes, NEW b \in BOOLEAN, Lock(t, m, b)
        PROVE  KeptOut(s)' \/ \E u \in Threads : Wakes(u, s)'
    BY <1>0, <1>3 DEF Lock
  <1>4. CASE Contend(t) \/ TimedOut(t) \/ IncrementPending(t) \/ DecrementPending(t)
    BY <1>0, <1>4 DEF Contend, TimedOut, IncrementPending, DecrementPending
  <1>5. CASE FutexWait(t)
    BY <1>0, <1>5, SMTT(60) DEF FutexWait, ExpectedTaken
  <1>6. CASE WakeAll(t)
    BY <1>6 DEF WakeAll
  <1>7. CASE \E label \in {"decrement", "giveUp"} : WakeEarly(t, label)
    BY <1>0, <1>7 DEF WakeEarly
  <1>8. CASE ExclusiveUnlock(t)
    BY <1>0, <1>8 DEF ExclusiveUnlock
  <1>9. CASE SharedUnlock(t)
    <2>1. t \in Readers
      BY <1>9 DEF SharedUnlock, Readers
    <2>2. state > 0
      <3>1. state >= 0 /\ state = Cardinality(Readers)
        BY <1>0, <2>1 DEF HeldExact
      <3>2. Readers \subseteq Threads
        BY DEF Readers
      <3> QED
        BY <2>1, <3>1, <3>2, CountRemove, Zenon
    <2> QED
      BY <1>0, <1>9, <2>2 DEF SharedUnlock
  <1>10. CASE Look(t)
    <2>1. s \in sleepers /\ pending[mode[s]] > 0
      BY <1>0, <1>10, SleeperCounted DEF Look
    <2> QED
      BY <1>0, <1>10, <2>1 DEF Look
  <1>11. CASE LookAgain(t)
    <2>1. s \in sleepers /\ pending[mode[s]] > 0
      BY <1>0, <1>11, SleeperCounted DEF LookAgain
    <2> QED
      BY <1>0, <1>11, <2>1 DEF LookAgain
  <1> QED
    BY <1>1, <1>2, <1>3, <1>4, <1>5, <1>6, <1>7, <1>8, <1>9, <1>10, <1>11
       DEF Progress, Call, Interrupt

-----------------------------------------------------------------------------
(* Induction                                                               *)

\* A freshly constructed ReaderWriterMutex satisfies the invariant.
LEMMA InitInv == Init => IInv
  <1> SUFFICES ASSUME Init PROVE IInv
    OBVIOUS
  <1>1. Writers = {} /\ Readers = {} /\ \A m \in Modes : Pending(m) = {}
    BY DEF Init, Writers, Readers, Pending
  <1>2. HeldExact /\ PendingExact
    BY <1>1, FS_EmptySet DEF Init, HeldExact, PendingExact, Modes
  <1> QED
    BY <1>2, ThreadsAssumption DEF Init, IInv, TypeOK, OwnerSet, WriterMode, SleepersAsleep,
       ExpectedTaken, NoLostWakeup, Labels, Modes

\* Every step of every thread keeps it.
LEMMA NextInv == IInv /\ [Next]_vars => IInv'
  <1> SUFFICES ASSUME IInv, [Next]_vars PROVE IInv'
    OBVIOUS
  <1>1. ASSUME NEW t \in Threads, Progress(t) \/ Call(t) \/ Interrupt(t) PROVE IInv'
    <2>1. HeldExact'
      BY <1>1, HoldersStep, HeldExactStep DEF IInv
    <2>2. PendingExact' /\ \A m \in Modes : pending'[m] \in Nat
      BY <1>1, PendingStep, PendingExactStep DEF IInv
    <2>3. TypeOK'
      BY <1>1, <2>2, TypeStep DEF IInv
    <2>4. OwnerSet' /\ WriterMode'
      BY <1>1, OwnerStep DEF IInv
    <2>5. SleepersAsleep' /\ ExpectedTaken'
      BY <1>1, SleepStep DEF IInv
    <2>6. NoLostWakeup'
      BY <1>1, WakeupStep DEF NoLostWakeup, KeptOut, Wakes
    <2> QED
      BY <2>1, <2>2, <2>3, <2>4, <2>5, <2>6 DEF IInv
  <1>2. CASE UNCHANGED vars
    BY <1>2 DEF vars, words, calls, IInv, TypeOK, HeldExact, OwnerSet, WriterMode, SleepersAsleep,
       ExpectedTaken, PendingExact, NoLostWakeup, Writers, Readers, Pending
  <1> QED
    BY <1>1, <1>2 DEF Next

\* The invariant holds in every state of every behaviour of the mutex.
THEOREM Invariance == Spec => []IInv
  BY InitInv, NextInv, PTL DEF Spec

-----------------------------------------------------------------------------
(* Theorems                                                                *)

\* The words of the mutex keep their types: state_ is never below -1 and the
\* pending counts never below zero, whichever unlock meets whichever timeout.
THEOREM TypeCorrect == Spec => []TypeOK
  <1>1. IInv => TypeOK
    BY DEF IInv
  <1> QED
    BY <1>1, Invariance, PTL

\* num_pending_readers_ and num_pending_writers_ count exactly the threads that
\* are between their increment and their decrement.
THEOREM PendingCountsAreExact == Spec => []PendingExact
  <1>1. IInv => PendingExact
    BY DEF IInv
  <1> QED
    BY <1>1, Invariance, PTL

\* exclusive_owner_ names the writer, and is clear for readers and for a writer
\* that has just taken the mutex.
THEOREM OwnerIsExact == Spec => []OwnerExact
  <1>1. IInv => OwnerExact
    BY ThreadsAssumption DEF IInv, OwnerExact, OwnerSet, HeldExact, Writers, Readers, TypeOK
  <1> QED
    BY <1>1, Invariance, PTL

\* No thread is left asleep beside a mutex that would admit it: some thread in
\* an unlock is still going to see its pending count or to wake it.
THEOREM NoWakeupIsLost == Spec => []NoLostWakeup
  <1>1. IInv => NoLostWakeup
    BY DEF IInv
  <1> QED
    BY <1>1, Invariance, PTL

\* ReaderWriterMutex implements SharedLock: its first state is the free lock,
\* and every step of a thread acquires or releases the lock as SharedLock
\* allows, or leaves it alone.
THEOREM MutexImplementsLock == Spec => ImplementsLock
  <1>1. Init => Lk!Init
    <2> SUFFICES ASSUME Init PROVE Lk!Init
      OBVIOUS
    <2>1. Writers = {} /\ Readers = {}
      BY DEF Init, Writers, Readers
    <2> QED
      BY <2>1 DEF Lk!Init
  <1>2. IInv /\ [Next]_vars => [Lk!Next]_(Lk!lock)
    <2> SUFFICES ASSUME IInv, [Next]_vars PROVE [Lk!Next]_(Lk!lock)
      OBVIOUS
    <2> USE DEF Lk!lock
    <2>0. Writers \subseteq Threads /\ Readers \subseteq Threads
      BY DEF Writers, Readers
    <2>1. Holders
      BY HoldersStep DEF Next, IInv, vars, words, calls, Holders, HoldersKept, Writers, Readers
    <2>2. CASE HoldersKept
      BY <2>2 DEF HoldersKept
    <2>3. CASE TakenByWriter
      BY <2>0, <2>3, CountZero DEF TakenByWriter, IInv, HeldExact, Lk!Next, Lk!AcquireExclusive
    <2>4. CASE TakenByReader
      BY <2>4 DEF TakenByReader, IInv, HeldExact, Lk!Next, Lk!AcquireShared
    <2>5. CASE ReturnedByWriter
      BY <2>0, <2>5 DEF ReturnedByWriter, IInv, HeldExact, Lk!Next, Lk!ReleaseExclusive
    <2>6. CASE ReturnedByReader
      BY <2>0, <2>6 DEF ReturnedByReader, IInv, HeldExact, Lk!Next, Lk!ReleaseShared
    <2> QED
      BY <2>1, <2>2, <2>3, <2>4, <2>5, <2>6 DEF Holders
  <1> QED
    BY <1>1, <1>2, Invariance, PTL DEF Spec, ImplementsLock, Lk!Spec
=============================================================================
