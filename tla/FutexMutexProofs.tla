--------------------------- MODULE FutexMutexProofs ---------------------------
(***************************************************************************)
(* Proofs about FutexMutex, for any set of threads: mutual exclusion, the  *)
(* owner, the contender count, the recursion count, and that neither a     *)
(* wakeup of the mutex nor a signal of the condition variable is lost.     *)
(***************************************************************************)
EXTENDS FutexMutex, FiniteSetTheorems, TLAPS

-----------------------------------------------------------------------------
(* The inductive invariant                                                 *)

\* A futex queue holds sleeping threads only, and a thread sleeps on one futex.
QueuesAsleep ==
  \A t \in Threads :
    /\ t \in mutexQ => pc[t] \in {"asleep", "condAsleep"} /\ t \notin condQ
    /\ t \in condQ => pc[t] = "condAsleep"

\* Where a thread inside ConditionVariable::Wait can be.
WaitLabels ==
  \A t \in Threads :
    /\ inWait[t] => pc[t] \notin {"idle", "held", "requeueOne", "requeueAll"}
    /\ pc[t] \in {"condFutexWait", "condAsleep", "waitExit"} => inWait[t]

\* recursion_count_ at each label of the holder, and what each thread has locked.
RecursionInv ==
  /\ \A t \in Threads :
       /\ pc[t] \in {"locked", "unlockCas"} => recursionCount = 0
       /\ pc[t] \in {"held", "requeueOne", "requeueAll"} =>
            /\ recursionCount = depth[t]
            /\ depth[t] > 0
            /\ ~Recursive => depth[t] = 1
       /\ inWait[t] =>
            /\ savedRecursion[t] = depth[t]
            /\ depth[t] > 0
            /\ ~Recursive => depth[t] = 1
       /\ ~inWait[t] /\ pc[t] \notin {"held", "requeueOne", "requeueAll"} => depth[t] = 0
  /\ (\A t \in Threads : pc[t] \notin Holding) => recursionCount = 0

\* The owner at each label of the holder.
OwnerInv ==
  /\ \A t \in Threads : exclusiveOwner = t <=> pc[t] \in Holding \ {"locked", "unlockCas"}

IInv ==
  /\ TypeOK
  /\ MutualExclusion
  /\ OwnerInv
  /\ QueuesAsleep
  /\ WaitLabels
  /\ RecursionInv
  /\ ContendersExact

\* The threads ExclusiveLock counts, and those Wait counts.
Contenders == {t \in Threads : pc[t] \in Contending}
Waiters == {t \in Threads : inWait[t]}

-----------------------------------------------------------------------------
(* Counting                                                                *)

\* The number of threads satisfying a condition is a natural number.
LEMMA CountType ==
  ASSUME NEW S \in SUBSET Threads
  PROVE  IsFiniteSet(S) /\ Cardinality(S) \in Nat
  BY ThreadsAssumption, FS_Subset, FS_CardinalityType

\* ... one more when a thread joins them ...
LEMMA CountAdd ==
  ASSUME NEW S \in SUBSET Threads, NEW t \in Threads, t \notin S
  PROVE  Cardinality(S \cup {t}) = Cardinality(S) + 1
  BY CountType, FS_AddElement

\* ... and one less when a thread leaves them.
LEMMA CountRemove ==
  ASSUME NEW S \in SUBSET Threads, NEW t \in S
  PROVE  Cardinality(S \ {t}) = Cardinality(S) - 1 /\ Cardinality(S) > 0
  <1>1. IsFiniteSet(S) /\ Cardinality(S) \in Nat
    BY CountType
  <1>2. Cardinality(S \ {t}) = Cardinality(S) - 1
    BY <1>1, FS_RemoveElement, Zenon
  <1>3. Cardinality(S \ {t}) \in Nat
    BY CountType
  <1> QED
    BY <1>1, <1>2, <1>3

-----------------------------------------------------------------------------
(* Induction                                                               *)

\* A freshly constructed Mutex and ConditionVariable satisfy the invariant.
LEMMA InitInv == Init => IInv
  <1> SUFFICES ASSUME Init PROVE IInv
    OBVIOUS
  <1>1. Contenders = {} /\ Waiters = {}
    BY DEF Init, Contenders, Waiters, Contending
  <1>2. ContendersExact
    BY <1>1, FS_EmptySet DEF Init, ContendersExact, Contenders, Waiters
  <1> QED
    BY <1>2, ThreadsAssumption, Zenon DEF Init, IInv, TypeOK, MutualExclusion, OwnerInv,
       QueuesAsleep,
       WaitLabels, RecursionInv, Holding, Labels

\* The parts of IInv that no counting is needed for.
ControlInv ==
  /\ MutualExclusion
  /\ OwnerInv
  /\ QueuesAsleep
  /\ WaitLabels
  /\ RecursionInv

\* A step that leaves both counters and the sets they count alone keeps them exact.
LEMMA CountsUnchanged ==
  ASSUME ContendersExact, Contenders' = Contenders, Waiters' = Waiters,
         UNCHANGED <<contenders, numWaiters>>
  PROVE  ContendersExact'
  BY SMTT(60) DEF ContendersExact, Contenders, Waiters

\* Every step of every call keeps the invariant: one case for each action.
LEMMA NextInv == IInv /\ [Next]_vars => IInv'
  <1> SUFFICES ASSUME IInv, [Next]_vars PROVE IInv'
    OBVIOUS
  <1> USE DEF Goto, Labels, Holding, lockVars, condVars, queues, waitVars
  <1>0. CASE UNCHANGED vars
    BY <1>0 DEF IInv, TypeOK, MutualExclusion, OwnerInv, QueuesAsleep, WaitLabels, RecursionInv,
       ContendersExact, vars
  <1>1. ASSUME NEW t \in Threads, Lock(t) PROVE IInv'
    <2>1. TypeOK'
      BY <1>1, RecursionAssumption DEF IInv, TypeOK, RecursionInv, Lock
    <2>2. ControlInv'
      BY <1>1, <2>1, ThreadsAssumption, RecursionAssumption DEF IInv, TypeOK, ControlInv,
         MutualExclusion, OwnerInv,
         QueuesAsleep, WaitLabels, RecursionInv, Lock
    <2>3. Contenders' = Contenders /\ Waiters' = Waiters /\ UNCHANGED <<contenders, numWaiters>>
      BY <1>1 DEF IInv, TypeOK, QueuesAsleep, Contenders, Waiters, Contending, Lock
    <2> QED
      BY <2>1, <2>2, <2>3, CountsUnchanged DEF IInv, ControlInv
  <1>2. ASSUME NEW t \in Threads, LockAgain(t) PROVE IInv'
    <2>1. TypeOK'
      BY <1>2, RecursionAssumption DEF IInv, TypeOK, RecursionInv, LockAgain
    <2>2. ControlInv'
      BY <1>2, <2>1, ThreadsAssumption, RecursionAssumption DEF IInv, TypeOK, ControlInv,
         MutualExclusion, OwnerInv,
         QueuesAsleep, WaitLabels, RecursionInv, LockAgain
    <2>3. Contenders' = Contenders /\ Waiters' = Waiters /\ UNCHANGED <<contenders, numWaiters>>
      BY <1>2 DEF IInv, TypeOK, QueuesAsleep, Contenders, Waiters, Contending, LockAgain
    <2> QED
      BY <2>1, <2>2, <2>3, CountsUnchanged DEF IInv, ControlInv
  <1>3. ASSUME NEW t \in Threads, AcquireCas(t) PROVE IInv'
    <2>1. TypeOK'
      BY <1>3, RecursionAssumption DEF IInv, TypeOK, RecursionInv, AcquireCas
    <2>2. ControlInv'
      BY <1>3, <2>1, ThreadsAssumption, RecursionAssumption DEF IInv, TypeOK, ControlInv,
         MutualExclusion, OwnerInv,
         QueuesAsleep, WaitLabels, RecursionInv, AcquireCas
    <2>3. Contenders' = Contenders /\ Waiters' = Waiters /\ UNCHANGED <<contenders, numWaiters>>
      BY <1>3 DEF IInv, TypeOK, QueuesAsleep, Contenders, Waiters, Contending, AcquireCas
    <2> QED
      BY <2>1, <2>2, <2>3, CountsUnchanged DEF IInv, ControlInv
  <1>4. ASSUME NEW t \in Threads, Contend(t) PROVE IInv'
    <2>1. TypeOK'
      BY <1>4, RecursionAssumption DEF IInv, TypeOK, RecursionInv, Contend
    <2>2. ControlInv'
      BY <1>4, <2>1, ThreadsAssumption, RecursionAssumption DEF IInv, TypeOK, ControlInv,
         MutualExclusion, OwnerInv,
         QueuesAsleep, WaitLabels, RecursionInv, Contend
    <2>3. Contenders' = Contenders /\ Waiters' = Waiters /\ UNCHANGED <<contenders, numWaiters>>
      BY <1>4 DEF IInv, TypeOK, QueuesAsleep, Contenders, Waiters, Contending, Contend
    <2> QED
      BY <2>1, <2>2, <2>3, CountsUnchanged DEF IInv, ControlInv
  <1>5. ASSUME NEW t \in Threads, FutexWait(t) PROVE IInv'
    <2>1. TypeOK'
      BY <1>5, RecursionAssumption DEF IInv, TypeOK, RecursionInv, FutexWait
    <2>2. ControlInv'
      BY <1>5, <2>1, ThreadsAssumption, RecursionAssumption DEF IInv, TypeOK, ControlInv,
         MutualExclusion, OwnerInv,
         QueuesAsleep, WaitLabels, RecursionInv, FutexWait
    <2>3. Contenders' = Contenders /\ Waiters' = Waiters /\ UNCHANGED <<contenders, numWaiters>>
      BY <1>5 DEF IInv, TypeOK, QueuesAsleep, Contenders, Waiters, Contending, FutexWait
    <2> QED
      BY <2>1, <2>2, <2>3, CountsUnchanged DEF IInv, ControlInv
  <1>6. ASSUME NEW t \in Threads, SetOwner(t) PROVE IInv'
    <2>1. TypeOK'
      BY <1>6, RecursionAssumption DEF IInv, TypeOK, RecursionInv, SetOwner
    <2>2. ControlInv'
      BY <1>6, <2>1, ThreadsAssumption, RecursionAssumption DEF IInv, TypeOK, ControlInv,
         MutualExclusion, OwnerInv,
         QueuesAsleep, WaitLabels, RecursionInv, SetOwner
    <2>3. Contenders' = Contenders /\ Waiters' = Waiters /\ UNCHANGED <<contenders, numWaiters>>
      BY <1>6 DEF IInv, TypeOK, QueuesAsleep, Contenders, Waiters, Contending, SetOwner
    <2> QED
      BY <2>1, <2>2, <2>3, CountsUnchanged DEF IInv, ControlInv
  <1>7. ASSUME NEW t \in Threads, TryLock(t) PROVE IInv'
    <2>1. TypeOK'
      BY <1>7, RecursionAssumption DEF IInv, TypeOK, RecursionInv, TryLock
    <2>2. ControlInv'
      BY <1>7, <2>1, ThreadsAssumption, RecursionAssumption DEF IInv, TypeOK, ControlInv,
         MutualExclusion, OwnerInv,
         QueuesAsleep, WaitLabels, RecursionInv, TryLock
    <2>3. Contenders' = Contenders /\ Waiters' = Waiters /\ UNCHANGED <<contenders, numWaiters>>
      BY <1>7 DEF IInv, TypeOK, QueuesAsleep, Contenders, Waiters, Contending, TryLock
    <2> QED
      BY <2>1, <2>2, <2>3, CountsUnchanged DEF IInv, ControlInv
  <1>8. ASSUME NEW t \in Threads, Unlock(t) PROVE IInv'
    <2>1. TypeOK'
      BY <1>8, RecursionAssumption DEF IInv, TypeOK, RecursionInv, Unlock
    <2>2. ControlInv'
      BY <1>8, <2>1, ThreadsAssumption, RecursionAssumption DEF IInv, TypeOK, ControlInv,
         MutualExclusion, OwnerInv,
         QueuesAsleep, WaitLabels, RecursionInv, Unlock
    <2>3. Contenders' = Contenders /\ Waiters' = Waiters /\ UNCHANGED <<contenders, numWaiters>>
      BY <1>8 DEF IInv, TypeOK, QueuesAsleep, Contenders, Waiters, Contending, Unlock
    <2> QED
      BY <2>1, <2>2, <2>3, CountsUnchanged DEF IInv, ControlInv
  <1>9. ASSUME NEW t \in Threads, UnlockCas(t) PROVE IInv'
    <2>1. TypeOK'
      BY <1>9, RecursionAssumption, Zenon DEF IInv, TypeOK, RecursionInv, UnlockCas, AfterUnlock
    <2>2. ControlInv'
      BY <1>9, <2>1, ThreadsAssumption, RecursionAssumption DEF IInv, TypeOK, ControlInv,
         MutualExclusion, OwnerInv,
         QueuesAsleep, WaitLabels, RecursionInv, UnlockCas, AfterUnlock
    <2>3. Contenders' = Contenders /\ Waiters' = Waiters /\ UNCHANGED <<contenders, numWaiters>>
      BY <1>9 DEF IInv, TypeOK, QueuesAsleep, Contenders, Waiters, Contending, UnlockCas,
         AfterUnlock
    <2> QED
      BY <2>1, <2>2, <2>3, CountsUnchanged DEF IInv, ControlInv
  <1>10. ASSUME NEW t \in Threads, FutexWakeOne(t) PROVE IInv'
    <2>1. TypeOK'
      BY <1>10, RecursionAssumption DEF IInv, TypeOK, RecursionInv, FutexWakeOne, AfterUnlock,
         AfterSleep
    <2>2. ControlInv'
      <3>1. /\ \A u \in Threads : pc[u] \in Holding <=> pc'[u] \in Holding
            /\ \A u \in Threads : pc[u] \in Holding => pc'[u] = pc[u]
        BY <1>10, <2>1 DEF IInv, TypeOK, QueuesAsleep, FutexWakeOne, AfterUnlock, AfterSleep
      <3>2. heldBit' = heldBit /\ exclusiveOwner' = exclusiveOwner
        BY <1>10 DEF FutexWakeOne
      <3>6. MutualExclusion'
        BY <3>1, <3>2 DEF IInv, MutualExclusion
      <3>7. OwnerInv'
        <4>1. ASSUME NEW u \in Threads
              PROVE  exclusiveOwner' = u <=> pc'[u] \in Holding \ {"locked", "unlockCas"}
          <5>1. exclusiveOwner = u <=> pc[u] \in Holding \ {"locked", "unlockCas"}
            BY DEF IInv, OwnerInv
          <5>2. CASE pc[u] \in Holding
            BY <3>1, <3>2, <5>1, <5>2
          <5>3. CASE pc[u] \notin Holding
            BY <3>1, <3>2, <5>1, <5>3
          <5> QED
            BY <5>2, <5>3
        <4> QED
          BY <4>1 DEF OwnerInv
      <3>3. QueuesAsleep'
        BY <1>10, <2>1 DEF IInv, TypeOK, QueuesAsleep, FutexWakeOne, AfterUnlock, AfterSleep
      <3>4. WaitLabels'
        BY <1>10, <2>1 DEF IInv, TypeOK, QueuesAsleep, WaitLabels, FutexWakeOne, AfterUnlock,
           AfterSleep
      <3>5. RecursionInv'
        BY <1>10, <3>1 DEF IInv, RecursionInv, FutexWakeOne
      <3> QED
        BY <3>3, <3>4, <3>5, <3>6, <3>7 DEF ControlInv
    <2>3. Contenders' = Contenders /\ Waiters' = Waiters /\ UNCHANGED <<contenders, numWaiters>>
      BY <1>10 DEF IInv, TypeOK, QueuesAsleep, Contenders, Waiters, Contending, FutexWakeOne,
         AfterUnlock, AfterSleep
    <2> QED
      BY <2>1, <2>2, <2>3, CountsUnchanged DEF IInv, ControlInv
  <1>11. ASSUME NEW t \in Threads, WakeEarly(t) PROVE IInv'
    <2>1. TypeOK'
      BY <1>11, RecursionAssumption DEF IInv, TypeOK, RecursionInv, WakeEarly, AfterSleep
    <2>2. ControlInv'
      BY <1>11, <2>1, ThreadsAssumption, RecursionAssumption DEF IInv, TypeOK, ControlInv,
         MutualExclusion, OwnerInv,
         QueuesAsleep, WaitLabels, RecursionInv, WakeEarly, AfterSleep
    <2>3. Contenders' = Contenders /\ Waiters' = Waiters /\ UNCHANGED <<contenders, numWaiters>>
      BY <1>11 DEF IInv, TypeOK, QueuesAsleep, Contenders, Waiters, Contending, WakeEarly,
         AfterSleep
    <2> QED
      BY <2>1, <2>2, <2>3, CountsUnchanged DEF IInv, ControlInv
  <1>12. ASSUME NEW t \in Threads, CondFutexWait(t) PROVE IInv'
    <2>1. TypeOK'
      BY <1>12, RecursionAssumption DEF IInv, TypeOK, RecursionInv, CondFutexWait
    <2>2. ControlInv'
      BY <1>12, <2>1, ThreadsAssumption, RecursionAssumption DEF IInv, TypeOK, ControlInv,
         MutualExclusion, OwnerInv,
         QueuesAsleep, WaitLabels, RecursionInv, CondFutexWait
    <2>3. Contenders' = Contenders /\ Waiters' = Waiters /\ UNCHANGED <<contenders, numWaiters>>
      BY <1>12 DEF IInv, TypeOK, QueuesAsleep, Contenders, Waiters, Contending, CondFutexWait
    <2> QED
      BY <2>1, <2>2, <2>3, CountsUnchanged DEF IInv, ControlInv
  <1>13. ASSUME NEW t \in Threads, Signal(t) PROVE IInv'
    <2>1. TypeOK'
      BY <1>13, RecursionAssumption DEF IInv, TypeOK, RecursionInv, Signal, BeginSignal
    <2>2. ControlInv'
      BY <1>13, <2>1, ThreadsAssumption, RecursionAssumption DEF IInv, TypeOK, ControlInv,
         MutualExclusion, OwnerInv,
         QueuesAsleep, WaitLabels, RecursionInv, Signal, BeginSignal
    <2>3. Contenders' = Contenders /\ Waiters' = Waiters /\ UNCHANGED <<contenders, numWaiters>>
      BY <1>13 DEF IInv, TypeOK, QueuesAsleep, Contenders, Waiters, Contending, Signal,
         BeginSignal
    <2> QED
      BY <2>1, <2>2, <2>3, CountsUnchanged DEF IInv, ControlInv
  <1>14. ASSUME NEW t \in Threads, Broadcast(t) PROVE IInv'
    <2>1. TypeOK'
      BY <1>14, RecursionAssumption DEF IInv, TypeOK, RecursionInv, Broadcast, BeginSignal
    <2>2. ControlInv'
      BY <1>14, <2>1, ThreadsAssumption, RecursionAssumption DEF IInv, TypeOK, ControlInv,
         MutualExclusion, OwnerInv,
         QueuesAsleep, WaitLabels, RecursionInv, Broadcast, BeginSignal
    <2>3. Contenders' = Contenders /\ Waiters' = Waiters /\ UNCHANGED <<contenders, numWaiters>>
      BY <1>14 DEF IInv, TypeOK, QueuesAsleep, Contenders, Waiters, Contending, Broadcast,
         BeginSignal
    <2> QED
      BY <2>1, <2>2, <2>3, CountsUnchanged DEF IInv, ControlInv
  <1>15. ASSUME NEW t \in Threads, Requeue(t) PROVE IInv'
    <2>1. TypeOK'
      BY <1>15, RecursionAssumption DEF IInv, TypeOK, RecursionInv, Requeue
    <2>2. ControlInv'
      BY <1>15, <2>1, ThreadsAssumption, RecursionAssumption DEF IInv, TypeOK, ControlInv,
         MutualExclusion, OwnerInv,
         QueuesAsleep, WaitLabels, RecursionInv, Requeue
    <2>3. Contenders' = Contenders /\ Waiters' = Waiters /\ UNCHANGED <<contenders, numWaiters>>
      BY <1>15 DEF IInv, TypeOK, QueuesAsleep, Contenders, Waiters, Contending, Requeue
    <2> QED
      BY <2>1, <2>2, <2>3, CountsUnchanged DEF IInv, ControlInv
  <1>16. ASSUME NEW t \in Threads, IncrementContenders(t) PROVE IInv'
    <2>1. /\ Contenders' = Contenders \cup {t} /\ Waiters' = Waiters
          /\ contenders' = contenders + 1 /\ numWaiters' = numWaiters
          /\ t \notin Contenders
      BY <1>16 DEF IInv, TypeOK, WaitLabels, Contenders, Waiters, Contending, IncrementContenders
    <2>2. Contenders \in SUBSET Threads /\ Waiters \in SUBSET Threads
      BY DEF Contenders, Waiters
    <2>3. /\ contenders = Cardinality(Contenders) + Cardinality(Waiters)
          /\ numWaiters = Cardinality(Waiters)
      BY DEF IInv, ContendersExact, Contenders, Waiters
    <2>4. /\ contenders' = Cardinality(Contenders') + Cardinality(Waiters')
          /\ numWaiters' = Cardinality(Waiters')
          /\ contenders' \in Nat /\ numWaiters' \in Nat
      BY <2>1, <2>2, <2>3, CountType, CountAdd
    <2>5. ContendersExact'
      BY <2>4 DEF ContendersExact, Contenders, Waiters
    <2>6. TypeOK'
      BY <1>16, <2>4 DEF IInv, TypeOK, RecursionInv, IncrementContenders
    <2>7. ControlInv'
      BY <1>16, <2>6, ThreadsAssumption DEF IInv, TypeOK, ControlInv, MutualExclusion, OwnerInv,
         QueuesAsleep, WaitLabels, RecursionInv, IncrementContenders
    <2> QED
      BY <2>5, <2>6, <2>7 DEF IInv, ControlInv
  <1>17. ASSUME NEW t \in Threads, DecrementContenders(t) PROVE IInv'
    <2>1. /\ Contenders' = Contenders \ {t} /\ Waiters' = Waiters
          /\ contenders' = contenders - 1 /\ numWaiters' = numWaiters
          /\ t \in Contenders
      BY <1>17 DEF IInv, TypeOK, WaitLabels, Contenders, Waiters, Contending, DecrementContenders
    <2>2. Contenders \in SUBSET Threads /\ Waiters \in SUBSET Threads
      BY DEF Contenders, Waiters
    <2>3. /\ contenders = Cardinality(Contenders) + Cardinality(Waiters)
          /\ numWaiters = Cardinality(Waiters)
      BY DEF IInv, ContendersExact, Contenders, Waiters
    <2>4. /\ contenders' = Cardinality(Contenders') + Cardinality(Waiters')
          /\ numWaiters' = Cardinality(Waiters')
          /\ contenders' \in Nat /\ numWaiters' \in Nat
      BY <2>1, <2>2, <2>3, CountType, CountRemove
    <2>5. ContendersExact'
      BY <2>4 DEF ContendersExact, Contenders, Waiters
    <2>6. TypeOK'
      BY <1>17, <2>4 DEF IInv, TypeOK, RecursionInv, DecrementContenders
    <2>7. ControlInv'
      BY <1>17, <2>6, ThreadsAssumption DEF IInv, TypeOK, ControlInv, MutualExclusion, OwnerInv,
         QueuesAsleep, WaitLabels, RecursionInv, DecrementContenders
    <2> QED
      BY <2>5, <2>6, <2>7 DEF IInv, ControlInv
  <1>18. ASSUME NEW t \in Threads, Wait(t) PROVE IInv'
    <2>1. /\ Contenders' = Contenders /\ Waiters' = Waiters \cup {t}
          /\ contenders' = contenders + 1 /\ numWaiters' = numWaiters + 1
          /\ t \notin Waiters
      BY <1>18 DEF IInv, TypeOK, WaitLabels, Contenders, Waiters, Contending, Wait
    <2>2. Contenders \in SUBSET Threads /\ Waiters \in SUBSET Threads
      BY DEF Contenders, Waiters
    <2>3. /\ contenders = Cardinality(Contenders) + Cardinality(Waiters)
          /\ numWaiters = Cardinality(Waiters)
      BY DEF IInv, ContendersExact, Contenders, Waiters
    <2>4. /\ contenders' = Cardinality(Contenders') + Cardinality(Waiters')
          /\ numWaiters' = Cardinality(Waiters')
          /\ contenders' \in Nat /\ numWaiters' \in Nat
      BY <2>1, <2>2, <2>3, CountType, CountAdd, SMTT(60)
    <2>5. ContendersExact'
      BY <2>4 DEF ContendersExact, Contenders, Waiters
    <2>6. TypeOK'
      BY <1>18, <2>4, SMTT(60) DEF IInv, TypeOK, RecursionInv, Wait
    <2>7. ControlInv'
      BY <1>18, <2>6, ThreadsAssumption DEF IInv, TypeOK, ControlInv, MutualExclusion, OwnerInv,
         QueuesAsleep, WaitLabels, RecursionInv, Wait
    <2> QED
      BY <2>5, <2>6, <2>7 DEF IInv, ControlInv
  <1>19. ASSUME NEW t \in Threads, WaitExit(t) PROVE IInv'
    <2>1. /\ Contenders' = Contenders /\ Waiters' = Waiters \ {t}
          /\ contenders' = contenders - 1 /\ numWaiters' = numWaiters - 1
          /\ t \in Waiters
      BY <1>19 DEF IInv, TypeOK, WaitLabels, Contenders, Waiters, Contending, WaitExit
    <2>2. Contenders \in SUBSET Threads /\ Waiters \in SUBSET Threads
      BY DEF Contenders, Waiters
    <2>3. /\ contenders = Cardinality(Contenders) + Cardinality(Waiters)
          /\ numWaiters = Cardinality(Waiters)
      BY DEF IInv, ContendersExact, Contenders, Waiters
    <2>4. /\ contenders' = Cardinality(Contenders') + Cardinality(Waiters')
          /\ numWaiters' = Cardinality(Waiters')
          /\ contenders' \in Nat /\ numWaiters' \in Nat
      <3>1. Cardinality(Waiters \ {t}) = Cardinality(Waiters) - 1 /\ Cardinality(Waiters) > 0
        BY <2>1, <2>2, CountRemove
      <3>2. Cardinality(Contenders) \in Nat /\ Cardinality(Waiters) \in Nat
        BY <2>2, CountType
      <3> QED
        BY <2>1, <2>3, <3>1, <3>2
    <2>5. ContendersExact'
      BY <2>4 DEF ContendersExact, Contenders, Waiters
    <2>6. TypeOK'
      BY <1>19, <2>4 DEF IInv, TypeOK, RecursionInv, WaitExit
    <2>7. ControlInv'
      BY <1>19, <2>6, ThreadsAssumption DEF IInv, TypeOK, ControlInv, MutualExclusion, OwnerInv,
         QueuesAsleep, WaitLabels, RecursionInv, WaitExit
    <2> QED
      BY <2>5, <2>6, <2>7 DEF IInv, ControlInv
  <1> QED
    BY <1>0, <1>1, <1>2, <1>3, <1>4, <1>5, <1>6, <1>7, <1>8, <1>9, <1>10, <1>11, <1>12, <1>13,
       <1>14, <1>15, <1>16, <1>17, <1>18, <1>19 DEF Next, Progress, Call

\* The inductive invariant holds in every behaviour of the mutex.
THEOREM Invariance == Spec => []IInv
  BY InitInv, NextInv, PTL DEF Spec

\* Type correctness: no counter of Mutex or ConditionVariable ever drops below
\* zero.
THEOREM TypeCorrect == Spec => []TypeOK
  <1>1. IInv => TypeOK
    BY DEF IInv
  <1> QED
    BY <1>1, Invariance, PTL

\* ExclusiveLock, ExclusiveTryLock, ExclusiveUnlock and Wait, over the
\* compare-and-sets on state_and_contenders_, give mutual exclusion.
THEOREM MutexIsExclusive == Spec => []MutualExclusion
  <1>1. IInv => MutualExclusion
    BY DEF IInv
  <1> QED
    BY <1>1, Invariance, PTL

\* exclusive_owner_ names the thread inside, and is clear when a new holder
\* looks at it.
THEOREM OwnerIsHolder == Spec => []OwnerConsistent
  <1>1. IInv => OwnerConsistent
    <2> SUFFICES ASSUME IInv PROVE OwnerConsistent
      OBVIOUS
    <2>1. ASSUME NEW t \in Threads, pc[t] = "locked" PROVE exclusiveOwner = NoThread
      BY <2>1 DEF IInv, TypeOK, OwnerInv, MutualExclusion, Holding
    <2> QED
      BY <2>1 DEF IInv, OwnerConsistent, OwnerInv, RecursionInv
  <1> QED
    BY <1>1, Invariance, PTL

\* The contender and waiter counts are exact for any number of threads.
THEOREM ContendersAreExact == Spec => []ContendersExact
  <1>1. IInv => ContendersExact
    BY DEF IInv
  <1> QED
    BY <1>1, Invariance, PTL

\* recursion_count_ matches the lock calls of its holder for any recursion depth.
THEOREM RecursionIsExact == Spec => []RecursionMatchesCalls
  <1>1. IInv => RecursionMatchesCalls
    BY DEF IInv, RecursionInv, WaitLabels, RecursionMatchesCalls
  <1> QED
    BY <1>1, Invariance, PTL
-----------------------------------------------------------------------------
(* Wakeups of the mutex                                                    *)

\* A thread asleep on the mutex is counted: as a contender, or as a waiter of
\* the condition variable that was requeued.
LEMMA SleepersAreCounted == IInv /\ mutexQ # {} => contenders # 0
  <1> SUFFICES ASSUME IInv, mutexQ # {} PROVE contenders # 0
    OBVIOUS
  <1>1. PICK w \in Threads : w \in mutexQ
    BY DEF IInv, TypeOK
  <1>2. w \in Contenders \/ w \in Waiters
    BY <1>1 DEF IInv, QueuesAsleep, WaitLabels, Contenders, Contending, Waiters
  <1>3. Contenders \in SUBSET Threads /\ Waiters \in SUBSET Threads
    BY DEF Contenders, Waiters
  <1>4. contenders = Cardinality(Contenders) + Cardinality(Waiters)
    BY DEF IInv, ContendersExact, Contenders, Waiters
  <1>5. Cardinality(Contenders) \in Nat /\ Cardinality(Waiters) \in Nat
    BY <1>3, CountType
  <1>6. Cardinality(Contenders) > 0 \/ Cardinality(Waiters) > 0
    BY <1>2, <1>3, CountRemove, ZenonT(60)
  <1> QED
    BY <1>4, <1>5, <1>6

\* The labels of a thread that will wake a sleeper of the mutex or take the
\* mutex itself.
Pushing == {"wake", "decrement", "lock", "increment", "futexWait"}

\* No step strands the sleepers: the unlock that frees the mutex goes on to
\* wake one, a woken thread tries to lock, and a thread that gives up trying
\* has seen the mutex held.
LEMMA WakeupStep == IInv /\ NoLostWakeup /\ [Next]_vars => NoLostWakeup'
  <1> SUFFICES ASSUME IInv, NoLostWakeup, [Next]_vars, mutexQ' # {}, ~heldBit'
               PROVE  \E u \in Threads : pc'[u] \in Pushing
    BY DEF NoLostWakeup, Pushing
  <1> USE DEF Goto, lockVars, condVars, queues, waitVars
  <1>0. CASE UNCHANGED vars
    BY <1>0 DEF NoLostWakeup, Pushing, vars
  <1>1. ASSUME NEW t \in Threads, Lock(t) PROVE \E u \in Threads : pc'[u] \in Pushing
    BY <1>1 DEF IInv, TypeOK, Pushing, Lock
  <1>2. ASSUME NEW t \in Threads,
               LockAgain(t) \/ SetOwner(t) \/ Unlock(t) \/ Wait(t) \/ WaitExit(t) \/ Signal(t)
                 \/ Broadcast(t) \/ Requeue(t)
        PROVE  FALSE
    <2>1. pc[t] \in Holding /\ ~heldBit
      BY <1>2 DEF Holding, LockAgain, SetOwner, Unlock, Wait, WaitExit, Signal, Broadcast,
         BeginSignal, Requeue
    <2> QED
      BY <2>1 DEF IInv, MutualExclusion
  <1>3. ASSUME NEW t \in Threads, AcquireCas(t) \/ TryLock(t) PROVE FALSE
    BY <1>3 DEF AcquireCas, TryLock
  <1>4. ASSUME NEW t \in Threads, Contend(t) \/ IncrementContenders(t) \/ DecrementContenders(t)
        PROVE  \E u \in Threads : pc'[u] \in Pushing
    <2>1. pc'[t] \in Pushing
      BY <1>4 DEF IInv, TypeOK, Pushing, Contend, IncrementContenders, DecrementContenders
    <2> QED
      BY <2>1
  <1>5. ASSUME NEW t \in Threads, FutexWait(t) PROVE \E u \in Threads : pc'[u] \in Pushing
    <2>1. pc'[t] = "decrement"
      BY <1>5 DEF IInv, TypeOK, FutexWait
    <2> QED
      BY <2>1 DEF Pushing
  <1>6. ASSUME NEW t \in Threads, UnlockCas(t) PROVE \E u \in Threads : pc'[u] \in Pushing
    <2>1. contenders # 0
      BY <1>6, SleepersAreCounted DEF UnlockCas
    <2>2. pc'[t] = "wake"
      BY <1>6, <2>1 DEF IInv, TypeOK, UnlockCas
    <2> QED
      BY <2>2 DEF Pushing
  <1>7. ASSUME NEW t \in Threads, FutexWakeOne(t) PROVE \E u \in Threads : pc'[u] \in Pushing
    <2>1. PICK w \in mutexQ :
            pc' = [pc EXCEPT ![t] = AfterUnlock(t), ![w] = AfterSleep(w)]
      BY <1>7 DEF FutexWakeOne
    <2>2. w \in Threads /\ pc'[w] \in {"lock", "decrement"}
      BY <2>1 DEF IInv, TypeOK, AfterSleep
    <2> QED
      BY <2>2 DEF Pushing
  <1>8. ASSUME NEW t \in Threads, WakeEarly(t) PROVE \E u \in Threads : pc'[u] \in Pushing
    <2>1. pc'[t] \in {"lock", "decrement"}
      BY <1>8 DEF IInv, TypeOK, WakeEarly, AfterSleep
    <2> QED
      BY <2>1 DEF Pushing
  <1>9. ASSUME NEW t \in Threads, CondFutexWait(t) PROVE \E u \in Threads : pc'[u] \in Pushing
    <2>1. PICK u \in Threads : pc[u] \in Pushing
      BY <1>9 DEF CondFutexWait, NoLostWakeup, Pushing
    <2>2. u # t
      BY <1>9, <2>1 DEF CondFutexWait, Pushing
    <2>3. pc'[u] = pc[u]
      BY <1>9, <2>2 DEF IInv, TypeOK, CondFutexWait
    <2> QED
      BY <2>1, <2>3
  <1> QED
    BY <1>0, <1>1, <1>2, <1>3, <1>4, <1>5, <1>6, <1>7, <1>8, <1>9 DEF Next, Progress, Call

\* No wakeup of the mutex is lost, for any number of threads: a free mutex with
\* sleepers has a thread under way that wakes one or locks it.
THEOREM NoWakeupIsLost == Spec => []NoLostWakeup
  <1>1. Init => NoLostWakeup
    BY DEF Init, NoLostWakeup
  <1> QED
    BY <1>1, WakeupStep, Invariance, PTL DEF Spec

-----------------------------------------------------------------------------
(* Signals                                                                 *)

\* A waiter that has released the mutex and not reached its FUTEX_WAIT.
OnTheWay(w) == inWait[w] /\ pc[w] \in {"unlockCas", "wake", "condFutexWait"}

\* The value such a waiter will compare sequence_ with was read earlier, and
\* before the increment of a Signal or Broadcast in progress.
SequenceInv ==
  \A w \in Threads : OnTheWay(w) =>
    /\ expected[w] <= sequence
    /\ \A t \in Threads : pc[t] \in {"requeueOne", "requeueAll"} => expected[w] < sequence

\* The values waiters compare with stay behind sequence_: only the holder of the
\* mutex reads or advances it.
LEMMA SequenceStep == IInv /\ SequenceInv /\ [Next]_vars => SequenceInv'
  <1> SUFFICES ASSUME IInv, SequenceInv, [Next]_vars PROVE SequenceInv'
    OBVIOUS
  <1> USE DEF Goto, lockVars, condVars, queues, waitVars
  <1>0. CASE UNCHANGED vars
    BY <1>0 DEF SequenceInv, OnTheWay, vars
  <1>1. ASSUME NEW t \in Threads, Signal(t) \/ Broadcast(t) PROVE SequenceInv'
    <2>1. /\ sequence' = sequence + 1 /\ expected' = expected /\ inWait' = inWait
          /\ \A w \in Threads : OnTheWay(w)' => OnTheWay(w)
      BY <1>1 DEF IInv, TypeOK, Signal, Broadcast, BeginSignal, OnTheWay
    <2>2. ASSUME NEW w \in Threads, OnTheWay(w) PROVE expected[w] < sequence + 1
      BY <2>2 DEF IInv, TypeOK, SequenceInv
    <2>3. ASSUME NEW w \in Threads, OnTheWay(w) PROVE expected[w] <= sequence + 1
      BY <2>3 DEF IInv, TypeOK, SequenceInv
    <2> QED
      BY <2>1, <2>2, <2>3 DEF SequenceInv
  <1>2. ASSUME NEW t \in Threads, Wait(t) PROVE SequenceInv'
    <2>1. \A u \in Threads : pc'[u] \notin {"requeueOne", "requeueAll"}
      BY <1>2 DEF IInv, TypeOK, MutualExclusion, Holding, Wait
    <2>2. expected'[t] = sequence /\ sequence' = sequence /\ sequence \in Nat
      BY <1>2 DEF IInv, TypeOK, Wait
    <2>3. ASSUME NEW w \in Threads, w # t, OnTheWay(w)' PROVE expected'[w] <= sequence
      BY <1>2, <2>3 DEF IInv, TypeOK, SequenceInv, OnTheWay, Wait
    <2> QED
      BY <2>1, <2>2, <2>3 DEF SequenceInv
  <1>3. ASSUME sequence' = sequence,
               \A w \in Threads : OnTheWay(w)' => OnTheWay(w) /\ expected'[w] = expected[w],
               \A u \in Threads : pc'[u] \in {"requeueOne", "requeueAll"} => pc'[u] = pc[u]
        PROVE  SequenceInv'
    BY <1>3 DEF SequenceInv
  <1>4. ASSUME NEW t \in Threads,
               \/ Lock(t) \/ LockAgain(t) \/ AcquireCas(t) \/ Contend(t) \/ IncrementContenders(t)
               \/ FutexWait(t) \/ DecrementContenders(t) \/ SetOwner(t) \/ TryLock(t)
        PROVE  SequenceInv'
    <2>1. /\ sequence' = sequence
          /\ \A u \in Threads : pc'[u] \in {"requeueOne", "requeueAll"} => pc'[u] = pc[u]
          /\ inWait' = inWait
      BY <1>4 DEF IInv, TypeOK, Lock, LockAgain, AcquireCas, Contend, IncrementContenders,
         FutexWait,
         DecrementContenders, SetOwner, TryLock
    <2>2. ASSUME NEW w \in Threads, OnTheWay(w)' PROVE OnTheWay(w) /\ expected'[w] = expected[w]
      BY <1>4, <2>2 DEF IInv, TypeOK, OnTheWay, Lock, LockAgain, AcquireCas, Contend,
         IncrementContenders, FutexWait, DecrementContenders, SetOwner, TryLock
    <2> QED
      BY <1>3, <2>1, <2>2
  <1>5. ASSUME NEW t \in Threads,
               \/ Unlock(t) \/ UnlockCas(t) \/ FutexWakeOne(t) \/ WakeEarly(t) \/ CondFutexWait(t)
               \/ WaitExit(t) \/ Requeue(t)
        PROVE  SequenceInv'
    <2>1. /\ sequence' = sequence
          /\ \A u \in Threads : pc'[u] \in {"requeueOne", "requeueAll"} => pc'[u] = pc[u]
      BY <1>5 DEF IInv, TypeOK, Unlock, UnlockCas, AfterUnlock, FutexWakeOne, AfterSleep,
         WakeEarly,
         CondFutexWait, WaitExit, Requeue
    <2>2. ASSUME NEW w \in Threads, OnTheWay(w)' PROVE OnTheWay(w) /\ expected'[w] = expected[w]
      <3>1. CASE FutexWakeOne(t)
        BY <2>2, <3>1 DEF IInv, TypeOK, QueuesAsleep, OnTheWay, FutexWakeOne, AfterUnlock,
           AfterSleep
      <3>2. CASE Unlock(t) \/ UnlockCas(t) \/ WakeEarly(t)
        BY <2>2, <3>2 DEF IInv, TypeOK, WaitLabels, OnTheWay, Unlock, UnlockCas, AfterUnlock,
           WakeEarly, AfterSleep
      <3>3. CASE CondFutexWait(t) \/ WaitExit(t) \/ Requeue(t)
        BY <2>2, <3>3 DEF IInv, TypeOK, OnTheWay, CondFutexWait, WaitExit, Requeue
      <3> QED
        BY <1>5, <3>1, <3>2, <3>3
    <2> QED
      BY <1>3, <2>1, <2>2
  <1> QED
    BY <1>0, <1>1, <1>2, <1>4, <1>5 DEF Next, Progress, Call

\* The step that ends a requeue is FUTEX_REQUEUE itself.
LEMMA RequeueStep ==
  ASSUME IInv, Next, NEW t \in Threads, pc[t] \in {"requeueOne", "requeueAll"}, pc'[t] = "held"
  PROVE  Requeue(t)
  <1> USE DEF Goto
  <1>1. PICK u \in Threads : Progress(u) \/ Call(u) \/ WakeEarly(u)
    BY DEF Next
  <1>2. CASE u = t
    BY <1>1, <1>2 DEF Progress, Call, AcquireCas, Contend, IncrementContenders, FutexWait,
       DecrementContenders, SetOwner, UnlockCas, FutexWakeOne, CondFutexWait, WaitExit, Lock, TryLock,
       LockAgain, Unlock, Wait, Signal, Broadcast, BeginSignal, WakeEarly
  <1>3. CASE u # t
    <2>1. CASE FutexWakeOne(u)
      BY <2>1, <1>3 DEF IInv, TypeOK, QueuesAsleep, FutexWakeOne, AfterSleep
    <2>2. CASE Progress(u) /\ ~FutexWakeOne(u)
      BY <2>2, <1>3 DEF IInv, TypeOK, Progress, AcquireCas, Contend, IncrementContenders,
         FutexWait,
         DecrementContenders, SetOwner, UnlockCas, CondFutexWait, WaitExit, Requeue
    <2>3. CASE Call(u) \/ WakeEarly(u)
      BY <2>3, <1>3 DEF IInv, TypeOK, Call, Lock, TryLock, LockAgain, Unlock, Wait, Signal,
         Broadcast,
         BeginSignal, WakeEarly
    <2> QED
      BY <1>1, <2>1, <2>2, <2>3
  <1> QED
    BY <1>2, <1>3

\* What SignalReaches says of one step.
Reaches ==
  \A t \in Threads :
    /\ pc[t] = "requeueAll" /\ pc'[t] = "held" => Unnotified' = {}
    /\ pc[t] = "requeueOne" /\ pc'[t] = "held" => Unnotified' = {} \/ Unnotified' # Unnotified

\* FUTEX_REQUEUE after the increment of sequence_ leaves only sleepers that it
\* did not move unnotified.
LEMMA ReachesStep == IInv /\ SequenceInv /\ [Next]_vars => [Reaches]_vars
  <1> SUFFICES ASSUME IInv, SequenceInv, Next,
                      NEW t \in Threads, pc[t] \in {"requeueOne", "requeueAll"}, pc'[t] = "held"
               PROVE  /\ pc[t] = "requeueAll" => Unnotified' = {}
                      /\ pc[t] = "requeueOne" => Unnotified' = {} \/ Unnotified' # Unnotified
    BY DEF Reaches
  <1>1. Requeue(t)
    BY RequeueStep
  <1>2. /\ sequence' = sequence /\ expected' = expected /\ inWait' = inWait
        /\ pc' = [pc EXCEPT ![t] = "held"]
    BY <1>1 DEF Requeue, Goto, condVars, waitVars
  <1>3. ASSUME NEW w \in Threads, OnTheWay(w)' PROVE expected'[w] # sequence'
    <2>1. OnTheWay(w)
      BY <1>2, <1>3 DEF IInv, TypeOK, OnTheWay
    <2>2. expected[w] < sequence /\ expected[w] \in Nat /\ sequence \in Nat
      BY <2>1 DEF IInv, TypeOK, SequenceInv
    <2> QED
      BY <1>2, <2>2
  <1>4. Unnotified' = {w \in Threads : w \in condQ'}
    BY <1>3 DEF Unnotified, OnTheWay
  <1>5. CASE pc[t] = "requeueAll"
    <2>1. condQ' = {}
      BY <1>1, <1>5 DEF Requeue
    <2> QED
      BY <1>4, <1>5, <2>1
  <1>6. CASE pc[t] = "requeueOne" /\ condQ' = {}
    BY <1>4, <1>6
  <1>7. CASE pc[t] = "requeueOne" /\ condQ' # {}
    <2>1. PICK w \in condQ : condQ' = condQ \ {w}
      BY <1>1, <1>7 DEF Requeue, queues
    <2>2. w \in Unnotified /\ w \notin Unnotified'
      BY <1>4, <2>1 DEF IInv, TypeOK, Unnotified
    <2> QED
      BY <1>7, <2>2
  <1> QED
    BY <1>5, <1>6, <1>7

\* No signal is lost, for any number of threads and signals: Broadcast leaves no
\* waiter unnotified, and Signal notifies one if there is one.
THEOREM SignalsReach == Spec => SignalReaches
  <1>1. Init => SequenceInv
    BY DEF Init, SequenceInv, OnTheWay
  <1>2. Spec => []SequenceInv
    BY <1>1, SequenceStep, Invariance, PTL DEF Spec
  <1> QED
    BY <1>2, ReachesStep, Invariance, PTL DEF Spec, SignalReaches, Reaches
=============================================================================
