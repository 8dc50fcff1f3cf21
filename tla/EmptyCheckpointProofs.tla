----------------------- MODULE EmptyCheckpointProofs -----------------------
(***************************************************************************)
(* Proofs about EmptyCheckpoint, for any finite set of mutators and any    *)
(* number of rounds: the barrier counts exactly the answers that are owed, *)
(* and RunEmptyCheckpoint returns only when every heap access that was     *)
(* under way when it was called is over.                                   *)
(***************************************************************************)
EXTENDS EmptyCheckpoint, FiniteSetTheorems, TLAPS

-----------------------------------------------------------------------------
(* The inductive invariant                                                 *)

Labels == {"run", "suspended", "access", "pass", "wLock", "wCheck", "wPass", "wGo", "wWait",
           "mTry", "mCheck", "mPass", "mGo", "mSleep", "mWoken"}
Passing == {t \in Mutators : pc[t] \in {"pass", "wPass", "mPass"}}
Accessing == {t \in Mutators : pc[t] = "access"}

MutatorTypes ==
  /\ pc \in [Mutators -> Labels]
  /\ request \in SUBSET Mutators /\ enabled \in SUBSET Mutators
  /\ weakOwner \in Mutators \cup {None} /\ mutexOwner \in Mutators \cup {None}

CollectorTypes ==
  /\ gc \in {"idle", "disabling", "visit", "wake", "wait", "asleep", "done", "reenabled"}
  /\ toVisit \in SUBSET Mutators
  /\ requested \in Nat /\ first \in BOOLEAN
  /\ count \in Int /\ asleep \subseteq {Collector}

\* The mutators an empty checkpoint has still to ask.
Unasked == IF gc = "visit" THEN toVisit ELSE {}

\* Outside an empty checkpoint nobody has been asked or is answering; in it a mutator
\* is yet to be asked, has been, or is passing the barrier, and only one of these.
PhaseInv ==
  /\ gc \in {"idle", "disabling", "done", "reenabled"} => request = {} /\ Passing = {}
  /\ request \cap Passing = {} /\ Unasked \cap (request \cup Passing) = {}
  /\ gc \in {"wake", "wait", "asleep"} => toVisit = {}
  /\ gc = "visit" => first
  /\ gc = "asleep" => ~first

\* The count of answers to wait for is not above the number of mutators.
RequestedInv == requested + Cardinality(Unasked) <= Cardinality(Mutators)

\* A mutator in an old access has not answered, as it comes to no suspend check there.
OldInv == old \subseteq Accessing /\ old \subseteq request \cup Unasked

EInv ==
  /\ MutatorTypes /\ CollectorTypes
  /\ PhaseInv /\ RequestedInv /\ OldInv /\ BarrierExact

-----------------------------------------------------------------------------
(* Counting                                                                *)

\* Sets of mutators are finite.
LEMMA CountType ==
  ASSUME NEW S \in SUBSET Mutators
  PROVE  /\ IsFiniteSet(S) /\ Cardinality(S) \in Nat
         /\ Cardinality(S) <= Cardinality(Mutators) /\ (Cardinality(S) = 0 <=> S = {})
  <1>1. IsFiniteSet(S) /\ Cardinality(S) <= Cardinality(Mutators)
    BY MutatorsAssumption, FS_Subset, Zenon
  <1> QED
    BY <1>1, FS_CardinalityType, FS_EmptySet, Zenon

\* A mutator joins a set.
LEMMA CountAdd ==
  ASSUME NEW S \in SUBSET Mutators, NEW t \in Mutators, t \notin S
  PROVE  Cardinality(S \cup {t}) = Cardinality(S) + 1
  BY CountType, FS_AddElement, Zenon

\* A mutator leaves a set.
LEMMA CountRemove ==
  ASSUME NEW S \in SUBSET Mutators, NEW t \in S
  PROVE  Cardinality(S \ {t}) = Cardinality(S) - 1
  BY CountType, FS_RemoveElement, Zenon

-----------------------------------------------------------------------------
(* What the mutators do                                                    *)

MutatorStep(t) ==
  \/ Start(t) \/ Proceed(t) \/ CheckSuspend(t) \/ UnlockMutex(t) \/ LockWeak(t)
  \/ RevokeCheckpoint(t)

\* A step that is no answer, one that clears the request flag, one that passes the barrier.
Kept == request' = request /\ Passing' = Passing /\ UNCHANGED barrier
Answered(t) ==
  /\ t \in request /\ t \notin Passing /\ t \notin Accessing
  /\ request' = request \ {t} /\ Passing' = Passing \cup {t} /\ UNCHANGED barrier
Passed(t) ==
  /\ t \in Passing /\ Passing' = Passing \ {t} /\ request' = request
  /\ Pass

\* A step that leaves the empty checkpoint's own variables alone.
CollectorKept ==
  /\ UNCHANGED <<gc, requested, first>>
  /\ toVisit' = toVisit \/ (gc = "disabling" /\ toVisit' \in SUBSET toVisit)

\* No mutator in an old access leaves it but by ending it.
AccessesKept == old' \subseteq old /\ \A u \in old' : u \in Accessing => u \in Accessing'

\* What a step of a mutator is to the empty checkpoint.
LEMMA MutatorEffect ==
  ASSUME MutatorTypes, NEW t \in Mutators, MutatorStep(t)
  PROVE  /\ MutatorTypes' /\ CollectorKept /\ AccessesKept
         /\ Kept \/ Answered(t) \/ Passed(t)
  <1> USE DEF MutatorTypes, Labels, CollectorKept, AccessesKept, Kept, Passing, Accessing, Goto,
      weak, mutex, collector, barrier
  <1>1. CASE TransitionToSuspended(t) \/ TransitionToRunnable(t)
    BY <1>1 DEF TransitionToSuspended, TransitionToRunnable
  <1>2. CASE BeginAccess(t) \/ BeginWeakAccess(t)
    BY <1>2 DEF BeginAccess, BeginWeakAccess
  <1>3. CASE BeginLock(t)
    BY <1>3 DEF BeginLock
  <1>4. CASE PassBarrier(t)
    BY <1>4 DEF PassBarrier, Passed
  <1>5. CASE EndAccess(t)
    BY <1>5 DEF EndAccess
  <1>6. CASE WaitForWeak(t)
    BY <1>6 DEF WaitForWeak
  <1>7. ASSUME NEW a \in {"run", "wCheck", "mCheck"}, NEW b \in {"pass", "wPass", "mPass"},
               pc[t] = a, Answer(t, b)
        PROVE  /\ MutatorTypes' /\ CollectorKept /\ AccessesKept
               /\ Answered(t)
    BY <1>7 DEF Answer, Answered
  <1>8. CASE CheckFromWeak(t)
    <2>1. CASE Answer(t, "wPass")
      BY <1>8, <2>1, <1>7 DEF CheckFromWeak
    <2>2. CASE ~Answer(t, "wPass")
      BY <1>8, <2>2 DEF CheckFromWeak
    <2> QED
      BY <2>1, <2>2
  <1>9. CASE CheckFromMutex(t)
    <2>1. CASE Answer(t, "mPass")
      BY <1>9, <2>1, <1>7 DEF CheckFromMutex
    <2>2. CASE ~Answer(t, "mPass")
      BY <1>9, <2>2 DEF CheckFromMutex
    <2> QED
      BY <2>1, <2>2
  <1>10. CASE CheckSuspend(t)
    BY <1>10, <1>7 DEF CheckSuspend
  <1>11. CASE LockMutex(t)
    BY <1>11 DEF LockMutex
  <1>12. CASE FutexWait(t)
    <2>1. PICK l \in {"mSleep", "mWoken"} : Goto(t, l)
      BY <1>12, Zenon DEF FutexWait
    <2> QED
      BY <1>12, <2>1 DEF FutexWait
  <1>13. CASE TryAgain(t)
    BY <1>13 DEF TryAgain
  <1>14. CASE UnlockMutex(t)
    BY <1>14 DEF UnlockMutex
  <1>15. CASE LockWeak(t)
    BY <1>15 DEF LockWeak
  <1>16. CASE RevokeCheckpoint(t)
    BY <1>16 DEF RevokeCheckpoint
  <1> QED
    BY <1>1, <1>2, <1>3, <1>4, <1>5, <1>6, <1>8, <1>9, <1>10, <1>11, <1>12, <1>13, <1>14, <1>15,
       <1>16, Zenon DEF MutatorStep, Start, Proceed

\* The answers that are owed.
Owed == Cardinality(request) + Cardinality(Passing)
Counted == IF gc \in {"visit", "wake", "wait"} /\ first THEN count + requested = Owed
                                                       ELSE count = Owed

\* The property, with its local definitions named.
LEMMA ExactIsCounted == BarrierExact <=> Counted
  BY DEF BarrierExact, Counted, Owed, Passing

\* An answer owed stays owed until the barrier is passed.
LEMMA MutatorKeepsExact ==
  ASSUME MutatorTypes, CollectorTypes, CollectorKept, Counted, NEW t \in Mutators,
         Kept \/ Answered(t) \/ Passed(t)
  PROVE  Counted' /\ CollectorTypes'
  <1>0. request \in SUBSET Mutators /\ Passing \in SUBSET Mutators
    BY DEF MutatorTypes, Passing
  <1>1. Cardinality(request) \in Nat /\ Cardinality(Passing) \in Nat
    BY <1>0, CountType
  <1>2. \/ Owed' = Owed /\ UNCHANGED barrier
        \/ Owed' = Owed - 1 /\ count' = count - 1 /\ asleep' \subseteq asleep
    <2>1. CASE Kept
      BY <2>1 DEF Kept, Owed
    <2>2. CASE Answered(t)
      <3>1. /\ Cardinality(request') = Cardinality(request) - 1
            /\ Cardinality(Passing') = Cardinality(Passing) + 1
        BY <1>0, <2>2, CountAdd, CountRemove DEF Answered
      <3> QED
        BY <1>1, <2>2, <3>1 DEF Answered, Owed
    <2>3. CASE Passed(t)
      <3>1. /\ Cardinality(request') = Cardinality(request)
            /\ Cardinality(Passing') = Cardinality(Passing) - 1
        BY <1>0, <2>3, CountRemove DEF Passed
      <3> QED
        BY <1>1, <2>3, <3>1 DEF Passed, Owed, Pass, SetCountLocked
    <2> QED
      BY <2>1, <2>2, <2>3
  <1>3. Owed \in Int
    BY <1>1 DEF Owed
  <1> QED
    BY <1>2, <1>3 DEF Counted, CollectorTypes, CollectorKept, barrier

\* A step of a mutator leaves it one of unasked, asked and passing.
LEMMA MutatorKeepsPhase ==
  ASSUME MutatorTypes, CollectorKept, AccessesKept, PhaseInv, RequestedInv, OldInv,
         NEW t \in Mutators, Kept \/ Answered(t) \/ Passed(t)
  PROVE  PhaseInv' /\ RequestedInv' /\ OldInv'
  <1>1. Unasked' = Unasked
    BY DEF CollectorKept, Unasked
  <1>2. PhaseInv'
    <2>1. CASE Kept
      BY <1>1, <2>1 DEF Kept, PhaseInv, CollectorKept
    <2>2. CASE Answered(t)
      BY <1>1, <2>2 DEF Answered, PhaseInv, CollectorKept
    <2>3. CASE Passed(t)
      BY <1>1, <2>3 DEF Passed, PhaseInv, CollectorKept
    <2> QED
      BY <2>1, <2>2, <2>3
  <1>3. RequestedInv'
    BY <1>1 DEF RequestedInv, CollectorKept
  <1>4. OldInv'
    BY <1>1 DEF OldInv, AccessesKept, Kept, Answered, Passed
  <1> QED
    BY <1>2, <1>3, <1>4

-----------------------------------------------------------------------------
(* What the collector does                                                 *)

\* A step of the collector that asks nobody: it may wake sleepers, which neither pass
\* the barrier nor access the heap.
Waking ==
  /\ Passing' = Passing /\ Accessing' = Accessing
  /\ UNCHANGED <<request, old, requested>>

\* Waking sleepers does not touch who passes or accesses.
LEMMA WakingKeeps ==
  ASSUME MutatorTypes, NEW from \in {"wWait", "mSleep"}, NEW to \in {"wLock", "mWoken"},
         pc' = [t \in Mutators |-> IF pc[t] = from THEN to ELSE pc[t]]
  PROVE  /\ pc' \in [Mutators -> Labels] /\ Passing' = Passing /\ Accessing' = Accessing
  BY DEF MutatorTypes, Labels, Passing, Accessing

CollectorEffect ==
  /\ MutatorTypes' /\ CollectorTypes' /\ PhaseInv' /\ RequestedInv' /\ OldInv' /\ Counted'

\* Between two empty checkpoints.
LEMMA CollectorOutside ==
  ASSUME MutatorTypes, CollectorTypes, PhaseInv, RequestedInv, OldInv, Counted,
         DisableWeakRefAccess \/ ReenableWeakRefAccess \/ UnblockBlockingThreads \/ EndPhase
  PROVE  CollectorEffect
  <1>1. Waking /\ MutatorTypes' /\ CollectorTypes' /\ UNCHANGED <<first, barrier>>
    <2>1. CASE DisableWeakRefAccess \/ ReenableWeakRefAccess \/ EndPhase
      BY <2>1 DEF DisableWeakRefAccess, ReenableWeakRefAccess, EndPhase, Waking, MutatorTypes,
         CollectorTypes, Passing, Accessing, weak, mutex, barrier
    <2>2. CASE UnblockBlockingThreads
      <3>1. pc' = [t \in Mutators |-> IF pc[t] = "wWait" THEN "wLock" ELSE pc[t]]
        BY <2>2 DEF UnblockBlockingThreads, WakeWeakWaiters
      <3>2. /\ pc' \in [Mutators -> Labels] /\ Passing' = Passing /\ Accessing' = Accessing
        BY <3>1, WakingKeeps
      <3> QED
        BY <2>2, <3>2 DEF UnblockBlockingThreads, Waking, MutatorTypes, CollectorTypes, weak,
           mutex, barrier
    <2> QED
      BY <2>1, <2>2
  <1>2. /\ gc \in {"idle", "done", "reenabled"} /\ gc' \in {"disabling", "idle", "reenabled"}
    BY DEF DisableWeakRefAccess, ReenableWeakRefAccess, UnblockBlockingThreads, EndPhase
  <1>3. Unasked' = {} /\ Unasked = {}
    BY <1>2 DEF Unasked
  <1>4. Owed' = Owed
    BY <1>1 DEF Waking, Owed
  <1> QED
    BY <1>1, <1>2, <1>3, <1>4 DEF CollectorEffect, PhaseInv, RequestedInv, OldInv, Counted,
       Waking, barrier

\* An empty checkpoint begins with nobody asked and nothing counted.
LEMMA CollectorBegins ==
  ASSUME MutatorTypes, CollectorTypes, PhaseInv, RequestedInv, OldInv, Counted,
         BeginEmptyCheckpoint
  PROVE  CollectorEffect
  <1>1. /\ gc \in {"idle", "done", "disabling"} /\ gc' = "visit" /\ toVisit' = Mutators
        /\ requested' = 0 /\ first' = TRUE /\ count' = 0 /\ asleep' = {}
        /\ old' = Accessing /\ UNCHANGED <<pc, request, enabled, weakOwner, mutexOwner>>
    BY DEF BeginEmptyCheckpoint, InitBarrier, SetCountLocked, Accessing, weak, mutex
  <1>2. request = {} /\ Passing = {} /\ Passing' = Passing /\ Accessing' = Accessing
    BY <1>1 DEF PhaseInv, Passing, Accessing
  <1>3. Unasked' = Mutators /\ Accessing \subseteq Mutators
    BY <1>1 DEF Unasked, Accessing
  <1>4. Cardinality({}) = 0 /\ Cardinality(Mutators) \in Nat
    BY CountType, FS_EmptySet
  <1>5. MutatorTypes' /\ CollectorTypes'
    BY <1>1 DEF MutatorTypes, CollectorTypes
  <1>6. PhaseInv'
    BY <1>1, <1>2, <1>3 DEF PhaseInv
  <1>7. RequestedInv'
    BY <1>1, <1>3, <1>4 DEF RequestedInv
  <1>8. OldInv'
    BY <1>1, <1>2, <1>3 DEF OldInv
  <1>9. Counted'
    BY <1>1, <1>2, <1>4 DEF Counted, Owed
  <1> QED
    BY <1>5, <1>6, <1>7, <1>8, <1>9 DEF CollectorEffect

\* A mutator is asked, or is seen suspended: then it is in no access.
LEMMA CollectorVisits ==
  ASSUME MutatorTypes, CollectorTypes, PhaseInv, RequestedInv, OldInv, Counted,
         NEW t \in Mutators, Visit(t)
  PROVE  CollectorEffect
  <1>1. /\ gc = "visit" /\ gc' = gc /\ t \in toVisit /\ toVisit' = toVisit \ {t}
        /\ UNCHANGED <<pc, first, count, asleep, old, enabled, weakOwner, mutexOwner>>
    BY DEF Visit, weak, mutex, barrier
  <1>2. \/ pc[t] = "suspended" /\ UNCHANGED <<request, requested>>
        \/ request' = request \cup {t} /\ requested' = requested + 1
    BY DEF Visit
  <1>3. /\ Unasked = toVisit /\ Unasked' = Unasked \ {t} /\ Unasked \in SUBSET Mutators
        /\ Passing' = Passing /\ Accessing' = Accessing /\ Passing \in SUBSET Mutators
        /\ request \in SUBSET Mutators
    BY <1>1 DEF Unasked, Passing, Accessing, CollectorTypes, MutatorTypes
  <1>4. t \notin request /\ t \notin Passing /\ t \in Unasked
    BY <1>1, <1>3 DEF PhaseInv
  <1>5. MutatorTypes' /\ CollectorTypes'
    BY <1>1, <1>2 DEF MutatorTypes, CollectorTypes
  <1>6. PhaseInv'
    BY <1>1, <1>2, <1>3, <1>4 DEF PhaseInv
  <1>7. /\ Cardinality(Unasked') = Cardinality(Unasked) - 1
        /\ Cardinality(request \cup {t}) = Cardinality(request) + 1
    BY <1>3, <1>4, CountAdd, CountRemove
  <1>8. /\ Cardinality(Unasked) \in Nat /\ Cardinality(request) \in Nat
        /\ Cardinality(Passing) \in Nat /\ Cardinality(Mutators) \in Nat
    BY <1>3, CountType
  <1>9. RequestedInv'
    BY <1>2, <1>7, <1>8 DEF RequestedInv, CollectorTypes
  <1>10. OldInv'
    BY <1>1, <1>2, <1>3 DEF OldInv, Accessing
  <1>11. Counted'
    <2>1. count + requested = Owed /\ first
      BY <1>1 DEF Counted, PhaseInv
    <2>2. count' + requested' = Owed'
      <3>1. count \in Int /\ requested \in Nat /\ count' = count
        BY <1>1 DEF CollectorTypes
      <3>2. \/ Owed' = Owed /\ requested' = requested
            \/ Owed' = Owed + 1 /\ requested' = requested + 1
        <4>1. CASE UNCHANGED <<request, requested>>
          BY <1>3, <4>1 DEF Owed
        <4>2. CASE request' = request \cup {t} /\ requested' = requested + 1
          <5>1. Cardinality(request') = Cardinality(request) + 1
            BY <1>7, <4>2
          <5> QED
            BY <1>3, <1>8, <4>2, <5>1 DEF Owed
        <4> QED
          BY <1>2, <4>1, <4>2
      <3> QED
        BY <1>8, <2>1, <3>1, <3>2 DEF Owed
    <2> QED
      BY <1>1, <2>1, <2>2 DEF Counted
  <1> QED
    BY <1>5, <1>6, <1>9, <1>10, <1>11 DEF CollectorEffect

\* The collector wakes those who may be asleep and waits until the count is zero.
LEMMA CollectorWaits ==
  ASSUME MutatorTypes, CollectorTypes, PhaseInv, RequestedInv, OldInv, Counted,
         \/ BroadcastForCheckpoint \/ WakeupToRespondToEmptyCheckpoint \/ WaitOnBarrier
         \/ TimeOut \/ WakeOnBarrier
  PROVE  CollectorEffect
  <1>1. Waking /\ MutatorTypes' /\ toVisit' = toVisit
    <2>1. CASE BroadcastForCheckpoint
      <3>1. pc' = [t \in Mutators |-> IF pc[t] = "wWait" THEN "wLock" ELSE pc[t]]
        BY <2>1 DEF BroadcastForCheckpoint, WakeWeakWaiters
      <3>2. /\ pc' \in [Mutators -> Labels] /\ Passing' = Passing /\ Accessing' = Accessing
        BY <3>1, WakingKeeps
      <3> QED
        BY <2>1, <3>2 DEF BroadcastForCheckpoint, Waking, MutatorTypes, weak, mutex
    <2>2. CASE WakeupToRespondToEmptyCheckpoint
      <3>1. pc' = [t \in Mutators |-> IF pc[t] = "mSleep" THEN "mWoken" ELSE pc[t]]
        BY <2>2 DEF WakeupToRespondToEmptyCheckpoint
      <3>2. /\ pc' \in [Mutators -> Labels] /\ Passing' = Passing /\ Accessing' = Accessing
        BY <3>1, WakingKeeps
      <3> QED
        BY <2>2, <3>2 DEF WakeupToRespondToEmptyCheckpoint, Waking, MutatorTypes, weak, mutex
    <2>3. CASE WaitOnBarrier \/ TimeOut \/ WakeOnBarrier
      BY <2>3 DEF WaitOnBarrier, TimeOut, WakeOnBarrier, Waking, MutatorTypes, Passing,
         Accessing, weak, mutex
    <2> QED
      BY <2>1, <2>2, <2>3
  <1>2. Owed' = Owed /\ Owed \in Nat /\ (Owed = 0 => request = {} /\ Passing = {})
    <2>1. request \in SUBSET Mutators /\ Passing \in SUBSET Mutators
      BY DEF MutatorTypes, Passing
    <2> QED
      BY <1>1, <2>1, CountType DEF Waking, Owed
  <1>3. /\ gc \in {"visit", "wake", "wait", "asleep"} /\ toVisit = {}
        /\ gc' \in {"wake", "wait", "asleep", "done"}
        /\ (gc' = "done" => count' = 0) /\ (gc' = "asleep" => ~first')
        /\ count' \in Int /\ asleep' \subseteq {Collector} /\ first' \in BOOLEAN
        /\ Counted'
    <2> USE <1>1, <1>2 DEF Waking, CollectorTypes, Counted
    <2>1. CASE BroadcastForCheckpoint
      BY <2>1 DEF BroadcastForCheckpoint, PhaseInv, barrier
    <2>2. CASE WakeupToRespondToEmptyCheckpoint
      BY <2>2 DEF WakeupToRespondToEmptyCheckpoint, PhaseInv, barrier
    <2>3. CASE WaitOnBarrier
      <3>1. PICK d \in {0, requested} :
              /\ d = IF first THEN requested ELSE 0
              /\ gc = "wait" /\ count' = count + d
              /\ gc' = IF count + d = 0 THEN "done" ELSE "asleep"
              /\ asleep' \subseteq asleep \cup {Collector} /\ first' = FALSE
        BY <2>3 DEF WaitOnBarrier, Increment
      <3>2. count + d = Owed
        BY <3>1
      <3> QED
        <4>1. toVisit = {}
          BY <3>1 DEF PhaseInv
        <4>2. count' = Owed' /\ gc' \in {"done", "asleep"} /\ (gc' = "done" => count' = 0)
          BY <3>1, <3>2
        <4>3. count' \in Int
          BY <4>2
        <4>4. asleep' \subseteq {Collector}
          BY <3>1, Zenon
        <4>5. Counted'
          BY <4>2
        <4> QED
          BY <3>1, <4>1, <4>2, <4>3, <4>4, <4>5, Zenon
    <2>4. CASE TimeOut
      BY <2>4 DEF TimeOut, IncrementTimesOut, PhaseInv
    <2>5. CASE WakeOnBarrier
      BY <2>5 DEF WakeOnBarrier, IncrementReturns, SleepAgain, WakeEarly, PhaseInv, barrier
    <2> QED
      BY <2>1, <2>2, <2>3, <2>4, <2>5
  <1>4. Unasked = {} /\ Unasked' = {}
    BY <1>1, <1>3 DEF Unasked
  <1>5. CollectorTypes'
    BY <1>1, <1>3 DEF CollectorTypes, Waking
  <1>6. PhaseInv'
    <2>1. gc' = "done" => request = {} /\ Passing = {}
      BY <1>2, <1>3 DEF Counted
    <2> QED
      BY <1>1, <1>3, <1>4, <2>1 DEF PhaseInv, Waking
  <1>7. RequestedInv' /\ OldInv'
    BY <1>1, <1>4 DEF RequestedInv, OldInv, Waking
  <1> QED
    BY <1>1, <1>3, <1>5, <1>6, <1>7 DEF CollectorEffect

-----------------------------------------------------------------------------
(* The invariant and the theorems                                          *)

\* Initially nobody has been asked.
LEMMA InitInv == Init => EInv
  <1> SUFFICES ASSUME Init PROVE EInv
    OBVIOUS
  <1>1. Passing = {} /\ Unasked = {} /\ request = {} /\ old = {}
    BY DEF Init, Passing, Unasked
  <1>2. Cardinality({}) = 0 /\ Cardinality(Mutators) \in Nat
    BY CountType, FS_EmptySet
  <1>3. MutatorTypes /\ CollectorTypes
    BY DEF Init, BarrierInit, MutatorTypes, CollectorTypes, Labels
  <1>4. PhaseInv /\ OldInv
    BY <1>1 DEF Init, PhaseInv, OldInv
  <1>5. RequestedInv
    BY <1>1, <1>2 DEF Init, RequestedInv
  <1>6. Counted
    BY <1>1, <1>2 DEF Init, BarrierInit, Counted, Owed
  <1> QED
    BY <1>3, <1>4, <1>5, <1>6, ExactIsCounted DEF EInv

\* Every step keeps the invariant.
LEMMA NextInv == EInv /\ [Next]_vars => EInv'
  <1> SUFFICES ASSUME EInv, [Next]_vars PROVE EInv'
    OBVIOUS
  <1>0. MutatorTypes /\ CollectorTypes /\ PhaseInv /\ RequestedInv /\ OldInv /\ Counted
    BY ExactIsCounted DEF EInv
  <1>1. BarrierExact' <=> Counted'
    BY ExactIsCounted, PTL
  <1>2. CASE UNCHANGED vars
    <2>1. UNCHANGED <<pc, request, enabled, weakOwner, mutexOwner, gc, toVisit, requested, first,
                      count, asleep, old>>
      BY <1>2 DEF vars, weak, mutex, collector, barrier
    <2> QED
      BY <2>1, Zenon DEF EInv, MutatorTypes, CollectorTypes, PhaseInv, RequestedInv, OldInv,
         BarrierExact, Passing, Accessing, Unasked
  <1>3. ASSUME NEW t \in Mutators, MutatorStep(t) PROVE EInv'
    BY <1>0, <1>1, <1>3, MutatorEffect, MutatorKeepsExact, MutatorKeepsPhase, Zenon DEF EInv
  <1>4. CASE Collect
    <2>1. CollectorEffect
      BY <1>0, <1>4, CollectorOutside, CollectorBegins, CollectorVisits, CollectorWaits, Zenon
         DEF Collect
    <2> QED
      BY <1>1, <2>1, Zenon DEF CollectorEffect, EInv
  <1> QED
    BY <1>2, <1>3, <1>4, Zenon DEF Next, MutatorStep

\* The inductive invariant holds of every reachable state.
THEOREM Invariance == Spec => []EInv
  BY InitInv, NextInv, PTL DEF Spec

\* Types and bounds: neither RunEmptyCheckpoint's count nor the barrier's leaves the
\* range that the number of mutators gives.
THEOREM TypeCorrect == Spec => []TypeOK
  <1>1. EInv => TypeOK
    <2> SUFFICES ASSUME EInv PROVE TypeOK
      OBVIOUS
    <2>1. /\ request \in SUBSET Mutators /\ Passing \in SUBSET Mutators
          /\ Unasked \in SUBSET Mutators /\ request \cap Passing = {}
      BY DEF EInv, MutatorTypes, CollectorTypes, PhaseInv, Passing, Unasked
    <2>2. Cardinality(request \cup Passing) = Owed
      BY <2>1, CountType, FS_Union, FS_EmptySet DEF Owed
    <2>3. Owed \in 0..Cardinality(Mutators) /\ Cardinality(Mutators) \in Nat
      <3>1. request \cup Passing \in SUBSET Mutators
        BY <2>1
      <3> QED
        BY <3>1, <2>2, CountType
    <2>4. requested \in 0..Cardinality(Mutators)
      <3>1. Cardinality(Unasked) \in Nat
        BY <2>1, CountType
      <3> QED
        BY <2>3, <3>1 DEF EInv, RequestedInv, CollectorTypes
    <2>5. count = Owed \/ count + requested = Owed
      BY ExactIsCounted DEF EInv, Counted
    <2>6. count \in -Cardinality(Mutators)..Cardinality(Mutators)
      BY <2>3, <2>4, <2>5 DEF EInv, CollectorTypes
    <2> QED
      BY <2>4, <2>6 DEF EInv, MutatorTypes, CollectorTypes, TypeOK, Labels
  <1> QED
    BY <1>1, Invariance, PTL

\* The barrier of RunEmptyCheckpoint counts exactly the answers that are owed.
THEOREM AnswersAreCounted == Spec => []BarrierExact
  <1>1. EInv => BarrierExact
    BY DEF EInv
  <1> QED
    BY <1>1, Invariance, PTL

\* RunEmptyCheckpoint returns only when the accesses it found are over.
THEOREM OldAccessesEnd == Spec => []AccessesOver
  <1>1. EInv => AccessesOver
    BY DEF EInv, AccessesOver, PhaseInv, OldInv, Unasked
  <1> QED
    BY <1>1, Invariance, PTL
=============================================================================
