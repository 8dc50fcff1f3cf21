--------------------------- MODULE EmptyCheckpoint ---------------------------
(***************************************************************************)
(* The empty checkpoint (ThreadList::RunEmptyCheckpoint) of the concurrent *)
(* copying collector: it ends once every mutator has passed a point        *)
(* outside a heap access.  Mutators answer at suspend checks, while they   *)
(* block for weak reference access, which the collector disables, and      *)
(* while they block on a mutex that such a thread may hold.                *)
(*                                                                         *)
(* There is one holder of weak references (its lock and condition), and    *)
(* one expected mutex; its unlock and wake are one step here, FutexMutex   *)
(* has them apart.                                                         *)
(***************************************************************************)
EXTENDS Barrier, FiniteSets

CONSTANTS
  Mutators,    \* the mutator threads
  Collector,   \* the collector thread
  Rounds       \* bound: how many empty checkpoints the collector runs

ASSUME CollectorAssumption == Collector \notin Mutators
ASSUME MutatorsAssumption == IsFiniteSet(Mutators)
ASSUME RoundsAssumption == Rounds \in Nat

VARIABLES
  pc,          \* where each mutator is
  request,     \* the mutators with kEmptyCheckpointRequest set
  enabled,     \* the mutators with weak_ref_access_enabled
  weakOwner,   \* the owner of the lock of the weak reference holder
  mutexOwner,  \* the owner of the expected mutex
  expected,    \* cur_state of a mutator about to wait for the mutex: its contenders
  gc,          \* where the collector is
  toVisit,     \* the mutators the collector has still to visit
  requested,   \* RunEmptyCheckpoint's count
  first,       \* first_iter
  rounds,      \* how many empty checkpoints have begun
  old          \* history: the mutators in an access that began before the checkpoint

weak == <<enabled, weakOwner>>
mutex == <<mutexOwner, expected>>
collector == <<gc, toVisit, requested, first, rounds>>
vars == <<pc, request, weak, mutex, collector, barrier, old>>

None == "none"

Contending == {t \in Mutators : pc[t] \in {"mCheck", "mPass", "mGo", "mSleep", "mWoken"}}

Init ==
  /\ pc = [t \in Mutators |-> "run"]
  /\ request = {}
  /\ enabled = Mutators
  /\ weakOwner = None /\ mutexOwner = None
  /\ expected = [t \in Mutators |-> 0]
  /\ gc = "idle" /\ toVisit = {} /\ requested = 0 /\ first = TRUE /\ rounds = 0
  /\ BarrierInit
  /\ old = {}

Goto(t, label) == pc' = [pc EXCEPT ![t] = label]

-----------------------------------------------------------------------------
(* Thread::RunEmptyCheckpoint and the places it is called from             *)

\* Mutant: the flag is left set.
AnswerKeepingFlag(t, label) ==
  /\ t \in request
  /\ Goto(t, label)
  /\ UNCHANGED <<request, weak, mutex, collector, barrier, old>>

\* AtomicClearFlag; the barrier is passed at label.
Answer(t, label) ==
  /\ t \in request
  /\ request' = request \ {t}
  /\ Goto(t, label)
  /\ UNCHANGED <<weak, mutex, collector, barrier, old>>

PassBarrier(t) ==
  /\ \/ pc[t] = "pass" /\ Goto(t, "run")
     \/ pc[t] = "wPass" /\ Goto(t, "wCheck")
     \/ pc[t] = "mPass" /\ Goto(t, "mCheck")
  /\ Pass
  /\ UNCHANGED <<request, weak, mutex, collector, old>>

\* CheckSuspend, or the change to a suspended state, outside any mutex.
CheckSuspend(t) == pc[t] = "run" /\ mutexOwner # t /\ Answer(t, "pass")

TransitionToSuspended(t) ==
  /\ pc[t] = "run" /\ mutexOwner # t
  /\ t \notin request
  /\ Goto(t, "suspended")
  /\ UNCHANGED <<request, weak, mutex, collector, barrier, old>>

TransitionToRunnable(t) ==
  /\ pc[t] = "suspended"
  /\ Goto(t, "run")
  /\ UNCHANGED <<request, weak, mutex, collector, barrier, old>>

\* A heap access, with a read barrier in it.
BeginAccess(t) ==
  /\ pc[t] = "run"
  /\ Goto(t, "access")
  /\ UNCHANGED <<request, weak, mutex, collector, barrier, old>>

EndAccess(t) ==
  /\ pc[t] = "access"
  /\ Goto(t, "run")
  /\ old' = old \ {t}
  /\ UNCHANGED <<request, weak, mutex, collector, barrier>>

-----------------------------------------------------------------------------
(* Weak reference access (SystemWeakHolder::Wait and its kin)              *)

BeginWeakAccess(t) ==
  /\ pc[t] = "run"
  /\ Goto(t, "wLock")
  /\ UNCHANGED <<request, weak, mutex, collector, barrier, old>>

\* With the lock: go on if access is enabled.
LockWeak(t) ==
  /\ pc[t] = "wLock"
  /\ weakOwner = None
  /\ IF t \in enabled
     THEN Goto(t, "access") /\ UNCHANGED weakOwner
     ELSE Goto(t, "wCheck") /\ weakOwner' = t
  /\ UNCHANGED <<request, enabled, mutex, collector, barrier, old>>

\* CheckEmptyCheckpointFromWeakRefAccess.
CheckFromWeak(t) ==
  /\ pc[t] = "wCheck"
  /\ \/ Answer(t, "wPass")
     \/ /\ t \notin request
        /\ Goto(t, "wGo")
        /\ UNCHANGED <<request, weak, mutex, collector, barrier, old>>

WaitForWeak(t) ==
  /\ pc[t] = "wGo"
  /\ Goto(t, "wWait")
  /\ weakOwner' = None
  /\ UNCHANGED <<request, enabled, mutex, collector, barrier, old>>

-----------------------------------------------------------------------------
(* The expected mutex (Mutex::ExclusiveLock)                               *)

BeginLock(t) ==
  /\ pc[t] = "run" /\ mutexOwner # t
  /\ Goto(t, "mTry")
  /\ UNCHANGED <<request, weak, mutex, collector, barrier, old>>

LockMutex(t) ==
  /\ pc[t] = "mTry"
  /\ IF mutexOwner = None
     THEN Goto(t, "run") /\ mutexOwner' = t /\ UNCHANGED expected
     ELSE /\ Goto(t, "mCheck")
          /\ expected' = [expected EXCEPT ![t] = Cardinality(Contending) + 1]
          /\ UNCHANGED mutexOwner
  /\ UNCHANGED <<request, weak, collector, barrier, old>>

\* CheckEmptyCheckpointFromMutex.
CheckFromMutex(t) ==
  /\ pc[t] = "mCheck"
  /\ \/ Answer(t, "mPass")
     \/ /\ t \notin request
        /\ Goto(t, "mGo")
        /\ UNCHANGED <<request, weak, mutex, collector, barrier, old>>

\* The futex sleeps only while the state is what the caller has seen.
FutexWait(t) ==
  /\ pc[t] = "mGo"
  /\ Goto(t, IF mutexOwner # None /\ Cardinality(Contending) = expected[t]
             THEN "mSleep" ELSE "mWoken")
  /\ UNCHANGED <<request, weak, mutex, collector, barrier, old>>

\* decrement_contenders, and try again.
TryAgain(t) ==
  /\ pc[t] = "mWoken"
  /\ Goto(t, "mTry")
  /\ expected' = [expected EXCEPT ![t] = 0]
  /\ UNCHANGED <<request, weak, mutexOwner, collector, barrier, old>>

UnlockMutex(t) ==
  /\ pc[t] = "run" /\ mutexOwner = t
  /\ mutexOwner' = None
  /\ IF \E u \in Mutators : pc[u] = "mSleep"
     THEN \E u \in Mutators : pc[u] = "mSleep" /\ Goto(u, "mWoken")
     ELSE UNCHANGED pc
  /\ UNCHANGED <<request, weak, expected, collector, barrier, old>>

-----------------------------------------------------------------------------
(* The collector: SwitchToSharedMarkStackMode and ReenableWeakRefAccess    *)

\* A checkpoint disables weak reference access, one thread after the other.
DisableWeakRefAccess ==
  /\ gc = "idle" /\ rounds < Rounds
  /\ gc' = "disabling"
  /\ toVisit' = Mutators
  /\ UNCHANGED <<pc, request, weak, mutex, requested, first, rounds, barrier, old>>

RevokeCheckpoint(t) ==
  /\ gc = "disabling" /\ t \in toVisit
  /\ pc[t] = "suspended" \/ (pc[t] = "run" /\ mutexOwner # t)
  /\ toVisit' = toVisit \ {t}
  /\ enabled' = enabled \ {t}
  /\ UNCHANGED <<pc, request, weakOwner, mutex, gc, requested, first, rounds, barrier, old>>

ReenableWeakRefAccess ==
  /\ gc = "done" /\ enabled # Mutators
  /\ enabled' = Mutators
  /\ gc' = "reenabled"
  /\ UNCHANGED <<pc, request, weakOwner, mutex, toVisit, requested, first, rounds, barrier, old>>

\* BroadcastForSlowPath and BroadcastForNewSystemWeaks, under the lock.
WakeWeakWaiters ==
  /\ weakOwner = None
  /\ pc' = [t \in Mutators |-> IF pc[t] = "wWait" THEN "wLock" ELSE pc[t]]

UnblockBlockingThreads ==
  /\ gc = "reenabled"
  /\ WakeWeakWaiters
  /\ gc' = "idle"
  /\ UNCHANGED <<request, weak, mutex, toVisit, requested, first, rounds, barrier, old>>

\* The phase is over and weak reference access was never disabled.
EndPhase ==
  /\ gc = "done" /\ enabled = Mutators
  /\ gc' = "idle"
  /\ UNCHANGED <<pc, request, weak, mutex, toVisit, requested, first, rounds, barrier, old>>

-----------------------------------------------------------------------------
(* ThreadList::RunEmptyCheckpoint                                          *)

BeginEmptyCheckpoint ==
  /\ gc \in {"idle", "done"} \/ (gc = "disabling" /\ toVisit = {})
  /\ rounds < Rounds
  /\ rounds' = rounds + 1
  /\ gc' = "visit"
  /\ toVisit' = Mutators
  /\ requested' = 0 /\ first' = TRUE
  /\ InitBarrier(0)
  /\ old' = {t \in Mutators : pc[t] = "access"}
  /\ UNCHANGED <<pc, request, weak, mutex>>

\* Mutant: a request that fails because the flags have changed is not repeated.
VisitOnce(t) ==
  /\ gc = "visit" /\ t \in toVisit
  /\ toVisit' = toVisit \ {t}
  /\ \/ UNCHANGED <<request, requested>>
     \/ /\ pc[t] # "suspended"
        /\ request' = request \cup {t} /\ requested' = requested + 1
  /\ UNCHANGED <<pc, weak, mutex, gc, first, rounds, barrier, old>>

\* RequestEmptyCheckpoint; a thread seen suspended is skipped.
Visit(t) ==
  /\ gc = "visit" /\ t \in toVisit
  /\ toVisit' = toVisit \ {t}
  /\ IF pc[t] = "suspended"
     THEN UNCHANGED <<request, requested>>
     ELSE request' = request \cup {t} /\ requested' = requested + 1
  /\ UNCHANGED <<pc, weak, mutex, gc, first, rounds, barrier, old>>

BroadcastForCheckpoint ==
  /\ gc = "visit" /\ toVisit = {}
  /\ WakeWeakWaiters
  /\ gc' = "wake"
  /\ UNCHANGED <<request, weak, mutex, toVisit, requested, first, rounds, barrier, old>>

\* Mutant: the waiters of the mutex are woken in the first iteration only.
WakeupOnce ==
  /\ gc = "wake"
  /\ pc' = [t \in Mutators |-> IF first /\ pc[t] = "mSleep" THEN "mWoken" ELSE pc[t]]
  /\ gc' = "wait"
  /\ UNCHANGED <<request, weak, mutex, toVisit, requested, first, rounds, barrier, old>>

WakeupToRespondToEmptyCheckpoint ==
  /\ gc = "wake"
  /\ pc' = [t \in Mutators |-> IF pc[t] = "mSleep" THEN "mWoken" ELSE pc[t]]
  /\ gc' = "wait"
  /\ UNCHANGED <<request, weak, mutex, toVisit, requested, first, rounds, barrier, old>>

WaitOnBarrier ==
  LET delta == IF first THEN requested ELSE 0
  IN  /\ gc = "wait"
      /\ Increment(Collector, delta)
      /\ gc' = IF count + delta = 0 THEN "done" ELSE "asleep"
      /\ first' = FALSE
      /\ UNCHANGED <<pc, request, weak, mutex, toVisit, requested, rounds, old>>

TimeOut ==
  /\ gc = "asleep"
  /\ IncrementTimesOut(Collector)
  /\ gc' = "wake"
  /\ UNCHANGED <<pc, request, weak, mutex, toVisit, requested, first, rounds, old>>

WakeOnBarrier ==
  /\ gc = "asleep"
  /\ \/ IncrementReturns(Collector) /\ gc' = "done"
     \/ (SleepAgain(Collector) \/ WakeEarly(Collector)) /\ UNCHANGED gc
  /\ UNCHANGED <<pc, request, weak, mutex, toVisit, requested, first, rounds, old>>

-----------------------------------------------------------------------------
\* What a mutator does without being asked, and what it does once it has begun.
Start(t) ==
  \/ TransitionToSuspended(t) \/ TransitionToRunnable(t) \/ BeginAccess(t)
  \/ BeginWeakAccess(t) \/ BeginLock(t)

Proceed(t) ==
  \/ PassBarrier(t) \/ EndAccess(t) \/ CheckFromWeak(t) \/ WaitForWeak(t)
  \/ LockMutex(t) \/ CheckFromMutex(t) \/ FutexWait(t) \/ TryAgain(t)

Collect ==
  \/ DisableWeakRefAccess \/ ReenableWeakRefAccess \/ UnblockBlockingThreads \/ EndPhase
  \/ BeginEmptyCheckpoint \/ (\E t \in Mutators : Visit(t)) \/ BroadcastForCheckpoint
  \/ WakeupToRespondToEmptyCheckpoint \/ WaitOnBarrier \/ TimeOut \/ WakeOnBarrier

Next ==
  \/ Collect
  \/ \E t \in Mutators : \/ Start(t) \/ Proceed(t) \/ CheckSuspend(t) \/ UnlockMutex(t)
                         \/ LockWeak(t) \/ RevokeCheckpoint(t)

Spec == Init /\ [][Next]_vars

\* Threads run, waits time out, a thread that goes on running comes to suspend
\* checks and out of its critical sections, and nobody is kept from a lock that
\* is free again and again.
Fairness ==
  /\ WF_vars(Collect) /\ WF_vars(TimeOut)
  /\ \A t \in Mutators :
       /\ WF_vars(Proceed(t))
       /\ SF_vars(CheckSuspend(t)) /\ SF_vars(RevokeCheckpoint(t))
       /\ SF_vars(UnlockMutex(t)) /\ SF_vars(LockWeak(t))

FairSpec == Spec /\ Fairness

-----------------------------------------------------------------------------
TypeOK ==
  /\ pc \in [Mutators -> {"run", "suspended", "access", "pass", "wLock", "wCheck", "wPass",
                          "wGo", "wWait", "mTry", "mCheck", "mPass", "mGo", "mSleep", "mWoken"}]
  /\ request \subseteq Mutators /\ enabled \subseteq Mutators /\ toVisit \subseteq Mutators
  /\ weakOwner \in Mutators \cup {None} /\ mutexOwner \in Mutators \cup {None}
  /\ gc \in {"idle", "disabling", "visit", "wake", "wait", "asleep", "done", "reenabled"}
  /\ requested \in 0..Cardinality(Mutators)
  /\ count \in -Cardinality(Mutators)..Cardinality(Mutators)
  /\ asleep \subseteq {Collector}

\* The empty checkpoint returns only when every heap access that was under way when
\* it was called is over.
AccessesOver == gc = "done" => old = {}

\* What the barrier still counts is exactly what has been asked for and not yet
\* passed: nobody passes twice, for another round, or without being waited for.
BarrierExact ==
  LET passing == {t \in Mutators : pc[t] \in {"pass", "wPass", "mPass"}}
      owed == Cardinality(request) + Cardinality(passing)
  IN  IF gc \in {"visit", "wake", "wait"} /\ first
      THEN count + requested = owed
      ELSE count = owed

\* An empty checkpoint ends although mutators block for weak reference access, and
\* others on a mutex that these hold.
CheckpointEnds == (gc = "visit") ~> (gc = "done")

\* A thread that blocks for weak reference access waits "for GC's sweeping to
\* complete" (system_weak.h), and then goes on.  The mutex it may hold is
\* jni_libraries_lock_, in UnloadNativeLibraries.  (RegisterDexFile, with
\* dex_lock_, keeps collections out by a ScopedGCCriticalSection.)
WeakAccessReturns == \A t \in Mutators : (pc[t] = "wWait") ~> (pc[t] = "access")
==============================================================================
