----------------------------- MODULE FutexMutex -----------------------------
(***************************************************************************)
(* art::Mutex and art::ConditionVariable in their futex build              *)
(* (runtime/base/mutex.cc, ART_USE_FUTEXES): one mutex, one condition      *)
(* variable guarded by it, and the threads that use them.                  *)
(*                                                                         *)
(* state_and_contenders_ is kept as its two fields: heldBit (bit 0) and    *)
(* contenders (the remaining bits).  The kernel's futex queues are the     *)
(* sets mutexQ (threads asleep on state_and_contenders_) and condQ         *)
(* (threads asleep on sequence_).  A load followed by a compare-and-set    *)
(* that retries on failure is one step; every other access to a shared     *)
(* word made without the lock is a step of its own.                        *)
(***************************************************************************)
EXTENDS Naturals, FiniteSets

CONSTANTS
  Threads,        \* the threads that use the mutex
  NoThread,       \* exclusive_owner_ == 0
  Recursive,      \* recursive_
  MaxRecursion,   \* bound on recursion_count_
  MaxSequence     \* bound on the number of signals (sequence_ is 32 bits wide)

ASSUME ThreadsAssumption == IsFiniteSet(Threads) /\ NoThread \notin Threads
ASSUME RecursionAssumption == Recursive \in BOOLEAN /\ MaxRecursion \in Nat \ {0}
ASSUME SequenceAssumption == MaxSequence \in Nat

VARIABLES
  heldBit,          \* state_and_contenders_ & kHeldMask
  contenders,       \* state_and_contenders_ >> kContenderShift
  exclusiveOwner,   \* exclusive_owner_
  recursionCount,   \* recursion_count_
  sequence,         \* ConditionVariable::sequence_
  numWaiters,       \* ConditionVariable::num_waiters_
  mutexQ,           \* threads asleep in FUTEX_WAIT on state_and_contenders_
  condQ,            \* threads asleep in FUTEX_WAIT on sequence_
  pc,               \* where each thread is
  expected,         \* the value a thread passes to FUTEX_WAIT
  inWait,           \* thread is inside ConditionVariable::Wait
  savedRecursion,   \* old_recursion_count of a waiting thread
  depth             \* history: ExclusiveLock calls less ExclusiveUnlock calls of each thread

lockVars == <<heldBit, contenders, exclusiveOwner, recursionCount>>
condVars == <<sequence, numWaiters>>
queues   == <<mutexQ, condQ>>
waitVars == <<inWait, savedRecursion, depth>>
vars == <<lockVars, condVars, queues, waitVars, pc, expected>>

Init ==
  /\ heldBit = FALSE
  /\ contenders = 0
  /\ exclusiveOwner = NoThread
  /\ recursionCount = 0
  /\ sequence = 0
  /\ numWaiters = 0
  /\ mutexQ = {}
  /\ condQ = {}
  /\ pc = [t \in Threads |-> "idle"]
  /\ expected = [t \in Threads |-> 0]
  /\ inWait = [t \in Threads |-> FALSE]
  /\ savedRecursion = [t \in Threads |-> 0]
  /\ depth = [t \in Threads |-> 0]

Goto(t, label) == pc' = [pc EXCEPT ![t] = label]

-----------------------------------------------------------------------------
(* Mutex::ExclusiveLock                                                    *)

\* A thread that does not hold the mutex calls ExclusiveLock.
Lock(t) ==
  /\ pc[t] = "idle"
  /\ Goto(t, "lock")
  /\ UNCHANGED <<lockVars, condVars, queues, waitVars, expected>>

\* The holder of a recursive mutex calls ExclusiveLock (or ExclusiveTryLock).
LockAgain(t) ==
  /\ pc[t] = "held"
  /\ Recursive /\ exclusiveOwner = t
  /\ recursionCount < MaxRecursion
  /\ recursionCount' = recursionCount + 1
  /\ depth' = [depth EXCEPT ![t] = @ + 1]
  /\ UNCHANGED <<heldBit, contenders, exclusiveOwner, condVars, queues, inWait, savedRecursion, pc,
                 expected>>

\* Mutant: a plain store in place of the compare-and-set.
AcquireByStore(t) ==
  /\ pc[t] = "lock"
  /\ heldBit' = TRUE
  /\ Goto(t, "locked")
  /\ UNCHANGED <<contenders, exclusiveOwner, recursionCount, condVars, queues, waitVars, expected>>

\* The load sees the bit clear and the compare-and-set succeeds.
AcquireCas(t) ==
  /\ pc[t] = "lock"
  /\ ~heldBit
  /\ heldBit' = TRUE
  /\ Goto(t, "locked")
  /\ UNCHANGED <<contenders, exclusiveOwner, recursionCount, condVars, queues, waitVars, expected>>

\* The load sees the bit set; cur_state + kContenderIncrement is what the
\* futex will be asked to compare with.
Contend(t) ==
  /\ pc[t] = "lock"
  /\ heldBit
  /\ expected' = [expected EXCEPT ![t] = contenders + 1]
  /\ Goto(t, "increment")
  /\ UNCHANGED <<lockVars, condVars, queues, waitVars>>

IncrementContenders(t) ==
  /\ pc[t] = "increment"
  /\ contenders' = contenders + 1
  /\ Goto(t, "futexWait")
  /\ UNCHANGED <<heldBit, exclusiveOwner, recursionCount, condVars, queues, waitVars, expected>>

\* Mutant: after EAGAIN the loop starts over without decrement_contenders.
FutexWaitKeepsContender(t) ==
  /\ pc[t] = "futexWait"
  /\ \/ /\ heldBit /\ contenders = expected[t]
        /\ mutexQ' = mutexQ \cup {t}
        /\ Goto(t, "asleep")
     \/ /\ ~(heldBit /\ contenders = expected[t])
        /\ Goto(t, "lock")
        /\ UNCHANGED mutexQ
  /\ expected' = [expected EXCEPT ![t] = 0]
  /\ UNCHANGED <<lockVars, condVars, condQ, waitVars>>

\* FUTEX_WAIT: sleep if the word still holds the expected value, else EAGAIN.
FutexWait(t) ==
  /\ pc[t] = "futexWait"
  /\ \/ /\ heldBit /\ contenders = expected[t]
        /\ mutexQ' = mutexQ \cup {t}
        /\ Goto(t, "asleep")
     \/ /\ ~(heldBit /\ contenders = expected[t])
        /\ Goto(t, "decrement")
        /\ UNCHANGED mutexQ
  /\ expected' = [expected EXCEPT ![t] = 0]
  /\ UNCHANGED <<lockVars, condVars, condQ, waitVars>>

DecrementContenders(t) ==
  /\ pc[t] = "decrement"
  /\ contenders' = contenders - 1
  /\ Goto(t, "lock")
  /\ UNCHANGED <<heldBit, exclusiveOwner, recursionCount, condVars, queues, waitVars, expected>>

\* The bit is ours: record the owner and the recursion count and return, to
\* the caller or into the rest of ConditionVariable::Wait.
SetOwner(t) ==
  /\ pc[t] = "locked"
  /\ exclusiveOwner' = t
  /\ recursionCount' = recursionCount + 1
  /\ depth' = IF inWait[t] THEN depth ELSE [depth EXCEPT ![t] = @ + 1]
  /\ Goto(t, IF inWait[t] THEN "waitExit" ELSE "held")
  /\ UNCHANGED <<heldBit, contenders, condVars, queues, inWait, savedRecursion, expected>>

\* Mutex::ExclusiveTryLock when it succeeds; when the bit is set it returns
\* false and changes nothing.
TryLock(t) ==
  /\ pc[t] = "idle"
  /\ ~heldBit
  /\ heldBit' = TRUE
  /\ Goto(t, "locked")
  /\ UNCHANGED <<contenders, exclusiveOwner, recursionCount, condVars, queues, waitVars, expected>>

-----------------------------------------------------------------------------
(* Mutex::ExclusiveUnlock                                                  *)

\* recursion_count_ goes down; the last unlock clears exclusive_owner_ before
\* it touches state_and_contenders_.
Unlock(t) ==
  /\ pc[t] = "held"
  /\ recursionCount' = recursionCount - 1
  /\ \/ /\ Recursive /\ recursionCount' # 0
        /\ UNCHANGED <<exclusiveOwner, pc>>
     \/ /\ ~Recursive \/ recursionCount' = 0
        /\ exclusiveOwner' = NoThread
        /\ Goto(t, "unlockCas")
  /\ depth' = [depth EXCEPT ![t] = @ - 1]
  /\ UNCHANGED <<heldBit, contenders, condVars, queues, inWait, savedRecursion, expected>>

\* Where ExclusiveUnlock returns to.
AfterUnlock(t) == IF inWait[t] THEN "condFutexWait" ELSE "idle"

\* Mutant: the contenders are not woken.
UnlockWithoutWake(t) ==
  /\ pc[t] = "unlockCas"
  /\ heldBit' = FALSE
  /\ Goto(t, AfterUnlock(t))
  /\ UNCHANGED <<contenders, exclusiveOwner, recursionCount, condVars, queues, waitVars, expected>>

UnlockCas(t) ==
  /\ pc[t] = "unlockCas"
  /\ heldBit' = FALSE
  /\ Goto(t, IF contenders # 0 THEN "wake" ELSE AfterUnlock(t))
  /\ UNCHANGED <<contenders, exclusiveOwner, recursionCount, condVars, queues, waitVars, expected>>

\* Where a sleeper resumes: a lock contender ("asleep") after the FUTEX_WAIT
\* of ExclusiveLock, a waiter of the condition variable ("condAsleep", even
\* when requeued onto the mutex's futex) at the ExclusiveLock call of Wait.
AfterSleep(t) == IF pc[t] = "condAsleep" THEN "lock" ELSE "decrement"

\* FUTEX_WAKE of one sleeper, any of them; nothing when there is none.
FutexWakeOne(t) ==
  /\ pc[t] = "wake"
  /\ \/ /\ mutexQ = {}
        /\ Goto(t, AfterUnlock(t))
        /\ UNCHANGED mutexQ
     \/ \E w \in mutexQ :
          /\ mutexQ' = mutexQ \ {w}
          /\ pc' = [pc EXCEPT ![t] = AfterUnlock(t), ![w] = AfterSleep(w)]
  /\ UNCHANGED <<lockVars, condVars, condQ, waitVars, expected>>

\* A FUTEX_WAIT that returns without a wake of this mutex: EINTR, the timeout
\* of TimedWait, or WakeupToRespondToEmptyCheckpoint.
WakeEarly(t) ==
  /\ pc[t] \in {"asleep", "condAsleep"}
  /\ mutexQ' = mutexQ \ {t}
  /\ condQ' = condQ \ {t}
  /\ Goto(t, AfterSleep(t))
  /\ UNCHANGED <<lockVars, condVars, waitVars, expected>>

-----------------------------------------------------------------------------
(* ConditionVariable                                                       *)

\* WaitHoldingLocks and TimedWait up to the point where ExclusiveUnlock has
\* cleared the owner.  All of it but the contender count is under the mutex.
Wait(t) ==
  /\ pc[t] = "held"
  /\ numWaiters' = numWaiters + 1
  /\ contenders' = contenders + 1
  /\ savedRecursion' = [savedRecursion EXCEPT ![t] = recursionCount]
  /\ recursionCount' = 0
  /\ expected' = [expected EXCEPT ![t] = sequence]
  /\ inWait' = [inWait EXCEPT ![t] = TRUE]
  /\ exclusiveOwner' = NoThread
  /\ Goto(t, "unlockCas")
  /\ UNCHANGED <<heldBit, sequence, queues, depth>>

CondFutexWait(t) ==
  /\ pc[t] = "condFutexWait"
  /\ \/ /\ sequence = expected[t]
        /\ condQ' = condQ \cup {t}
        /\ Goto(t, "condAsleep")
     \/ /\ sequence # expected[t]
        /\ Goto(t, "lock")
        /\ UNCHANGED condQ
  /\ expected' = [expected EXCEPT ![t] = 0]
  /\ UNCHANGED <<lockVars, condVars, mutexQ, waitVars>>

\* Mutant: the recursion count is not restored.
WaitExitLosesRecursion(t) ==
  /\ pc[t] = "waitExit"
  /\ numWaiters' = numWaiters - 1
  /\ contenders' = contenders - 1
  /\ inWait' = [inWait EXCEPT ![t] = FALSE]
  /\ savedRecursion' = [savedRecursion EXCEPT ![t] = 0]
  /\ Goto(t, "held")
  /\ UNCHANGED <<heldBit, exclusiveOwner, recursionCount, sequence, queues, depth, expected>>

\* The mutex is ours again: stop counting as a waiter and as a contender.
WaitExit(t) ==
  /\ pc[t] = "waitExit"
  /\ numWaiters' = numWaiters - 1
  /\ contenders' = contenders - 1
  /\ recursionCount' = savedRecursion[t]
  /\ inWait' = [inWait EXCEPT ![t] = FALSE]
  /\ savedRecursion' = [savedRecursion EXCEPT ![t] = 0]
  /\ Goto(t, "held")
  /\ UNCHANGED <<heldBit, exclusiveOwner, sequence, queues, depth, expected>>

\* Mutant: sequence_ is not advanced, so a waiter on its way to sleep sleeps.
SignalWithoutSequence(t, label) ==
  /\ pc[t] = "held"
  /\ numWaiters > 0
  /\ Goto(t, label)
  /\ UNCHANGED <<lockVars, condVars, queues, waitVars, expected>>

\* RequeueWaiters, first half: with a waiter registered, advance sequence_.
\* Without one, Signal and Broadcast change nothing.
BeginSignal(t, label) ==
  /\ pc[t] = "held"
  /\ numWaiters > 0
  /\ sequence < MaxSequence
  /\ sequence' = sequence + 1
  /\ Goto(t, label)
  /\ UNCHANGED <<lockVars, numWaiters, queues, waitVars, expected>>

Signal(t) == BeginSignal(t, "requeueOne")
Broadcast(t) == BeginSignal(t, "requeueAll")

\* FUTEX_REQUEUE: move sleepers from sequence_ to state_and_contenders_; none
\* of them is woken here.
Requeue(t) ==
  /\ \/ /\ pc[t] = "requeueAll"
        /\ mutexQ' = mutexQ \cup condQ
        /\ condQ' = {}
     \/ /\ pc[t] = "requeueOne" /\ condQ = {}
        /\ UNCHANGED queues
     \/ /\ pc[t] = "requeueOne"
        /\ \E w \in condQ : mutexQ' = mutexQ \cup {w} /\ condQ' = condQ \ {w}
  /\ Goto(t, "held")
  /\ UNCHANGED <<lockVars, condVars, waitVars, expected>>

-----------------------------------------------------------------------------
\* The steps a thread takes on its own once it is inside a call.
Progress(t) ==
  \/ AcquireCas(t) \/ Contend(t) \/ IncrementContenders(t) \/ FutexWait(t)
  \/ DecrementContenders(t) \/ SetOwner(t) \/ UnlockCas(t) \/ FutexWakeOne(t)
  \/ CondFutexWait(t) \/ WaitExit(t) \/ Requeue(t)

\* The calls its program makes.
Call(t) ==
  \/ Lock(t) \/ TryLock(t) \/ LockAgain(t) \/ Unlock(t)
  \/ Wait(t) \/ Signal(t) \/ Broadcast(t)

Next == \E t \in Threads : Progress(t) \/ Call(t) \/ WakeEarly(t)

Spec == Init /\ [][Next]_vars

\* A thread inside a call keeps running, and a critical section ends.  Nothing
\* obliges a thread to lock, wait or signal, or a futex to wake up early.
Fairness == \A t \in Threads : WF_vars(Progress(t)) /\ WF_vars(Unlock(t))

FairSpec == Spec /\ Fairness

-----------------------------------------------------------------------------
Labels == {"idle", "lock", "increment", "futexWait", "asleep", "decrement", "locked", "held",
           "unlockCas", "wake", "condFutexWait", "condAsleep", "waitExit",
           "requeueOne", "requeueAll"}

\* The labels at which a thread has the bit of state_and_contenders_ set for it.
Holding == {"locked", "held", "unlockCas", "waitExit", "requeueOne", "requeueAll"}

\* The labels at which ExclusiveLock counts the thread as a contender.
Contending == {"futexWait", "asleep", "decrement"}

\* Type correctness of the mutex, the condition variable and the control state.
TypeOK ==
  /\ heldBit \in BOOLEAN
  /\ contenders \in Nat
  /\ exclusiveOwner \in Threads \cup {NoThread}
  /\ recursionCount \in Nat
  /\ sequence \in Nat
  /\ numWaiters \in Nat
  /\ mutexQ \subseteq Threads
  /\ condQ \subseteq Threads
  /\ pc \in [Threads -> Labels]
  /\ expected \in [Threads -> Nat]
  /\ inWait \in [Threads -> BOOLEAN]
  /\ savedRecursion \in [Threads -> Nat]
  /\ depth \in [Threads -> Nat]

\* Mutual exclusion: at most one thread is between a successful acquisition and
\* the release of the bit, and the bit is set exactly then.
MutualExclusion ==
  /\ \A t, u \in Threads : pc[t] \in Holding /\ pc[u] \in Holding => t = u
  /\ heldBit <=> \E t \in Threads : pc[t] \in Holding

\* The DCHECKs of ExclusiveLock and ExclusiveUnlock: a thread that has just won
\* the bit finds no owner recorded although the previous owner's store is not
\* ordered by the mutex, and the recorded owner is always the thread inside.
OwnerConsistent ==
  \A t \in Threads :
    /\ pc[t] = "locked" => exclusiveOwner = NoThread /\ recursionCount = 0
    /\ exclusiveOwner = t <=> pc[t] \in Holding \ {"locked", "unlockCas"}

\* The contender count is exact: it is the number of threads waiting for the
\* bit plus the waiters of the condition variable, so neither CHECK_GT(
\* get_contenders(), 0) nor CHECK_GT(num_waiters_, 0) can fail and no
\* decrement can borrow from the held bit.
ContendersExact ==
  /\ contenders = Cardinality({t \in Threads : pc[t] \in Contending})
                   + Cardinality({t \in Threads : inWait[t]})
  /\ numWaiters = Cardinality({t \in Threads : inWait[t]})

\* No lost wakeup: while a thread sleeps on the mutex and the mutex is free,
\* some awake thread is still going to wake it or to take the mutex itself
\* (and wake it when it unlocks).
NoLostWakeup ==
  mutexQ # {} /\ ~heldBit =>
    \E t \in Threads : pc[t] \in {"wake", "decrement", "lock", "increment", "futexWait"}

\* The waiters no signal has reached: asleep on the condition variable, or on
\* their way there with the current value of sequence_.
Unnotified ==
  {w \in Threads : \/ w \in condQ
                   \/ /\ inWait[w]
                      /\ pc[w] \in {"unlockCas", "wake", "condFutexWait"}
                      /\ expected[w] = sequence}

\* A signal is never lost, not even on a waiter that has released the mutex but
\* not reached its FUTEX_WAIT: a Broadcast leaves no waiter unnotified, and a
\* Signal notifies one unless all of them were notified before.
SignalReaches ==
  [][\A t \in Threads :
       /\ pc[t] = "requeueAll" /\ pc'[t] = "held" => Unnotified' = {}
       /\ pc[t] = "requeueOne" /\ pc'[t] = "held" =>
            Unnotified' = {} \/ Unnotified' # Unnotified]_vars

\* recursion_count_ agrees with the lock calls of the thread inside, although
\* Wait hides the count while others hold the mutex; an unlock that should not
\* release the mutex never does, and the one that should always does.
RecursionMatchesCalls ==
  \A t \in Threads :
    /\ pc[t] = "held" => recursionCount = depth[t] /\ depth[t] > 0
    /\ inWait[t] => savedRecursion[t] = depth[t]
    /\ pc[t] = "idle" => depth[t] = 0

=============================================================================
