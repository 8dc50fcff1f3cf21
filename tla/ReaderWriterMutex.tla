-------------------------- MODULE ReaderWriterMutex --------------------------
(***************************************************************************)
(* art::ReaderWriterMutex in its futex build (runtime/base/mutex.cc,       *)
(* mutex-inl.h).  Its state is split over three words: state_ (-1 held     *)
(* exclusively, n > 0 held by n readers), num_pending_readers_ and         *)
(* num_pending_writers_, which an unlock reads one after the other once it *)
(* has changed state_.  A load followed by a compare-and-set that retries  *)
(* on failure is one step; every other access is a step of its own.        *)
(***************************************************************************)
EXTENDS Integers, FiniteSets

CONSTANTS
  Threads,        \* the threads that use the mutex
  NoThread        \* exclusive_owner_ == 0

ASSUME ThreadsAssumption == IsFiniteSet(Threads) /\ NoThread \notin Threads

VARIABLES
  state,          \* state_
  exclusiveOwner, \* exclusive_owner_
  pending,        \* num_pending_readers_ and num_pending_writers_
  sleepers,       \* threads asleep in FUTEX_WAIT on state_
  pc,             \* where each thread is
  mode,           \* how it wants or has the mutex
  timed,          \* it is in ExclusiveLockWithTimeout
  expected        \* the value it passes to FUTEX_WAIT

words == <<state, exclusiveOwner, pending>>
calls == <<mode, timed>>
vars == <<words, sleepers, pc, calls, expected>>

Modes == {"shared", "exclusive"}

Init ==
  /\ state = 0
  /\ exclusiveOwner = NoThread
  /\ pending = [m \in Modes |-> 0]
  /\ sleepers = {}
  /\ pc = [t \in Threads |-> "idle"]
  /\ mode = [t \in Threads |-> "shared"]
  /\ timed = [t \in Threads |-> FALSE]
  /\ expected = [t \in Threads |-> 0]

Goto(t, label) == pc' = [pc EXCEPT ![t] = label]

-----------------------------------------------------------------------------
(* Locking                                                                 *)

\* SharedLock, ExclusiveLock or ExclusiveLockWithTimeout is called.
Lock(t, m, withTimeout) ==
  /\ pc[t] = "idle"
  /\ withTimeout => m = "exclusive"
  /\ mode' = [mode EXCEPT ![t] = m]
  /\ timed' = [timed EXCEPT ![t] = withTimeout]
  /\ Goto(t, "acquire")
  /\ UNCHANGED <<words, sleepers, expected>>

\* Mutant: a writer takes the mutex from readers.
AdmitsUnlessExclusive(m) == state >= 0

\* The values of state_ at which the compare-and-set is tried.
Admits(m) == IF m = "shared" THEN state >= 0 ELSE state = 0

\* The compare-and-set succeeds; a writer has still to record itself as owner.
Take(t, m) ==
  /\ Admits(m)
  /\ state' = IF m = "shared" THEN state + 1 ELSE -1
  /\ Goto(t, IF m = "shared" THEN "held" ELSE "setOwner")

Acquire(t) ==
  /\ pc[t] = "acquire"
  /\ Take(t, mode[t])
  /\ UNCHANGED <<exclusiveOwner, pending, sleepers, calls, expected>>

\* SharedTryLock when it succeeds; otherwise it changes nothing.
SharedTryLock(t) ==
  /\ pc[t] = "idle"
  /\ Take(t, "shared")
  /\ mode' = [mode EXCEPT ![t] = "shared"]
  /\ UNCHANGED <<exclusiveOwner, pending, sleepers, timed, expected>>

SetOwner(t) ==
  /\ pc[t] = "setOwner"
  /\ exclusiveOwner' = t
  /\ Goto(t, "held")
  /\ UNCHANGED <<state, pending, sleepers, calls, expected>>

-----------------------------------------------------------------------------
(* Waiting                                                                 *)

\* The load finds the mutex taken.
Contend(t) ==
  /\ pc[t] = "acquire"
  /\ ~Admits(mode[t])
  /\ expected' = [expected EXCEPT ![t] = state]
  /\ Goto(t, "increment")
  /\ UNCHANGED <<words, sleepers, calls>>

\* The load finds it taken and the time is up.
TimedOut(t) ==
  /\ pc[t] = "acquire"
  /\ ~Admits(mode[t]) /\ timed[t]
  /\ Goto(t, "idle")
  /\ UNCHANGED <<words, sleepers, calls, expected>>

IncrementPending(t) ==
  /\ pc[t] = "increment"
  /\ pending' = [pending EXCEPT ![mode[t]] = @ + 1]
  /\ Goto(t, "futexWait")
  /\ UNCHANGED <<state, exclusiveOwner, sleepers, calls, expected>>

\* Mutant: the thread sleeps whatever state_ is now.
FutexWaitUnchecked(t) ==
  /\ pc[t] = "futexWait"
  /\ sleepers' = sleepers \cup {t}
  /\ Goto(t, "asleep")
  /\ UNCHANGED <<words, calls, expected>>

\* FUTEX_WAIT: sleep if state_ still holds the value loaded, else EAGAIN.
FutexWait(t) ==
  /\ pc[t] = "futexWait"
  /\ \/ /\ state = expected[t]
        /\ sleepers' = sleepers \cup {t}
        /\ Goto(t, "asleep")
     \/ /\ state # expected[t]
        /\ Goto(t, "decrement")
        /\ UNCHANGED sleepers
  /\ expected' = [expected EXCEPT ![t] = 0]
  /\ UNCHANGED <<words, calls>>

\* EINTR, or the wake-all of an empty checkpoint; a timeout gives up.
WakeEarly(t, label) ==
  /\ pc[t] = "asleep"
  /\ label = "giveUp" => timed[t]
  /\ sleepers' = sleepers \ {t}
  /\ Goto(t, label)
  /\ UNCHANGED <<words, calls, expected>>

\* Mutant: giving up forgets to decrement.
DecrementUnlessTimedOut(t) ==
  /\ pc[t] \in {"decrement", "giveUp"}
  /\ pending' = IF pc[t] = "giveUp" THEN pending ELSE [pending EXCEPT ![mode[t]] = @ - 1]
  /\ Goto(t, IF pc[t] = "giveUp" THEN "idle" ELSE "acquire")
  /\ UNCHANGED <<state, exclusiveOwner, sleepers, calls, expected>>

DecrementPending(t) ==
  /\ pc[t] \in {"decrement", "giveUp"}
  /\ pending' = [pending EXCEPT ![mode[t]] = @ - 1]
  /\ Goto(t, IF pc[t] = "giveUp" THEN "idle" ELSE "acquire")
  /\ UNCHANGED <<state, exclusiveOwner, sleepers, calls, expected>>

-----------------------------------------------------------------------------
(* Unlocking                                                               *)

\* ExclusiveUnlock clears exclusive_owner_ before it changes state_.
ClearOwner(t) ==
  /\ pc[t] = "held" /\ mode[t] = "exclusive"
  /\ exclusiveOwner' = NoThread
  /\ Goto(t, "unlock")
  /\ UNCHANGED <<state, pending, sleepers, calls, expected>>

ExclusiveUnlock(t) ==
  /\ pc[t] = "unlock"
  /\ state' = 0
  /\ Goto(t, "look")
  /\ UNCHANGED <<exclusiveOwner, pending, sleepers, calls, expected>>

\* The last reader looks for waiters.
SharedUnlock(t) ==
  /\ pc[t] = "held" /\ mode[t] = "shared"
  /\ state' = state - 1
  /\ Goto(t, IF state = 1 THEN "look" ELSE "idle")
  /\ UNCHANGED <<exclusiveOwner, pending, sleepers, calls, expected>>

\* A writer that unlocks looks at num_pending_readers_ first, a reader at
\* num_pending_writers_; the other count is read only when the first is zero.
Look(t) ==
  /\ pc[t] = "look"
  /\ LET first == IF mode[t] = "exclusive" THEN "shared" ELSE "exclusive"
     IN  Goto(t, IF pending[first] > 0 THEN "wake" ELSE "lookAgain")
  /\ UNCHANGED <<words, sleepers, calls, expected>>

\* Mutant: an unlock waits for the waiters of its own kind to go away.
LookAgainUntilNone(t) ==
  /\ pc[t] = "lookAgain"
  /\ Goto(t, IF pending[mode[t]] > 0 THEN "lookAgain" ELSE "idle")
  /\ UNCHANGED <<words, sleepers, calls, expected>>

LookAgain(t) ==
  /\ pc[t] = "lookAgain"
  /\ Goto(t, IF pending[mode[t]] > 0 THEN "wake" ELSE "idle")
  /\ UNCHANGED <<words, sleepers, calls, expected>>

\* FUTEX_WAKE of all sleepers.
WakeAll(t) ==
  /\ pc[t] = "wake"
  /\ sleepers' = {}
  /\ pc' = [u \in Threads |-> IF u = t THEN "idle"
                              ELSE IF u \in sleepers THEN "decrement" ELSE pc[u]]
  /\ UNCHANGED <<words, calls, expected>>

-----------------------------------------------------------------------------
\* The steps a thread takes on its own once it is inside a call.
Progress(t) ==
  \/ Acquire(t) \/ SetOwner(t)
  \/ Contend(t) \/ IncrementPending(t) \/ FutexWait(t) \/ DecrementPending(t)
  \/ ExclusiveUnlock(t) \/ Look(t) \/ LookAgain(t) \/ WakeAll(t)

Call(t) ==
  \/ \E m \in Modes, b \in BOOLEAN : Lock(t, m, b)
  \/ SharedTryLock(t) \/ ClearOwner(t) \/ SharedUnlock(t)

\* What time and the kernel may do to a thread.
Interrupt(t) == TimedOut(t) \/ \E label \in {"decrement", "giveUp"} : WakeEarly(t, label)

Next == \E t \in Threads : Progress(t) \/ Call(t) \/ Interrupt(t)

Spec == Init /\ [][Next]_vars

\* A thread inside a call keeps running, and critical sections end.
Fairness ==
  \A t \in Threads : WF_vars(Progress(t)) /\ WF_vars(ClearOwner(t)) /\ WF_vars(SharedUnlock(t))

FairSpec == Spec /\ Fairness

-----------------------------------------------------------------------------
Labels == {"idle", "acquire", "setOwner", "held", "increment", "futexWait", "asleep", "decrement",
           "giveUp", "unlock", "look", "lookAgain", "wake"}

\* The threads that have the mutex exclusively, and those that share it.
Writers == {t \in Threads : \/ pc[t] \in {"setOwner", "unlock"}
                            \/ pc[t] = "held" /\ mode[t] = "exclusive"}
Readers == {t \in Threads : pc[t] = "held" /\ mode[t] = "shared"}

\* The threads that count as pending.
Pending(m) == {t \in Threads : mode[t] = m /\ pc[t] \in {"futexWait", "asleep", "decrement", "giveUp"}}

\* Every word keeps its type; neither pending count is decremented below zero.
TypeOK ==
  /\ state \in Int /\ state >= -1
  /\ exclusiveOwner \in Threads \cup {NoThread}
  /\ pending \in [Modes -> Nat]
  /\ sleepers \subseteq Threads
  /\ pc \in [Threads -> Labels]
  /\ mode \in [Threads -> Modes]
  /\ timed \in [Threads -> BOOLEAN]
  /\ expected \in [Threads -> Int]

\* The abstract lock; acquisitions take effect at the compare-and-set.
Lk == INSTANCE SharedLock WITH
        writer <- IF Writers = {} THEN NoThread ELSE CHOOSE t \in Threads : t \in Writers,
        readers <- Readers

\* The mutex is a lock that one thread has exclusively or several share,
\* whatever ExclusiveLock, SharedLock and the unlocks interleave with.
ImplementsLock == Lk!Spec

\* The DCHECKs of SharedLock and ExclusiveLock on exclusive_owner_ hold although
\* it is a word of its own, written after state_ is taken and before it is
\* released: readers and a writer that has just won find it clear.
OwnerExact ==
  \A t \in Threads :
    /\ t \in Readers => exclusiveOwner = NoThread
    /\ pc[t] = "setOwner" => exclusiveOwner = NoThread
    /\ exclusiveOwner = t <=> pc[t] = "held" /\ mode[t] = "exclusive"

\* The pending counts are exact, so the CHECKs of the destructor hold once
\* nobody uses the mutex.
PendingExact == \A m \in Modes : pending[m] = Cardinality(Pending(m))

\* No lost wakeup, although an unlock reads the pending counts after it has let
\* go of the mutex and one at a time: while a reader sleeps and the mutex is not
\* held exclusively, or a writer sleeps and it is free, the thread whose unlock
\* made it so is still going to see the sleeper's count, or to wake it.
NoLostWakeup ==
  \A t \in sleepers :
    \/ state = -1
    \/ state > 0 /\ mode[t] = "exclusive"
    \/ \E u \in Threads :
         \/ pc[u] \in {"look", "wake"}
         \/ pc[u] = "lookAgain" /\ mode[u] = mode[t]

\* While a thread that waits without a timeout sleeps, the mutex does not stay
\* free: somebody, not always the sleeper, takes it.
FreeMutexIsTaken ==
  \A t \in Threads : (pc[t] = "asleep" /\ ~timed[t] /\ state = 0) ~> (state # 0)
=============================================================================
