------------------------------- MODULE Barrier -------------------------------
(***************************************************************************)
(* The counting barrier (runtime/barrier.cc): threads that pass it count   *)
(* it down, whoever waits adds the number of passes it expects and sleeps  *)
(* until the count is zero.  Passes may come first; the count is then      *)
(* negative.  Each critical section under the barrier's lock is one step.  *)
(***************************************************************************)
EXTENDS Integers

VARIABLES
  count,        \* count_
  asleep        \* the threads asleep on condition_

barrier == <<count, asleep>>

BarrierInit == count = 0 /\ asleep = {}

\* SetCountLocked wakes everybody when the count becomes zero.
SetCountLocked(n) ==
  /\ count' = n
  /\ asleep' = IF n = 0 THEN {} ELSE asleep

InitBarrier(n) == SetCountLocked(n)

Pass == SetCountLocked(count - 1)

\* Increment adds delta and sleeps unless that makes the count zero.
Increment(t, delta) ==
  /\ count' = count + delta
  /\ asleep' = IF count + delta = 0 THEN {} ELSE asleep \cup {t}

\* A thread that was woken returns, or sleeps again.
IncrementReturns(t) == t \notin asleep /\ count = 0 /\ UNCHANGED barrier
SleepAgain(t) == t \notin asleep /\ count # 0 /\ asleep' = asleep \cup {t} /\ UNCHANGED count

\* The wait is over early (EINTR).
WakeEarly(t) == t \in asleep /\ asleep' = asleep \ {t} /\ UNCHANGED count

\* The timed Increment times out in its wait, and reports that whatever the count
\* has become, or after a wake with no time left.
IncrementTimesOut(t) ==
  /\ t \in asleep \/ count # 0
  /\ asleep' = asleep \ {t}
  /\ UNCHANGED count
==============================================================================
