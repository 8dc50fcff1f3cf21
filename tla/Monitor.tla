---------------------------- MODULE Monitor ----------------------------
(***************************************************************************)
(* The lock of one Java object: the lock word (unlocked, thin locked, hash *)
(* code or pointer to a Monitor) and the Monitor it is inflated to, with   *)
(* MonitorEnter, MonitorExit, Wait, Notify and IdentityHashCode run by the *)
(* threads and DeflateMonitors run by a collector that has stopped them.   *)
(*                                                                         *)
(* A step is one access to the lock word (a load and the CAS that retries  *)
(* on it), or one critical section of monitor_lock_.  The wait mutex of a  *)
(* thread that waits is held from before it releases monitor_lock_ until   *)
(* it sleeps, so a thread enters its sleep in the step that releases the   *)
(* monitor.  The read barrier bits of the word are left out.               *)
(***************************************************************************)
EXTENDS Naturals, Sequences, Functions, FiniteSets

CONSTANTS Threads, None,
          kThinLockMaxCount,   \* the largest count a thin lock can hold
          Hashes,              \* what GenerateIdentityHashCode may return
          MaxDepth             \* bound: how deep one thread locks the object

ASSUME MonitorAssumption ==
  /\ IsFiniteSet(Threads) /\ None \notin Threads
  /\ kThinLockMaxCount \in Nat
  /\ Hashes \subseteq Nat \ {0}
  /\ MaxDepth \in Nat

VARIABLES
  word,      \* the object's lock word
  mon,       \* the Monitor: owner_, lock_count_, num_waiters_, hash_code_
  waitSet,   \* wait_set_, threads linked by wait_next_
  wakeSet,   \* wake_set_
  pc, op,    \* where each thread is, and in which call
  prev,      \* prev_lock_count of a thread in Wait
  inflate,   \* the owner and hash code a thread inflates with
  requests,  \* suspend count raised on each thread by inflating threads
  stopping,  \* the collector is suspending, or has suspended, all threads
  returned,  \* history: the identity hash codes that callers were given
  entered    \* history: the enters of each thread without an exit yet

history == <<returned, entered>>
vars == <<word, mon, waitSet, wakeSet, pc, op, prev, inflate, requests, stopping,
          history>>

Enters == {"MonitorEnter", "TryEnter"}
Calls == Enters \union {"MonitorExit", "Wait", "Notify", "NotifyAll", "IdentityHashCode"}

Unlocked == [state |-> "unlocked", owner |-> None, count |-> 0, hash |-> 0]
ThinLocked(t, c) == [state |-> "thin", owner |-> t, count |-> c, hash |-> 0]
HashCode(h) == [state |-> "hash", owner |-> None, count |-> 0, hash |-> h]
FatLocked == [state |-> "fat", owner |-> None, count |-> 0, hash |-> 0]
MonitorWith(o, c, w, h) == [owner |-> o, count |-> c, waiters |-> w, hash |-> h]
NewMonitor(t, c, h) == MonitorWith(t, c, 0, h)
\* The Monitor changes, but not its hash code.
Held(o, c, w) == MonitorWith(o, c, w, mon.hash)
Nothing == [owner |-> None, hash |-> 0]

Init ==
  /\ word = Unlocked
  /\ mon = NewMonitor(None, 0, 0)
  /\ waitSet = <<>> /\ wakeSet = <<>>
  /\ pc = [t \in Threads |-> "managed"]
  /\ op = [t \in Threads |-> "none"]
  /\ prev = [t \in Threads |-> 0]
  /\ inflate = [t \in Threads |-> Nothing]
  /\ requests = [t \in Threads |-> 0]
  /\ stopping = FALSE
  /\ returned = {}
  /\ entered = [t \in Threads |-> 0]

(***************************************************************************)
(* Suspension, as ThreadList provides it: a thread that has given up its   *)
(* share of the mutator lock takes it back only while nobody suspends it.  *)
(***************************************************************************)
Suspended(t) == pc[t] \in {"parked", "blocked", "contending", "woken", "waiting",
                           "awake", "suspendOwner", "awaitOwner"}
CanRun(t) == ~stopping /\ requests[t] = 0

Park(t) ==
  /\ pc[t] = "managed" /\ ~CanRun(t)
  /\ pc' = [pc EXCEPT ![t] = "parked"]
  /\ UNCHANGED <<word, mon, waitSet, wakeSet, op, prev, inflate, requests, stopping, history>>

Unpark(t) ==
  /\ pc[t] = "parked" /\ CanRun(t)
  /\ pc' = [pc EXCEPT ![t] = "managed"]
  /\ UNCHANGED <<word, mon, waitSet, wakeSet, op, prev, inflate, requests, stopping, history>>

SuspendAll ==
  /\ ~stopping
  /\ stopping' = TRUE
  /\ UNCHANGED <<word, mon, waitSet, wakeSet, pc, op, prev, inflate, requests, history>>

\* Call o of t looks at the lock word: for the first time or in another round
\* of its loop.
At(t, o) == \/ pc[t] = "managed"
            \/ pc[t] = "loop" /\ op[t] = o
Goto(t, l, o) == /\ pc' = [pc EXCEPT ![t] = l]
                 /\ op' = [op EXCEPT ![t] = o]
Return(t) == Goto(t, "managed", "none")
Thin(t) == word.state = "thin" /\ word.owner = t
ThinByOther(t) == word.state = "thin" /\ word.owner # t
Depth(t) == IF Thin(t) THEN word.count + 1
            ELSE IF word.state = "fat" /\ mon.owner = t THEN mon.count + 1 ELSE 0

(***************************************************************************)
(* Inflation.                                                              *)
(***************************************************************************)
\* InflateThinLocked for an owner that is another thread: give up the mutator
\* lock and ask for the owner to be suspended; the requester first lets
\* whoever suspends it have its way.
SuspendThreadByThreadId(t) ==
  /\ pc[t] = "suspendOwner" /\ CanRun(t)
  /\ requests' = [requests EXCEPT ![inflate[t].owner] = @ + 1]
  /\ pc' = [pc EXCEPT ![t] = "awaitOwner"]
  /\ UNCHANGED <<word, mon, waitSet, wakeSet, op, prev, inflate, stopping, history>>

\* The owner is suspended and the requester runnable again: inflate only if
\* the word still is the thin lock of that owner, else resume the owner.
OwnerSuspended(t) ==
  /\ pc[t] = "awaitOwner" /\ Suspended(inflate[t].owner) /\ CanRun(t)
  /\ IF Thin(inflate[t].owner)
     THEN pc' = [pc EXCEPT ![t] = "install"] /\ UNCHANGED <<inflate, requests>>
     ELSE /\ requests' = [requests EXCEPT ![inflate[t].owner] = @ - 1]
          /\ inflate' = [inflate EXCEPT ![t] = Nothing]
          /\ pc' = [pc EXCEPT ![t] = "loop"]
  /\ UNCHANGED <<word, mon, waitSet, wakeSet, op, prev, stopping, history>>

\* SuspendThreadByThreadId returned no thread: it timed out on an owner that does
\* not suspend and took its request back, or the owner has let go of the lock and
\* exited before the request (a new thread may have its id).  Nothing is inflated.
OwnerNotSuspended(t) ==
  /\ CanRun(t)
  /\ \/ /\ pc[t] = "awaitOwner" /\ ~Suspended(inflate[t].owner)
        /\ requests' = [requests EXCEPT ![inflate[t].owner] = @ - 1]
     \/ /\ pc[t] = "suspendOwner"
        /\ pc[inflate[t].owner] = "managed" /\ Depth(inflate[t].owner) = 0
        /\ UNCHANGED requests
  /\ inflate' = [inflate EXCEPT ![t] = Nothing]
  /\ pc' = [pc EXCEPT ![t] = "loop"]
  /\ UNCHANGED <<word, mon, waitSet, wakeSet, op, prev, stopping, history>>

\* Mutant: the recursion count of the thin lock is not carried over.
InstallLosesCount(t) ==
  /\ pc[t] = "install"
  /\ IF word.state = "fat" THEN UNCHANGED <<word, mon>>
     ELSE word' = FatLocked /\ mon' = NewMonitor(inflate[t].owner, 0, inflate[t].hash)
  /\ requests' = [u \in Threads |->
                    IF u = inflate[t].owner /\ u # t THEN requests[u] - 1 ELSE requests[u]]
  /\ inflate' = [inflate EXCEPT ![t] = Nothing]
  /\ pc' = [pc EXCEPT ![t] = "loop"]
  /\ UNCHANGED <<waitSet, wakeSet, op, prev, stopping, history>>

\* Inflate: make a monitor, and Install it unless another thread was faster;
\* the owner, if it was suspended for this, is resumed.
Install(t) ==
  /\ pc[t] = "install"
  /\ IF word.state = "fat" THEN UNCHANGED <<word, mon>>
     ELSE word' = FatLocked /\ mon' = NewMonitor(inflate[t].owner, word.count, inflate[t].hash)
  /\ requests' = [u \in Threads |->
                    IF u = inflate[t].owner /\ u # t THEN requests[u] - 1 ELSE requests[u]]
  /\ inflate' = [inflate EXCEPT ![t] = Nothing]
  /\ pc' = [pc EXCEPT ![t] = "loop"]
  /\ UNCHANGED <<waitSet, wakeSet, op, prev, stopping, history>>

\* The calls that inflate: with the thread's own lock, with a hash code and no
\* owner, or with the lock of another thread.
InflateWith(t, o, l, u, h) ==
  /\ Goto(t, l, o)
  /\ inflate' = [inflate EXCEPT ![t] = [owner |-> u, hash |-> h]]
  /\ UNCHANGED <<word, mon, waitSet, wakeSet, prev, requests, stopping, history>>

(***************************************************************************)
(* MonitorEnter and MonitorExit on a word that holds no monitor.           *)
(***************************************************************************)
EnterThin(t, o) ==
  /\ At(t, o) /\ Depth(t) < MaxDepth
  /\ \/ word.state = "unlocked" /\ word' = ThinLocked(t, 0)
     \/ Thin(t) /\ word.count < kThinLockMaxCount /\ word' = ThinLocked(t, word.count + 1)
  /\ entered' = [entered EXCEPT ![t] = @ + 1]
  /\ Return(t)
  /\ UNCHANGED <<mon, waitSet, wakeSet, prev, inflate, requests, stopping, returned>>

\* The recursion count is full, the word holds a hash code, or the lock is
\* another thread's; spinning first is a stutter.
EnterInflates(t, o) ==
  /\ At(t, o) /\ Depth(t) < MaxDepth
  /\ \/ Thin(t) /\ word.count = kThinLockMaxCount /\ InflateWith(t, o, "install", t, 0)
     \/ word.state = "hash" /\ InflateWith(t, o, "install", None, word.hash)
     \/ ThinByOther(t) /\ o = "MonitorEnter" /\ InflateWith(t, o, "suspendOwner", word.owner, 0)

\* MonitorEnter with trylock gives up on another thread's thin lock.
TryEnterFails(t) ==
  /\ At(t, "TryEnter") /\ ThinByOther(t)
  /\ Return(t)
  /\ UNCHANGED <<word, mon, waitSet, wakeSet, prev, inflate, requests, stopping, history>>

ExitThin(t) ==
  /\ pc[t] = "managed" /\ Thin(t)
  /\ word' = IF word.count # 0 THEN ThinLocked(t, word.count - 1) ELSE Unlocked
  /\ entered' = [entered EXCEPT ![t] = @ - 1]
  /\ UNCHANGED <<mon, waitSet, wakeSet, pc, op, prev, inflate, requests, stopping, returned>>

\* Every call on a word that points to a monitor goes on with that monitor.
UseMonitor(t, o) ==
  /\ At(t, o) /\ word.state = "fat"
  /\ o \in Enters => Depth(t) < MaxDepth
  /\ Goto(t, "fat", o)
  /\ UNCHANGED <<word, mon, waitSet, wakeSet, prev, inflate, requests, stopping, history>>

Inside(t, calls) == pc[t] = "fat" /\ op[t] \in calls

(***************************************************************************)
(* Monitor::Lock.                                                          *)
(***************************************************************************)
\* TryLockLocked, and what Lock does with its answer: take the monitor, or
\* count this thread as a waiter before letting go of monitor_lock_.
TryLock(t, waiters) ==
  IF mon.owner \in {None, t}
  THEN /\ mon' = Held(t, IF mon.owner = t THEN mon.count + 1 ELSE mon.count, waiters)
       /\ IF op[t] = "Reacquire" THEN Goto(t, "restore", op[t]) /\ entered' = entered
          ELSE Return(t) /\ entered' = [entered EXCEPT ![t] = @ + 1]
  ELSE /\ entered' = entered
       /\ IF op[t] = "TryEnter" THEN Return(t) /\ mon' = mon
          ELSE Goto(t, "blocked", op[t]) /\ mon' = Held(mon.owner, mon.count, waiters + 1)

Lock(t) ==
  /\ Inside(t, Enters \union {"Reacquire"})
  /\ TryLock(t, mon.waiters)
  /\ UNCHANGED <<word, waitSet, wakeSet, prev, inflate, requests, stopping, returned>>

\* Mutant: the owner is not looked at again before sleeping.
SleepUnchecked(t) ==
  /\ pc[t] = "blocked"
  /\ pc' = [pc EXCEPT ![t] = "contending"]
  /\ UNCHANGED <<word, mon, waitSet, wakeSet, op, prev, inflate, requests, stopping, history>>

\* The mutator lock given up, monitor_lock_ is taken again: sleep on
\* monitor_contenders_ if the monitor still is owned.
Contend(t) ==
  /\ pc[t] = "blocked"
  /\ pc' = [pc EXCEPT ![t] = IF mon.owner # None THEN "contending" ELSE "woken"]
  /\ UNCHANGED <<word, mon, waitSet, wakeSet, op, prev, inflate, requests, stopping, history>>

\* Runnable again, the contender is no longer a waiter and tries once more.
LockAgain(t) ==
  /\ pc[t] = "woken" /\ CanRun(t)
  /\ TryLock(t, mon.waiters - 1)
  /\ UNCHANGED <<word, waitSet, wakeSet, prev, inflate, requests, stopping, returned>>

(***************************************************************************)
(* Monitor::Unlock, Wait and Notify.                                       *)
(***************************************************************************)
WaitMonitorSet(l) == l \in {"waiting", "awake"}

\* SignalContendersAndReleaseMonitorLock: drop threads from wake_set_ up to
\* the first that has not yet come out of its wait, and signal that one; if
\* there is none, signal one contender.
SignalContenders(labels) ==
  LET live == {i \in DOMAIN wakeSet : WaitMonitorSet(labels[wakeSet[i]])} IN
  IF live # {}
  THEN \E i \in live :
       /\ \A j \in live : i <= j
       /\ wakeSet' = SubSeq(wakeSet, i + 1, Len(wakeSet))
       /\ pc' = [labels EXCEPT ![wakeSet[i]] = "awake"]
  ELSE /\ wakeSet' = <<>>
       /\ LET sleepers == {t \in Threads : labels[t] = "contending"} IN
          IF sleepers = {} THEN pc' = labels
          ELSE \E t \in sleepers : pc' = [labels EXCEPT ![t] = "woken"]

Unlock(t) ==
  /\ Inside(t, {"MonitorExit"})
  /\ LET managed == [pc EXCEPT ![t] = "managed"] IN
     IF mon.owner = t /\ mon.count = 0
     THEN mon' = Held(None, mon.count, mon.waiters) /\ SignalContenders(managed)
     ELSE /\ mon' = IF mon.owner = t THEN Held(t, mon.count - 1, mon.waiters) ELSE mon
          /\ pc' = managed /\ wakeSet' = wakeSet
  /\ entered' = IF mon.owner = t THEN [entered EXCEPT ![t] = @ - 1] ELSE entered
  /\ op' = [op EXCEPT ![t] = "none"]
  /\ UNCHANGED <<word, waitSet, prev, inflate, requests, stopping, returned>>

\* Object.wait on a thin lock inflates it, to have a wait set to enter.
WaitInflates(t) ==
  At(t, "Wait") /\ Thin(t) /\ InflateWith(t, "Wait", "install", t, 0)

\* Give the monitor up, however deep it is locked, enter the wait set and
\* signal a successor, all before monitor_lock_ is released; then sleep.
Wait(t) ==
  /\ Inside(t, {"Wait"})
  /\ IF mon.owner # t
     THEN Return(t) /\ UNCHANGED <<mon, waitSet, wakeSet, prev>>
     ELSE /\ prev' = [prev EXCEPT ![t] = mon.count]
          /\ mon' = Held(None, 0, mon.waiters + 1)
          /\ waitSet' = Append(waitSet, t)
          /\ op' = [op EXCEPT ![t] = "Reacquire"]
          /\ SignalContenders([pc EXCEPT ![t] = "waiting"])
  /\ UNCHANGED <<word, inflate, requests, stopping, history>>

\* The wait ends unasked: a timeout, an interrupt (also one that came before
\* the wait) or a spurious return of the condition variable, which a contender
\* can see too.
WakeUp(t) ==
  /\ pc[t] \in {"waiting", "contending"}
  /\ pc' = [pc EXCEPT ![t] = IF @ = "waiting" THEN "awake" ELSE "woken"]
  /\ UNCHANGED <<word, mon, waitSet, wakeSet, op, prev, inflate, requests, stopping, history>>

\* Runnable again, the thread clears its wait_monitor_ and goes to Lock.
EndWait(t) ==
  /\ pc[t] = "awake" /\ CanRun(t)
  /\ pc' = [pc EXCEPT ![t] = "fat"]
  /\ UNCHANGED <<word, mon, waitSet, wakeSet, op, prev, inflate, requests, stopping, history>>

\* A thread is unlinked from a list that it is in, once at most.
RemoveFromWaitSet(set, t) ==
  IF t \notin Range(set) THEN set
  ELSE LET i == CHOOSE i \in DOMAIN set : set[i] = t IN
       SubSeq(set, 1, i - 1) \o SubSeq(set, i + 1, Len(set))

\* Wait has the monitor again: it restores the count and leaves whichever set
\* it still is in.
Restore(t) ==
  /\ pc[t] = "restore"
  /\ mon' = Held(t, prev[t], mon.waiters - 1)
  /\ prev' = [prev EXCEPT ![t] = 0]
  /\ waitSet' = RemoveFromWaitSet(waitSet, t)
  /\ wakeSet' = RemoveFromWaitSet(wakeSet, t)
  /\ Return(t)
  /\ UNCHANGED <<word, inflate, requests, stopping, history>>

\* The first waiter moves to the front of wake_set_; it is signalled when the
\* monitor is released.
Notify(t) ==
  /\ Inside(t, {"Notify"})
  /\ IF mon.owner = t /\ waitSet # <<>>
     THEN waitSet' = Tail(waitSet) /\ wakeSet' = <<Head(waitSet)>> \o wakeSet
     ELSE UNCHANGED <<waitSet, wakeSet>>
  /\ Return(t)
  /\ UNCHANGED <<word, mon, prev, inflate, requests, stopping, history>>

NotifyAll(t) ==
  /\ Inside(t, {"NotifyAll"})
  /\ IF mon.owner = t
     THEN waitSet' = <<>> /\ wakeSet' = wakeSet \o waitSet
     ELSE UNCHANGED <<waitSet, wakeSet>>
  /\ Return(t)
  /\ UNCHANGED <<word, mon, prev, inflate, requests, stopping, history>>

(***************************************************************************)
(* Object::IdentityHashCode.                                               *)
(***************************************************************************)
\* The word holds a hash code, or is free to take a new one.
HashFromWord(t) ==
  /\ At(t, "IdentityHashCode")
  /\ \/ word.state = "hash" /\ word' = word
     \/ word.state = "unlocked" /\ \E h \in Hashes : word' = HashCode(h)
  /\ returned' = returned \union {word'.hash}
  /\ Return(t)
  /\ UNCHANGED <<mon, waitSet, wakeSet, prev, inflate, requests, stopping, entered>>

\* A thin lock has no room for a hash code.
HashInflates(t) ==
  /\ At(t, "IdentityHashCode") /\ word.state = "thin"
  /\ \E h \in Hashes : InflateWith(t, "IdentityHashCode",
       IF Thin(t) THEN "install" ELSE "suspendOwner", word.owner, h)

\* Monitor::GetHashCode.
GetHashCode(t) ==
  /\ Inside(t, {"IdentityHashCode"})
  /\ IF mon.hash = 0
     THEN \E h \in Hashes : mon' = MonitorWith(mon.owner, mon.count, mon.waiters, h)
     ELSE mon' = mon
  /\ returned' = returned \union {mon'.hash}
  /\ Return(t)
  /\ UNCHANGED <<word, waitSet, wakeSet, prev, inflate, requests, stopping, entered>>

(***************************************************************************)
(* DeflateMonitors, with all threads suspended; then they are resumed.     *)
(***************************************************************************)
\* Mutant: the threads that wait or contend are not looked at.
DeflateWaitedFor ==
  /\ stopping /\ \A t \in Threads : Suspended(t)
  /\ IF \/ word.state # "fat"
        \/ mon.owner # None /\ (mon.hash # 0 \/ mon.count > kThinLockMaxCount)
     THEN UNCHANGED <<word, mon>>
     ELSE /\ word' = IF mon.owner # None THEN ThinLocked(mon.owner, mon.count)
                     ELSE IF mon.hash # 0 THEN HashCode(mon.hash) ELSE Unlocked
          /\ mon' = NewMonitor(None, 0, 0)
  /\ stopping' = FALSE
  /\ UNCHANGED <<waitSet, wakeSet, pc, op, prev, inflate, requests, history>>

\* Mutant: a locked monitor is deflated whether or not it has a hash code.
DeflateHashed ==
  /\ stopping /\ \A t \in Threads : Suspended(t)
  /\ IF word.state # "fat" \/ mon.waiters > 0 \/ mon.count > kThinLockMaxCount
     THEN UNCHANGED <<word, mon>>
     ELSE /\ word' = IF mon.owner # None THEN ThinLocked(mon.owner, mon.count)
                     ELSE IF mon.hash # 0 THEN HashCode(mon.hash) ELSE Unlocked
          /\ mon' = NewMonitor(None, 0, 0)
  /\ stopping' = FALSE
  /\ UNCHANGED <<waitSet, wakeSet, pc, op, prev, inflate, requests, history>>

DeflateMonitors ==
  /\ stopping /\ \A t \in Threads : Suspended(t)
  /\ IF \/ word.state # "fat"
        \/ mon.waiters > 0
        \/ mon.owner # None /\ (mon.hash # 0 \/ mon.count > kThinLockMaxCount)
     THEN UNCHANGED <<word, mon>>
     ELSE /\ word' = IF mon.owner # None THEN ThinLocked(mon.owner, mon.count)
                     ELSE IF mon.hash # 0 THEN HashCode(mon.hash) ELSE Unlocked
          /\ mon' = NewMonitor(None, 0, 0)
  /\ stopping' = FALSE
  /\ UNCHANGED <<waitSet, wakeSet, pc, op, prev, inflate, requests, history>>

(***************************************************************************)
(* What a thread does inside a call, and the calls its program makes.      *)
(***************************************************************************)
Step(t) ==
  \/ Unpark(t) \/ SuspendThreadByThreadId(t) \/ OwnerSuspended(t) \/ OwnerNotSuspended(t)
  \/ Install(t) \/ Lock(t) \/ Contend(t) \/ LockAgain(t)
  \/ Unlock(t) \/ Wait(t) \/ EndWait(t) \/ Restore(t) \/ Notify(t) \/ NotifyAll(t)
  \/ GetHashCode(t)

\* A call looks at the lock word.
Look(t) ==
  \/ \E o \in Calls : UseMonitor(t, o)
  \/ \E o \in Enters : EnterThin(t, o) \/ EnterInflates(t, o)
  \/ TryEnterFails(t) \/ ExitThin(t) \/ WaitInflates(t)
  \/ HashFromWord(t) \/ HashInflates(t)

Next ==
  \/ \E t \in Threads : Step(t) \/ Look(t) \/ Park(t) \/ WakeUp(t)
  \/ SuspendAll \/ DeflateMonitors

Spec == Init /\ [][Next]_vars

Labels == {"managed", "parked", "loop", "suspendOwner", "awaitOwner", "install", "fat",
           "blocked", "contending", "woken", "waiting", "awake", "restore"}

\* The words of the lock keep their types; num_waiters_ never goes below zero.
TypeOK ==
  /\ word.state \in {"unlocked", "thin", "hash", "fat"}
  /\ word.owner \in Threads \union {None} /\ word.count \in 0 .. kThinLockMaxCount
  /\ mon.owner \in Threads \union {None} /\ mon.count \in 0 .. MaxDepth
  /\ mon.waiters \in 0 .. 2 * Cardinality(Threads)
  /\ {word.hash, mon.hash} \union returned \subseteq Hashes \union {0}
  /\ waitSet \in Seq(Threads) /\ wakeSet \in Seq(Threads)
  /\ pc \in [Threads -> Labels]
  /\ op \in [Threads -> Calls \union {"none", "Reacquire"}]
  /\ prev \in [Threads -> 0 .. MaxDepth]
  /\ entered \in [Threads -> 0 .. MaxDepth]
  /\ requests \in [Threads -> 0 .. Cardinality(Threads)]

\* The threads in MonitorEnter, MonitorExit, Wait or Notify of the Monitor.
Users == {t \in Threads : pc[t] \in {"fat", "blocked", "contending", "woken", "waiting", "awake",
                                     "restore"}}

\* A thread that has read the pointer to the monitor off the lock word, or that
\* sleeps in it, has a monitor as long as it needs it: DeflateMonitors, which
\* frees it, sees num_waiters_ count every user that is suspended.
UsersKeepMonitor == Users # {} => word.state = "fat"

\* What Install and the constructor of Monitor CHECK: nobody inflates an unlocked
\* word, a thin lock is inflated for its owner and only by itself or while it is
\* suspended, and a hash code is not replaced by another.
InstallChecks ==
  \A t \in Threads : pc[t] = "install" =>
    \/ word.state = "fat"
    \/ word.state = "hash" /\ inflate[t] = [owner |-> None, hash |-> word.hash]
    \/ /\ word.state = "thin" /\ word.owner = inflate[t].owner
       /\ word.owner = t \/ Suspended(word.owner)

\* The threads that will try for the monitor, or give it up again, without being
\* signalled.
OnTheirWay ==
  {t \in Threads : \/ pc[t] \in {"blocked", "woken", "awake"}
                   \/ pc[t] = "fat" /\ op[t] \in Enters \union {"Reacquire"}}

\* No wakeup is lost: while a contender sleeps, or a notified thread waits, and
\* nobody owns the monitor, some thread is on its way to take it; the thread that
\* then releases it signals the next.
NoLostWakeup ==
  mon.owner = None /\ word.state = "fat" /\ OnTheirWay = {} =>
    /\ \A t \in Threads : pc[t] # "contending"
    /\ \A t \in Range(wakeSet) : pc[t] # "waiting"

\* Object.hashCode is the same for the life of the object, through inflation,
\* deflation and threads that generate hash codes at the same time.
IdentityHashIsStable == Cardinality(returned) <= 1

\* The abstract lock.  A thread that has the monitor again in Wait, and is about
\* to restore its count, counts as having restored it.
Holder == IF word.state = "fat" THEN mon.owner ELSE word.owner
Java == INSTANCE JavaMonitor WITH
  holder <- Holder,
  depth <- IF Holder = None THEN 0
           ELSE IF pc[Holder] = "restore" THEN prev[Holder] + 1
           ELSE Depth(Holder),
  waiting <- {t \in Threads : op[t] = "Reacquire" /\ pc[t] # "restore"}

\* MonitorEnter, MonitorExit and Wait implement the recursive lock of a Java
\* object: one holder, with the depth it has locked to, which survives inflation,
\* deflation, an overflow of the thin lock's count and a wait.
ImplementsJavaMonitor == Java!Spec
====
