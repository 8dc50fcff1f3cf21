--------------------------- MODULE MonitorProofs ---------------------------
(***************************************************************************)
(* Proofs about Monitor, for any finite set of threads, any limit of the   *)
(* thin lock's count and any hash codes: it implements JavaMonitor, the    *)
(* monitor is kept for its users, inflation finds what it CHECKs for, no   *)
(* wakeup is lost and the identity hash code does not change.              *)
(*                                                                         *)
(* The first half says what the steps do: the shapes they keep, and what   *)
(* each changes of the lock word, of the threads in the monitor and of     *)
(* those that num_waiters_ and the suspend requests count.                 *)
(***************************************************************************)
EXTENDS Monitor, Integers, TLAPS

-----------------------------------------------------------------------------
(* The inductive invariant                                                 *)

Hash == Hashes \union {0}
Inflations == [owner : Threads \union {None}, hash : Hash]

\* The lock word: the owner and the count are those of a thin lock.
WordShape ==
  /\ word.state \in {"unlocked", "thin", "hash", "fat"}
  /\ word.state = "thin" => word.owner \in Threads
  /\ word.state # "thin" => word.owner = None /\ word.count = 0
  /\ word.count \in Nat /\ word.hash \in Hash

\* The Monitor.  That num_waiters_ is not negative follows from what it counts.
MonitorShape ==
  /\ mon.owner \in Threads \union {None}
  /\ mon.count \in Nat /\ mon.waiters \in Int /\ mon.hash \in Hash
  /\ mon.owner = None => mon.count = 0

\* The threads.
ThreadTypes ==
  /\ pc \in [Threads -> Labels]
  /\ op \in [Threads -> Calls \union {"none", "Reacquire"}]
  /\ prev \in [Threads -> Nat]
  /\ inflate \in [Threads -> Inflations]
  /\ requests \in [Threads -> Int]
  /\ entered \in [Threads -> Int]

\* Which calls a thread can be in at each label.
OpLabels ==
  \A t \in Threads :
    /\ pc[t] \in {"managed", "parked"} => op[t] = "none"
    /\ pc[t] \in {"loop", "suspendOwner", "awaitOwner", "install"} => op[t] \in Calls
    /\ pc[t] = "fat" => op[t] \in Calls \union {"Reacquire"}
    /\ pc[t] \in {"blocked", "contending", "woken"} => op[t] \in {"MonitorEnter", "Reacquire"}
    /\ pc[t] \in {"waiting", "awake", "restore"} => op[t] = "Reacquire"

\* A thread suspends another one than itself.
SuspendsOther ==
  \A t \in Threads : pc[t] \in {"suspendOwner", "awaitOwner"} => inflate[t].owner \in Threads \ {t}

-----------------------------------------------------------------------------
(* Types                                                                   *)

\* What SignalContendersAndReleaseMonitorLock does to the threads: it wakes one
\* that waits, or one that contends, or none.
LEMMA Signals ==
  ASSUME NEW labels \in [Threads -> Labels], SignalContenders(labels)
  PROVE  \/ pc' = labels
         \/ \E u \in Threads : /\ labels[u] \in {"waiting", "awake"}
                               /\ pc' = [labels EXCEPT ![u] = "awake"]
         \/ \E u \in Threads : /\ labels[u] = "contending"
                               /\ pc' = [labels EXCEPT ![u] = "woken"]
  <1> DEFINE live == {i \in DOMAIN wakeSet : WaitMonitorSet(labels[wakeSet[i]])}
  <1>1. CASE live # {}
    <2>1. PICK i \in live : pc' = [labels EXCEPT ![wakeSet[i]] = "awake"]
      BY <1>1, ZenonT(60) DEF SignalContenders
    <2>2. labels[wakeSet[i]] \in {"waiting", "awake"}
      BY ZenonT(60) DEF WaitMonitorSet
    <2>3. CASE wakeSet[i] \in Threads
      BY <2>1, <2>2, <2>3, Zenon
    <2>4. CASE wakeSet[i] \notin Threads
      BY <2>1, <2>4, ZenonT(60)
    <2> QED
      BY <2>3, <2>4, ZenonT(60)
  <1>2. CASE live = {}
    BY <1>2, ZenonT(60) DEF SignalContenders
  <1> QED
    BY <1>1, <1>2, ZenonT(60)

\* Every step keeps the shape of the lock word.
LEMMA WordStep ==
  ASSUME WordShape, MonitorShape, Next
  PROVE  WordShape'
  <1>1. ASSUME NEW t \in Threads, Step(t) PROVE WordShape'
    <2>1. CASE Install(t)
      BY <2>1 DEF Install, FatLocked, WordShape, Hash
    <2>2. CASE ~Install(t)
      BY <1>1, <2>2, ZenonT(60) DEF Step, Unpark, SuspendThreadByThreadId, OwnerSuspended,
         OwnerNotSuspended, Lock,
         Contend,
         LockAgain, Unlock, Wait, EndWait, Restore, Notify, NotifyAll, GetHashCode, WordShape
    <2> QED
      BY <2>1, <2>2, ZenonT(60)
  <1>2. ASSUME NEW t \in Threads, Look(t) PROVE WordShape'
    <2>1. ASSUME NEW o \in Enters, EnterThin(t, o) PROVE WordShape'
      BY <2>1 DEF EnterThin, ThinLocked, Thin, WordShape, Hash
    <2>2. CASE ExitThin(t)
      BY <2>2 DEF ExitThin, ThinLocked, Thin, Unlocked, WordShape, Hash
    <2>3. CASE HashFromWord(t)
      BY <2>3 DEF HashFromWord, HashCode, WordShape, Hash
    <2>4. CASE WaitInflates(t) \/ HashInflates(t) \/ TryEnterFails(t)
      BY <2>4, ZenonT(60) DEF WaitInflates, HashInflates, InflateWith, TryEnterFails, WordShape
    <2>5. ASSUME NEW o \in Calls, UseMonitor(t, o) \/ (o \in Enters /\ EnterInflates(t, o))
          PROVE  WordShape'
      BY <2>5, ZenonT(60) DEF EnterInflates, InflateWith, UseMonitor, WordShape
    <2> QED
      BY <1>2, <2>1, <2>2, <2>3, <2>4, <2>5, ZenonT(60) DEF Look, Calls
  <1>3. ASSUME NEW t \in Threads, Park(t) \/ WakeUp(t) PROVE WordShape'
    BY <1>3, ZenonT(60) DEF Park, WakeUp, WordShape
  <1>4. CASE SuspendAll
    BY <1>4, ZenonT(60) DEF SuspendAll, WordShape
  <1>5. CASE DeflateMonitors
    BY <1>5 DEF DeflateMonitors, MonitorShape, ThinLocked, HashCode, Unlocked, WordShape
  <1> QED
    BY <1>1, <1>2, <1>3, <1>4, <1>5, ZenonT(60) DEF Next

\* Every step keeps the shape of the Monitor.
LEMMA MonitorStep ==
  ASSUME WordShape, MonitorShape, ThreadTypes, InstallChecks, Next
  PROVE  MonitorShape'
  <1>1. ASSUME NEW t \in Threads, Step(t) PROVE MonitorShape'
    <2>1. CASE Install(t)
      <3>1. inflate[t].hash \in Hash /\ inflate[t].owner \in Threads \union {None}
        BY ZenonT(60) DEF ThreadTypes, Inflations
      <3>2. CASE word.state = "fat"
        BY <2>1, <3>2, ZenonT(60) DEF Install, MonitorShape
      <3>3. CASE word.state # "fat"
        <4>1. pc[t] = "install" /\ mon' = NewMonitor(inflate[t].owner, word.count, inflate[t].hash)
          BY <2>1, <3>3, ZenonT(60) DEF Install
        <4>2. inflate[t].owner = None => word.count = 0
          BY <3>3, <4>1, MonitorAssumption, ZenonT(60) DEF InstallChecks, WordShape
        <4> QED
          BY <3>1, <4>1, <4>2 DEF NewMonitor, MonitorWith, WordShape, MonitorShape
      <3> QED
        BY <3>2, <3>3, ZenonT(60)
    <2>2. CASE Lock(t) \/ LockAgain(t)
      BY <2>2, MonitorAssumption DEF Lock, LockAgain, TryLock, Held, MonitorWith, MonitorShape
    <2>3. CASE Unlock(t)
      BY <2>3 DEF Unlock, Held, MonitorWith, MonitorShape
    <2>4. CASE Wait(t)
      BY <2>4 DEF Wait, Held, MonitorWith, MonitorShape
    <2>5. CASE Restore(t)
      BY <2>5, MonitorAssumption DEF Restore, Held, MonitorWith, ThreadTypes, MonitorShape
    <2>6. CASE GetHashCode(t)
      BY <2>6, SMTT(60) DEF GetHashCode, MonitorWith, MonitorShape, Hash
    <2>7. CASE \/ Unpark(t) \/ SuspendThreadByThreadId(t) \/ OwnerSuspended(t)
               \/ OwnerNotSuspended(t)
               \/ Contend(t) \/ EndWait(t) \/ Notify(t) \/ NotifyAll(t)
      BY <2>7, ZenonT(60) DEF Unpark, SuspendThreadByThreadId, OwnerSuspended,
         OwnerNotSuspended, Contend, EndWait,
         Notify,
         NotifyAll, MonitorShape
    <2> QED
      BY <1>1, <2>1, <2>2, <2>3, <2>4, <2>5, <2>6, <2>7, ZenonT(60) DEF Step
  <1>2. ASSUME NEW t \in Threads, Look(t) PROVE UNCHANGED mon
    BY <1>2, ZenonT(60) DEF Look, UseMonitor, EnterThin, EnterInflates, InflateWith,
       TryEnterFails,
       ExitThin, WaitInflates, HashFromWord, HashInflates
  <1>3. ASSUME NEW t \in Threads, Park(t) \/ WakeUp(t) PROVE UNCHANGED mon
    BY <1>3, ZenonT(60) DEF Park, WakeUp
  <1>4. CASE SuspendAll
    BY <1>4, ZenonT(60) DEF SuspendAll, MonitorShape
  <1>5. CASE DeflateMonitors
    BY <1>5 DEF DeflateMonitors, NewMonitor, MonitorWith, MonitorShape, Hash
  <1>6. UNCHANGED mon => MonitorShape'
    BY ZenonT(60) DEF MonitorShape
  <1> QED
    BY <1>1, <1>2, <1>3, <1>4, <1>5, <1>6, Zenon DEF Next

\* Every step keeps the types of what belongs to the threads.
LEMMA ThreadStep ==
  ASSUME WordShape, MonitorShape, ThreadTypes, Next
  PROVE  ThreadTypes'
  <1>1. ASSUME NEW t \in Threads, Step(t) PROVE ThreadTypes'
    <2>0. inflate[t].owner \in Threads \union {None}
      BY ZenonT(60) DEF Inflations, ThreadTypes
    <2>1. CASE Unpark(t) \/ Contend(t) \/ EndWait(t)
      BY <2>1, ZenonT(60) DEF Unpark, Contend, EndWait, ThreadTypes, history, Labels
    <2>2. CASE SuspendThreadByThreadId(t)
      <3> DEFINE u == inflate[t].owner
      <3>0. requests' = [requests EXCEPT ![u] = requests[u] + 1]
        BY <2>2, ZenonT(60) DEF SuspendThreadByThreadId
      <3>1. requests' \in [Threads -> Int]
        <4>1. CASE u \in Threads
          <5>1. requests[u] + 1 \in Int
            BY <4>1 DEF ThreadTypes
          <5> QED
            BY <3>0, <5>1, Zenon DEF ThreadTypes
        <4>2. CASE u = None
          BY <3>0, <4>2, MonitorAssumption, Zenon DEF ThreadTypes
        <4> QED
          BY <2>0, <4>1, <4>2, ZenonT(60)
      <3> QED
        BY <2>2, <3>1, ZenonT(60) DEF SuspendThreadByThreadId, ThreadTypes, history, Labels
    <2>3. CASE OwnerSuspended(t) \/ OwnerNotSuspended(t)
      <3>1. Nothing \in Inflations
        BY ZenonT(60) DEF Nothing, Inflations, Hash
      <3>2. inflate' \in [Threads -> Inflations]
        BY <2>3, <3>1, ZenonT(60) DEF OwnerSuspended, OwnerNotSuspended, ThreadTypes
      <3>3. requests' \in [Threads -> Int]
        BY <2>0, <2>3 DEF OwnerSuspended, OwnerNotSuspended, ThreadTypes
      <3> QED
        BY <2>3, <3>2, <3>3, ZenonT(60) DEF OwnerSuspended, OwnerNotSuspended, ThreadTypes,
           history, Labels
    <2>4. CASE Install(t)
      BY <2>4 DEF Install, Nothing, Inflations, Hash, ThreadTypes, history, Labels
    <2>5. CASE Lock(t)
      BY <2>5 DEF Lock, TryLock, ThreadTypes, Labels, Goto, Return
    <2>6. CASE LockAgain(t)
      BY <2>6 DEF LockAgain, TryLock, ThreadTypes, Labels, Goto, Return
    <2>7. CASE Unlock(t)
      <3> DEFINE labels == [pc EXCEPT ![t] = "managed"]
      <3>1. labels \in [Threads -> Labels]
        BY ZenonT(60) DEF ThreadTypes, Labels
      <3>2. pc' = labels \/ SignalContenders(labels)
        BY <2>7, ZenonT(60) DEF Unlock
      <3>3. pc' \in [Threads -> Labels]
        <4> HIDE DEF labels
        <4> QED
          BY <3>1, <3>2, Signals, ZenonT(60) DEF Labels
      <3>4. entered' \in [Threads -> Int] /\ op' \in [Threads -> Calls \union {"none", "Reacquire"}]
        BY <2>7 DEF Unlock, ThreadTypes
      <3> QED
        BY <2>7, <3>3, <3>4, ZenonT(60) DEF Unlock, ThreadTypes
    <2>8. CASE Wait(t)
      <3> DEFINE labels == [pc EXCEPT ![t] = "waiting"]
      <3>1. labels \in [Threads -> Labels]
        BY ZenonT(60) DEF ThreadTypes, Labels
      <3>2. CASE mon.owner # t
        BY <2>8, <3>2, ZenonT(60) DEF Wait, ThreadTypes, history, Labels, Return, Goto
      <3>3. CASE mon.owner = t
        <4>1. SignalContenders(labels)
          BY <2>8, <3>3, ZenonT(60) DEF Wait
        <4>2. pc' \in [Threads -> Labels]
          <5> HIDE DEF labels
          <5> QED
            BY <3>1, <4>1, Signals, ZenonT(60) DEF Labels
        <4>3. prev' \in [Threads -> Nat] /\ op' \in [Threads -> Calls \union {"none", "Reacquire"}]
          BY <2>8, <3>3, Zenon DEF Wait, MonitorShape, ThreadTypes
        <4> QED
          BY <2>8, <3>3, <4>2, <4>3, ZenonT(60) DEF Wait, ThreadTypes, history
      <3> QED
        BY <3>2, <3>3, ZenonT(60)
    <2>9. CASE Restore(t)
      BY <2>9, ZenonT(60) DEF Restore, ThreadTypes, history, Labels, Return, Goto
    <2>10. CASE Notify(t) \/ NotifyAll(t)
      BY <2>10, Zenon DEF Notify, NotifyAll, ThreadTypes, history, Labels, Return, Goto
    <2>11. CASE GetHashCode(t)
      BY <2>11, ZenonT(60) DEF GetHashCode, ThreadTypes, Labels, Return, Goto
    <2> QED
      BY <1>1, <2>1, <2>2, <2>3, <2>4, <2>5, <2>6, <2>7, <2>8, <2>9, <2>10, <2>11,
         ZenonT(60) DEF Step
  <1>2. ASSUME NEW t \in Threads, Look(t) PROVE ThreadTypes'
    <2>1. ASSUME NEW o \in Calls, UseMonitor(t, o) PROVE ThreadTypes'
      BY <2>1, ZenonT(60) DEF UseMonitor, ThreadTypes, history, Labels, Goto
    <2>2. ASSUME NEW o \in Enters, EnterThin(t, o) PROVE ThreadTypes'
      BY <2>2 DEF EnterThin, ThreadTypes, Labels, Return, Goto
    <2>3. ASSUME NEW o \in Calls, NEW l \in Labels, NEW u \in Threads \union {None}, NEW h \in Hash,
                 InflateWith(t, o, l, u, h)
          PROVE  ThreadTypes'
      BY <2>3, ZenonT(60) DEF InflateWith, Inflations, ThreadTypes, history, Goto
    <2>4. ASSUME NEW o \in Enters, EnterInflates(t, o) PROVE ThreadTypes'
      BY <2>3, <2>4, ZenonT(60) DEF EnterInflates, Calls, WordShape, Hash, Thin, ThinByOther,
         Labels
    <2>5. CASE WaitInflates(t) \/ HashInflates(t)
      BY <2>3, <2>5, ZenonT(60) DEF WaitInflates, HashInflates, Calls, WordShape, Hash, Labels
    <2>6. CASE TryEnterFails(t) \/ HashFromWord(t)
      BY <2>6, ZenonT(60) DEF TryEnterFails, HashFromWord, ThreadTypes, history, Labels, Return,
         Goto
    <2>7. CASE ExitThin(t)
      BY <2>7, MonitorAssumption DEF ExitThin, ThreadTypes, Labels
    <2> QED
      BY <1>2, <2>1, <2>2, <2>4, <2>5, <2>6, <2>7, ZenonT(60) DEF Look
  <1>3. ASSUME NEW t \in Threads, Park(t) \/ WakeUp(t) PROVE ThreadTypes'
    BY <1>3, ZenonT(60) DEF Park, WakeUp, Labels, ThreadTypes, history
  <1>4. CASE SuspendAll \/ DeflateMonitors
    BY <1>4, ZenonT(60) DEF SuspendAll, DeflateMonitors, ThreadTypes, history
  <1> QED
    BY <1>1, <1>2, <1>3, <1>4, ZenonT(60) DEF Next

-----------------------------------------------------------------------------
(* Labels                                                                  *)

\* A signal leaves the calls of the threads alone and moves them between labels
\* of one group only.
SameGroup(l, m) ==
  \/ l = m
  \/ l \in {"waiting", "awake"} /\ m = "awake"
  \/ l = "contending" /\ m = "woken"

\* Unlock, and Wait once it has given the monitor up, move the caller and signal.
LEMMA UnlockMoves ==
  ASSUME ThreadTypes, NEW t \in Threads, Unlock(t)
  PROVE  /\ pc'[t] = "managed"
         /\ \A u \in Threads \ {t} : SameGroup(pc[u], pc'[u])
  <1> DEFINE labels == [pc EXCEPT ![t] = "managed"]
  <1>1. labels \in [Threads -> Labels]
    BY ZenonT(60) DEF ThreadTypes, Labels
  <1>2. labels[t] = "managed" /\ \A u \in Threads \ {t} : labels[u] = pc[u]
    BY ZenonT(60) DEF ThreadTypes
  <1>3. pc' = labels \/ SignalContenders(labels)
    BY ZenonT(60) DEF Unlock
  <1> HIDE DEF labels
  <1> QED
    BY <1>1, <1>2, <1>3, Signals, ZenonT(60) DEF SameGroup

\* So does Wait by the owner.
LEMMA WaitMoves ==
  ASSUME ThreadTypes, NEW t \in Threads, Wait(t), mon.owner = t
  PROVE  /\ pc'[t] \in {"waiting", "awake"}
         /\ \A u \in Threads \ {t} : SameGroup(pc[u], pc'[u])
  <1> DEFINE labels == [pc EXCEPT ![t] = "waiting"]
  <1>1. labels \in [Threads -> Labels]
    BY ZenonT(60) DEF ThreadTypes, Labels
  <1>2. labels[t] = "waiting" /\ \A u \in Threads \ {t} : labels[u] = pc[u]
    BY ZenonT(60) DEF ThreadTypes
  <1>3. SignalContenders(labels)
    BY ZenonT(60) DEF Wait
  <1> HIDE DEF labels
  <1> QED
    BY <1>1, <1>2, <1>3, Signals DEF SameGroup

\* Every step leaves each thread at a label that fits its call.
LEMMA LabelStep ==
  ASSUME WordShape, ThreadTypes, OpLabels, SuspendsOther, Next
  PROVE  OpLabels' /\ SuspendsOther'
  <1>1. ASSUME NEW t \in Threads, Step(t) PROVE OpLabels' /\ SuspendsOther'
    <2>1. CASE Unpark(t) \/ Contend(t) \/ EndWait(t)
      BY <2>1 DEF Unpark, Contend, EndWait, ThreadTypes, OpLabels, SuspendsOther
    <2>2. CASE SuspendThreadByThreadId(t)
      BY <2>2, ZenonT(60) DEF SuspendThreadByThreadId, ThreadTypes, OpLabels, SuspendsOther
    <2>3. CASE OwnerSuspended(t) \/ OwnerNotSuspended(t)
      BY <2>3 DEF OwnerSuspended, OwnerNotSuspended, ThreadTypes, OpLabels, SuspendsOther
    <2>4. CASE Install(t)
      BY <2>4 DEF Install, OpLabels, SuspendsOther
    <2>5. CASE Lock(t)
      BY <2>5 DEF Lock, TryLock, Enters, ThreadTypes, OpLabels, SuspendsOther, Goto, Return,
         Inside
    <2>6. CASE LockAgain(t)
      BY <2>6 DEF LockAgain, TryLock, Enters, ThreadTypes, OpLabels, SuspendsOther, Goto,
         Return
    <2>7. CASE Unlock(t)
      <3>1. op' = [op EXCEPT ![t] = "none"] /\ inflate' = inflate
        BY <2>7, ZenonT(60) DEF Unlock
      <3> QED
        BY <2>7, <3>1, UnlockMoves DEF SameGroup, ThreadTypes, OpLabels, SuspendsOther
    <2>8. CASE Wait(t)
      <3>1. CASE mon.owner # t
        BY <2>8, <3>1 DEF Wait, ThreadTypes, OpLabels, SuspendsOther, Return, Inside, Goto
      <3>2. CASE mon.owner = t
        <4>1. op' = [op EXCEPT ![t] = "Reacquire"] /\ inflate' = inflate
          BY <2>8, <3>2, ZenonT(60) DEF Wait
        <4> QED
          BY <2>8, <3>2, <4>1, WaitMoves DEF SameGroup, ThreadTypes, OpLabels, SuspendsOther
      <3> QED
        BY <3>1, <3>2, ZenonT(60)
    <2>9. CASE Restore(t)
      BY <2>9, ZenonT(60) DEF Restore, ThreadTypes, OpLabels, SuspendsOther, Return, Goto
    <2>10. CASE Notify(t) \/ NotifyAll(t) \/ GetHashCode(t)
      <3>1. Return(t) /\ inflate' = inflate
        BY <2>10, ZenonT(60) DEF Notify, NotifyAll, GetHashCode
      <3> QED
        BY <3>1, ZenonT(60) DEF ThreadTypes, OpLabels, SuspendsOther, Return, Goto
    <2> QED
      BY <1>1, <2>1, <2>2, <2>3, <2>4, <2>5, <2>6, <2>7, <2>8, <2>9, <2>10, ZenonT(60) DEF Step
  <1>2. ASSUME NEW t \in Threads, Look(t) PROVE OpLabels' /\ SuspendsOther'
    <2>1. ASSUME NEW o \in Calls, UseMonitor(t, o) PROVE OpLabels' /\ SuspendsOther'
      BY <2>1, ZenonT(60) DEF UseMonitor, ThreadTypes, OpLabels, SuspendsOther, Goto, At
    <2>2. ASSUME NEW o \in Enters, EnterThin(t, o) PROVE OpLabels' /\ SuspendsOther'
      BY <2>2, ZenonT(60) DEF EnterThin, ThreadTypes, OpLabels, SuspendsOther, Return, At, Goto
    <2>3. ASSUME NEW o \in Calls, NEW l \in {"install", "suspendOwner"}, NEW u, NEW h,
                 InflateWith(t, o, l, u, h), l = "suspendOwner" => u \in Threads \ {t}
          PROVE  OpLabels' /\ SuspendsOther'
      BY <2>3, ZenonT(60) DEF InflateWith, ThreadTypes, OpLabels, SuspendsOther, Goto
    <2>4. ASSUME NEW o \in Enters, EnterInflates(t, o) PROVE OpLabels' /\ SuspendsOther'
      BY <2>3, <2>4, ZenonT(60) DEF EnterInflates, Calls, WordShape, ThinByOther, At
    <2>5. CASE WaitInflates(t) \/ HashInflates(t)
      BY <2>3, <2>5, ZenonT(60) DEF WaitInflates, HashInflates, Calls, WordShape, Thin
    <2>6. CASE TryEnterFails(t) \/ HashFromWord(t) \/ ExitThin(t)
      BY <2>6 DEF TryEnterFails, HashFromWord, ExitThin, ThreadTypes, OpLabels, SuspendsOther,
         Return, At, Goto
    <2> QED
      BY <1>2, <2>1, <2>2, <2>4, <2>5, <2>6, ZenonT(60) DEF Look
  <1>3. ASSUME NEW t \in Threads, Park(t) \/ WakeUp(t) PROVE OpLabels' /\ SuspendsOther'
    BY <1>3 DEF Park, WakeUp, ThreadTypes, OpLabels, SuspendsOther
  <1>4. CASE SuspendAll \/ DeflateMonitors
    BY <1>4, ZenonT(60) DEF SuspendAll, DeflateMonitors, ThreadTypes, OpLabels, SuspendsOther
  <1> QED
    BY <1>1, <1>2, <1>3, <1>4, ZenonT(60) DEF Next

-----------------------------------------------------------------------------
(* Suspension requests                                                     *)

\* The threads that have asked for u to be suspended and not yet resumed it.
Requesters(u) ==
  {t \in Threads : pc[t] \in {"awaitOwner", "install"} /\ inflate[t].owner = u /\ t # u}

RequestsExact == \A u \in Threads : requests[u] = Cardinality(Requesters(u))

\* What a step can do to the requests for one thread.
Kept(u) == requests'[u] = requests[u] /\ Requesters(u)' = Requesters(u)
Requested(u) ==
  \E t \in Threads \ Requesters(u) :
    requests'[u] = requests[u] + 1 /\ Requesters(u)' = Requesters(u) \union {t}
Resumed(u) ==
  \E t \in Requesters(u) :
    requests'[u] = requests[u] - 1 /\ Requesters(u)' = Requesters(u) \ {t}
RequestsMove(u) == Kept(u) \/ Requested(u) \/ Resumed(u)

\* A step leaves the requests for a thread as they are, or adds or takes back one.
LEMMA RequestsEffect ==
  ASSUME WordShape, ThreadTypes, SuspendsOther, Next, NEW u \in Threads
  PROVE  RequestsMove(u)
  <1>0. ASSUME NEW t \in Threads, NEW l \in Labels \ {"awaitOwner", "install"},
               pc[t] \notin {"awaitOwner", "install"}, pc' = [pc EXCEPT ![t] = l],
               inflate' = inflate, requests' = requests
        PROVE  Kept(u)
    BY <1>0 DEF Requesters, Kept
  <1>1. ASSUME NEW t \in Threads, Step(t) PROVE RequestsMove(u)
    <2>1. CASE Unpark(t) \/ Contend(t) \/ EndWait(t)
      BY <2>1, <1>0, ZenonT(60) DEF Unpark, Contend, EndWait, ThreadTypes, Requesters,
         RequestsMove, Kept
    <2>2. CASE SuspendThreadByThreadId(t)
      <3> DEFINE v == inflate[t].owner
      <3>1. /\ v \in Threads \ {t} /\ pc[t] = "suspendOwner"
            /\ requests' = [requests EXCEPT ![v] = requests[v] + 1]
            /\ pc' = [pc EXCEPT ![t] = "awaitOwner"] /\ inflate' = inflate
        BY <2>2, ZenonT(60) DEF SuspendThreadByThreadId, SuspendsOther
      <3>2. CASE u = v
        <4>1. t \in Threads \ Requesters(u)
          BY <3>1, ZenonT(60) DEF Requesters
        <4>2. requests'[u] = requests[u] + 1 /\ Requesters(u)' = Requesters(u) \union {t}
          BY <3>1, <3>2, ZenonT(60) DEF ThreadTypes, Requesters
        <4> QED
          BY <4>1, <4>2, ZenonT(60) DEF RequestsMove, Requested
      <3>3. CASE u # v
        BY <3>1, <3>3 DEF Requesters, RequestsMove, Kept
      <3> QED
        BY <3>2, <3>3, ZenonT(60)
    <2>3. CASE OwnerSuspended(t)
      <3> DEFINE v == inflate[t].owner
      <3>1. v \in Threads \ {t} /\ pc[t] = "awaitOwner"
        BY <2>3, ZenonT(60) DEF OwnerSuspended, SuspendsOther
      <3>2. CASE Thin(v)
        BY <2>3, <3>1, <3>2, ZenonT(60) DEF OwnerSuspended, ThreadTypes, Requesters,
           RequestsMove, Kept
      <3>3. CASE ~Thin(v)
        <4>1. /\ requests' = [requests EXCEPT ![v] = requests[v] - 1]
              /\ inflate' = [inflate EXCEPT ![t] = Nothing]
              /\ pc' = [pc EXCEPT ![t] = "loop"]
          BY <2>3, <3>3, ZenonT(60) DEF OwnerSuspended
        <4>2. CASE u = v
          <5>1. t \in Requesters(u)
            BY <3>1, <4>2, ZenonT(60) DEF Requesters
          <5>2. requests'[u] = requests[u] - 1 /\ Requesters(u)' = Requesters(u) \ {t}
            BY <3>1, <4>1, <4>2, ZenonT(60) DEF ThreadTypes, Requesters
          <5> QED
            BY <5>1, <5>2, ZenonT(60) DEF RequestsMove, Resumed
        <4>3. CASE u # v
          BY <3>1, <4>1, <4>3, ZenonT(60) DEF ThreadTypes, Requesters, RequestsMove, Kept
        <4> QED
          BY <4>2, <4>3, ZenonT(60)
      <3> QED
        BY <3>2, <3>3, ZenonT(60)
    <2>9. CASE OwnerNotSuspended(t)
      <3> DEFINE v == inflate[t].owner
      <3>1. /\ v \in Threads \ {t} /\ pc[t] \in {"awaitOwner", "suspendOwner"}
            /\ inflate' = [inflate EXCEPT ![t] = Nothing]
            /\ pc' = [pc EXCEPT ![t] = "loop"]
        BY <2>9, ZenonT(60) DEF OwnerNotSuspended, SuspendsOther
      <3>2. CASE pc[t] = "awaitOwner" /\ u = v
        <4>1. requests' = [requests EXCEPT ![v] = requests[v] - 1]
          BY <2>9, <3>2, ZenonT(60) DEF OwnerNotSuspended
        <4>2. t \in Requesters(u)
          BY <3>1, <3>2, ZenonT(60) DEF Requesters
        <4>3. requests'[u] = requests[u] - 1 /\ Requesters(u)' = Requesters(u) \ {t}
          BY <3>1, <3>2, <4>1, ZenonT(60) DEF ThreadTypes, Requesters
        <4> QED
          BY <4>2, <4>3, ZenonT(60) DEF RequestsMove, Resumed
      <3>3. CASE pc[t] = "suspendOwner" \/ u # v
        <4>1. requests'[u] = requests[u]
          BY <2>9, <3>3, ZenonT(60) DEF OwnerNotSuspended, ThreadTypes
        <4>2. Requesters(u)' = Requesters(u)
          BY <3>1, <3>3, ZenonT(60) DEF ThreadTypes, Requesters
        <4> QED
          BY <4>1, <4>2, ZenonT(60) DEF RequestsMove, Kept
      <3> QED
        BY <3>1, <3>2, <3>3, ZenonT(60)
    <2>4. CASE Install(t)
      <3> DEFINE v == inflate[t].owner
      <3>1. /\ pc[t] = "install"
            /\ requests'[u] = IF u = v /\ u # t THEN requests[u] - 1 ELSE requests[u]
            /\ inflate' = [inflate EXCEPT ![t] = Nothing]
            /\ pc' = [pc EXCEPT ![t] = "loop"]
        BY <2>4, ZenonT(60) DEF Install
      <3>2. CASE u = v /\ u # t
        <4>1. t \in Requesters(u)
          BY <3>1, <3>2, ZenonT(60) DEF Requesters
        <4>2. requests'[u] = requests[u] - 1 /\ Requesters(u)' = Requesters(u) \ {t}
          BY <3>1, <3>2, ZenonT(60) DEF ThreadTypes, Requesters
        <4> QED
          BY <4>1, <4>2, ZenonT(60) DEF RequestsMove, Resumed
      <3>3. CASE ~(u = v /\ u # t)
        BY <3>1, <3>3, ZenonT(60) DEF ThreadTypes, Requesters, RequestsMove, Kept
      <3> QED
        BY <3>2, <3>3, ZenonT(60)
    <2>5. CASE Lock(t) \/ LockAgain(t)
      BY <2>5, <1>0, ZenonT(60) DEF Lock, LockAgain, TryLock, RequestsMove, Goto, Return,
         Inside, Labels
    <2>6. CASE Unlock(t)
      <3>1. pc[t] = "fat" /\ inflate' = inflate /\ requests' = requests
        BY <2>6, ZenonT(60) DEF Unlock, Inside
      <3> QED
        BY <2>6, <3>1, UnlockMoves, MonitorAssumption, ZenonT(60) DEF SameGroup, ThreadTypes,
           Requesters,
           RequestsMove, Kept, Requested, Resumed, Labels
    <2>7. CASE Wait(t)
      <3>1. pc[t] = "fat" /\ inflate' = inflate /\ requests' = requests
        BY <2>7, ZenonT(60) DEF Wait, Inside
      <3>2. CASE mon.owner # t
        BY <2>7, <3>1, <3>2, <1>0, ZenonT(60) DEF Wait, RequestsMove, Return, Labels, Goto
      <3>3. CASE mon.owner = t
        BY <2>7, <3>1, <3>3, WaitMoves, MonitorAssumption, SMTT(60) DEF SameGroup,
           ThreadTypes, Requesters, RequestsMove, Kept, Requested, Resumed, Labels
      <3> QED
        BY <3>2, <3>3, ZenonT(60)
    <2>8. CASE Restore(t) \/ Notify(t) \/ NotifyAll(t) \/ GetHashCode(t)
      BY <2>8, <1>0, ZenonT(60) DEF Restore, Notify, NotifyAll, GetHashCode, ThreadTypes,
         Requesters, RequestsMove, Kept, Return, Inside, Goto
    <2> QED
      BY <1>1, <2>1, <2>2, <2>3, <2>4, <2>5, <2>6, <2>7, <2>8, <2>9, ZenonT(60) DEF Step
  <1>2. ASSUME NEW t \in Threads, Look(t) PROVE RequestsMove(u)
    <2>1. ASSUME NEW o \in Calls, UseMonitor(t, o) \/ EnterThin(t, o) PROVE Kept(u)
      BY <2>1, <1>0, ZenonT(60) DEF UseMonitor, EnterThin, ThreadTypes, Requesters, Kept, Goto,
         Return, At
    <2>2. ASSUME NEW o, NEW l \in {"install", "suspendOwner"}, NEW v, NEW h, At(t, o),
                 InflateWith(t, o, l, v, h), l = "install" => v \in {t, None}
          PROVE  Kept(u)
      BY <2>2, MonitorAssumption, ZenonT(60) DEF InflateWith, ThreadTypes, Requesters, Kept,
         Goto, At
    <2>3. ASSUME NEW o \in Enters, EnterInflates(t, o) PROVE Kept(u)
      BY <2>2, <2>3, ZenonT(60) DEF EnterInflates
    <2>4. CASE WaitInflates(t) \/ HashInflates(t)
      BY <2>2, <2>4, ZenonT(60) DEF WaitInflates, HashInflates, Thin, RequestsMove
    <2>5. CASE TryEnterFails(t) \/ HashFromWord(t)
      BY <2>5, <1>0, ZenonT(60) DEF TryEnterFails, HashFromWord, ThreadTypes, Requesters,
         RequestsMove, Kept, Return, At, Goto
    <2>6. CASE ExitThin(t)
      BY <2>6, ZenonT(60) DEF ExitThin, Requesters, RequestsMove, Kept
    <2> QED
      BY <1>2, <2>1, <2>3, <2>4, <2>5, <2>6, ZenonT(60) DEF Look, Calls, RequestsMove
  <1>3. ASSUME NEW t \in Threads, Park(t) \/ WakeUp(t) PROVE Kept(u)
    BY <1>3, <1>0, ZenonT(60) DEF Park, WakeUp, Labels
  <1>4. CASE SuspendAll \/ DeflateMonitors
    BY <1>4, Zenon DEF SuspendAll, DeflateMonitors, Requesters, RequestsMove, Kept
  <1> QED
    BY <1>1, <1>2, <1>3, <1>4, ZenonT(60) DEF Next, RequestsMove

-----------------------------------------------------------------------------
(* What num_waiters_ counts                                                *)

Contenders == {t \in Threads : pc[t] \in {"blocked", "contending", "woken"}}
Waiters == {t \in Threads : op[t] = "Reacquire"}

\* A thread that contends while it returns from Wait is counted twice.
WaitersExact == mon.waiters = Cardinality(Contenders) + Cardinality(Waiters)

Counted(w, contenders, waiters) ==
  mon'.waiters = mon.waiters + w /\ Contenders' = contenders /\ Waiters' = waiters

SameWaiters == Counted(0, Contenders, Waiters)
WaitersMove ==
  \/ SameWaiters
  \/ \E t \in Threads \ Contenders : Counted(1, Contenders \union {t}, Waiters)
  \/ \E t \in Contenders : Counted(0 - 1, Contenders \ {t}, Waiters)
  \/ \E t \in Threads \ Waiters : Counted(1, Contenders, Waiters \union {t})
  \/ \E t \in Waiters : Counted(0 - 1, Contenders, Waiters \ {t})

\* What a step that neither makes nor frees the Monitor does to num_waiters_ and
\* to those it counts.
LEMMA WaitersEffect ==
  ASSUME MonitorShape, ThreadTypes, OpLabels, Next,
         \A t \in Threads : ~Install(t), ~DeflateMonitors
  PROVE  WaitersMove
  <1>0. ASSUME NEW t \in Threads, NEW l, NEW o, Goto(t, l, o), mon'.waiters = mon.waiters,
               pc[t] \in {"blocked", "contending", "woken"} <=> l \in {"blocked", "contending", "woken"},
               o = "Reacquire" <=> op[t] = "Reacquire"
        PROVE  SameWaiters
    BY <1>0 DEF Goto, MonitorShape, Contenders, Waiters, Counted, SameWaiters
  <1>1. ASSUME NEW t \in Threads, Step(t) PROVE WaitersMove
    <2>1. CASE \/ Unpark(t) \/ Contend(t) \/ EndWait(t) \/ SuspendThreadByThreadId(t)
               \/ OwnerSuspended(t) \/ OwnerNotSuspended(t)
      BY <2>1, SMTT(60) DEF Unpark, Contend, EndWait, SuspendThreadByThreadId, OwnerSuspended,
         OwnerNotSuspended,
         ThreadTypes, MonitorShape, Contenders, Waiters, Counted, WaitersMove, SameWaiters
    <2>2. CASE Lock(t)
      <3>1. CASE mon.owner \in {None, t} \/ op[t] = "TryEnter"
        BY <2>2, <3>1, <1>0, SMTT(60) DEF Lock, TryLock, Held, MonitorWith, Enters,
           WaitersMove, Return, Inside
      <3>2. CASE ~(mon.owner \in {None, t} \/ op[t] = "TryEnter")
        <4>1. t \in Threads \ Contenders
          BY <2>2, ZenonT(60) DEF Lock, Contenders, Inside
        <4>2. Counted(1, Contenders \union {t}, Waiters)
          BY <2>2, <3>2 DEF Lock, TryLock, Held, MonitorWith, Goto, ThreadTypes, Contenders,
             Waiters, Counted
        <4> QED
          BY <4>1, <4>2, Zenon DEF WaitersMove
      <3> QED
        BY <3>1, <3>2, Zenon
    <2>3. CASE LockAgain(t)
      <3>0. pc[t] = "woken" /\ op[t] \in {"MonitorEnter", "Reacquire"}
        BY <2>3, ZenonT(60) DEF LockAgain, OpLabels
      <3>1. CASE mon.owner \in {None, t}
        <4>1. t \in Contenders
          BY <3>0, ZenonT(60) DEF Contenders
        <4>2. Counted(0 - 1, Contenders \ {t}, Waiters)
          BY <2>3, <3>0, <3>1, SMTT(60) DEF LockAgain, TryLock, Held, MonitorWith, Goto,
             ThreadTypes, MonitorShape, Contenders, Waiters, Counted, Return
        <4> QED
          BY <4>1, <4>2, Zenon DEF WaitersMove
      <3>2. CASE mon.owner \notin {None, t}
        <4>1. Goto(t, "blocked", op[t]) /\ mon'.waiters = mon.waiters - 1 + 1
          BY <2>3, <3>0, <3>2 DEF LockAgain, TryLock, Held, MonitorWith
        <4> QED
          BY <3>0, <4>1, <1>0, SMTT(60) DEF MonitorShape, WaitersMove
      <3> QED
        BY <3>1, <3>2, Zenon
    <2>4. CASE Unlock(t)
      <3>1. /\ pc[t] = "fat" /\ op[t] = "MonitorExit" /\ op' = [op EXCEPT ![t] = "none"]
            /\ mon'.waiters = mon.waiters
        BY <2>4 DEF Unlock, Held, MonitorWith, Inside
      <3> QED
        BY <2>4, <3>1, UnlockMoves, SMTT(60) DEF SameGroup, MonitorShape, Contenders, Waiters,
           Counted, WaitersMove, SameWaiters
    <2>5. CASE Wait(t)
      <3>1. CASE mon.owner # t
        BY <2>5, <3>1, <1>0, Zenon DEF Wait, WaitersMove, Return, Inside
      <3>2. CASE mon.owner = t
        <4>1. /\ pc[t] = "fat" /\ op[t] = "Wait" /\ op' = [op EXCEPT ![t] = "Reacquire"]
              /\ mon'.waiters = mon.waiters + 1
          BY <2>5, <3>2 DEF Wait, Held, MonitorWith, Inside
        <4>2. t \in Threads \ Waiters
          BY <4>1, ZenonT(60) DEF Waiters
        <4>3. Contenders' = Contenders
          BY <2>5, <3>2, <4>1, WaitMoves, SMTT(60) DEF SameGroup, Contenders
        <4>4. Counted(1, Contenders, Waiters \union {t})
          BY <4>1, <4>3, ZenonT(60) DEF ThreadTypes, Waiters, Counted
        <4> QED
          BY <4>2, <4>4, Zenon DEF WaitersMove
      <3> QED
        BY <3>1, <3>2, Zenon
    <2>6. CASE Restore(t)
      <3>1. t \in Waiters
        BY <2>6, ZenonT(60) DEF Restore, OpLabels, Waiters
      <3>2. Counted(0 - 1, Contenders, Waiters \ {t})
        BY <2>6, SMTT(60) DEF Restore, Held, MonitorWith, Goto, ThreadTypes, MonitorShape,
           Contenders, Waiters, Counted, Return
      <3> QED
        BY <3>1, <3>2, Zenon DEF WaitersMove
    <2>7. CASE Notify(t) \/ NotifyAll(t) \/ GetHashCode(t)
      <3>1. Return(t) /\ mon'.waiters = mon.waiters /\ Inside(t, Calls)
        BY <2>7 DEF Notify, NotifyAll, GetHashCode, MonitorWith, Calls, Inside
      <3> QED
        BY <3>1, <1>0, Zenon DEF Calls, Enters, WaitersMove, Return, Inside
    <2> QED
      BY <1>1, <2>1, <2>2, <2>3, <2>4, <2>5, <2>6, <2>7, Zenon DEF Step
  <1>2. ASSUME NEW t \in Threads, Look(t) PROVE SameWaiters
    <2>0. ASSUME NEW o \in Calls \union {"none"}, NEW l \in {"managed", "fat", "install", "suspendOwner"},
                 pc[t] \in {"managed", "loop"}, Goto(t, l, o), mon' = mon
          PROVE  SameWaiters
      BY <2>0, <1>0, ZenonT(60) DEF OpLabels, Calls, Enters
    <2>1. ASSUME NEW o \in Calls,
                 UseMonitor(t, o) \/ (o \in Enters /\ (EnterThin(t, o) \/ EnterInflates(t, o)))
          PROVE  SameWaiters
      BY <2>1, <2>0, ZenonT(60) DEF UseMonitor, EnterThin, EnterInflates, InflateWith, Return,
         At
    <2>2. CASE \/ WaitInflates(t) \/ HashInflates(t) \/ TryEnterFails(t) \/ HashFromWord(t)
      BY <2>2, <2>0, Zenon DEF WaitInflates, HashInflates, InflateWith, TryEnterFails,
         HashFromWord, Calls, Return, At
    <2>3. CASE ExitThin(t)
      BY <2>3 DEF ExitThin, MonitorShape, Contenders, Waiters, Counted, SameWaiters
    <2> QED
      BY <1>2, <2>1, <2>2, <2>3, ZenonT(60) DEF Look, Calls
  <1>3. ASSUME NEW t \in Threads, Park(t) \/ WakeUp(t) PROVE SameWaiters
    BY <1>3, SMTT(60) DEF Park, WakeUp, ThreadTypes, MonitorShape, Contenders, Waiters,
       Counted, SameWaiters
  <1>4. SuspendAll => SameWaiters
    <2>1. SuspendAll => UNCHANGED <<mon, pc, op>>
      BY ZenonT(60) DEF SuspendAll
    <2> QED
      BY <2>1 DEF MonitorShape, Contenders, Waiters, Counted, SameWaiters
  <1> QED
    BY <1>1, <1>2, <1>3, <1>4, Zenon DEF Next, WaitersMove

-----------------------------------------------------------------------------
(* Who changes the lock word, and who stays suspended                      *)

\* Only an owner changes its thin lock, only Install makes the word a monitor's
\* and only DeflateMonitors ends that.
LEMMA WordEffect ==
  ASSUME WordShape, ThreadTypes, OpLabels, Next, word' # word
  PROVE  \/ \E t \in Threads : /\ pc[t] \in {"managed", "loop"}
                               /\ word.state = "unlocked" \/ Thin(t)
                               /\ Return(t) /\ inflate' = inflate
         \/ \E t \in Threads : word.state # "fat" /\ word' = FatLocked /\ Install(t)
         \/ word.state = "fat" /\ DeflateMonitors
  <1>1. ASSUME NEW t \in Threads, Step(t)
        PROVE  word.state # "fat" /\ word' = FatLocked /\ Install(t)
    BY <1>1, Zenon DEF Step, Unpark, SuspendThreadByThreadId, OwnerSuspended, OwnerNotSuspended,
       Install, Lock,
       Contend, LockAgain, Unlock, Wait, EndWait, Restore, Notify, NotifyAll, GetHashCode
  <1>2. ASSUME NEW t \in Threads, Look(t)
        PROVE  /\ pc[t] \in {"managed", "loop"}
               /\ word.state = "unlocked" \/ Thin(t)
               /\ Return(t) /\ inflate' = inflate
    <2>1. ASSUME NEW o \in Enters, EnterThin(t, o)
          PROVE  /\ pc[t] \in {"managed", "loop"}
                 /\ word.state = "unlocked" \/ Thin(t)
                 /\ Return(t) /\ inflate' = inflate
      BY <2>1, ZenonT(60) DEF EnterThin, At
    <2>2. CASE HashFromWord(t)
      BY <2>2, ZenonT(60) DEF HashFromWord, At
    <2>3. CASE ExitThin(t)
      <3>1. op[t] = "none" /\ op' = op /\ pc' = pc
        BY <2>3, ZenonT(60) DEF ExitThin, OpLabels
      <3>2. Return(t)
        BY <2>3, <3>1, ZenonT(60) DEF ExitThin, Return, Goto, ThreadTypes
      <3> QED
        BY <2>3, <3>2, ZenonT(60) DEF ExitThin
    <2>4. (\E o \in Enters : EnterThin(t, o)) \/ ExitThin(t) \/ HashFromWord(t)
      BY <1>2, Zenon DEF Look, UseMonitor, EnterInflates, InflateWith, TryEnterFails,
         WaitInflates, HashInflates
    <2> QED
      BY <2>1, <2>2, <2>3, <2>4, ZenonT(60)
  <1>3. ASSUME NEW t \in Threads PROVE ~Park(t) /\ ~WakeUp(t)
    BY ZenonT(60) DEF Park, WakeUp
  <1>4. ~SuspendAll /\ (DeflateMonitors => word.state = "fat")
    BY ZenonT(60) DEF SuspendAll, DeflateMonitors
  <1> QED
    BY <1>1, <1>2, <1>3, <1>4, ZenonT(60) DEF Next

\* Whoever gives up the mutator lock keeps without it while it is requested.
LEMMA SuspensionEffect ==
  ASSUME ThreadTypes, Next, NEW u \in Threads, Suspended(u), requests[u] # 0
  PROVE  Suspended(u)'
  <1>1. ASSUME NEW t \in Threads, Step(t) PROVE Suspended(u)'
    <2>1. CASE Unlock(t)
      BY <2>1, UnlockMoves, Zenon DEF SameGroup, Unlock, ThreadTypes, Suspended, CanRun,
         Inside
    <2>2. CASE Wait(t) /\ mon.owner = t
      BY <2>2, WaitMoves, Zenon DEF SameGroup, Wait, ThreadTypes, Suspended, CanRun, Return,
         Inside, Goto
    <2>3. CASE Wait(t) /\ mon.owner # t
      BY <2>3, ZenonT(60) DEF Wait, ThreadTypes, Suspended, CanRun, Return, Inside, Goto
    <2>4. CASE \/ SuspendThreadByThreadId(t) \/ OwnerSuspended(t) \/ OwnerNotSuspended(t)
               \/ Install(t)
      BY <2>4, ZenonT(60) DEF SuspendThreadByThreadId, OwnerSuspended, OwnerNotSuspended,
         Install, ThreadTypes,
         Suspended, CanRun
    <2>5. CASE Lock(t) \/ LockAgain(t)
      BY <2>5, ZenonT(60) DEF Lock, LockAgain, TryLock, ThreadTypes, Suspended, CanRun, Goto,
         Return,
         Inside
    <2>6. CASE Unpark(t) \/ Contend(t) \/ EndWait(t) \/ Restore(t)
      BY <2>6, ZenonT(60) DEF Unpark, Contend, EndWait, Restore, ThreadTypes, Suspended, CanRun,
         Return,
         Goto
    <2>7. CASE Notify(t) \/ NotifyAll(t) \/ GetHashCode(t)
      <3>1. Inside(t, Calls) /\ Return(t)
        BY <2>7, ZenonT(60) DEF Notify, NotifyAll, GetHashCode, Calls, ThreadTypes, Suspended,
           CanRun,
           Return, Inside, Goto
      <3> QED
        BY <3>1, ZenonT(60) DEF ThreadTypes, Suspended, CanRun, Return, Inside, Goto
    <2> QED
      BY <1>1, <2>1, <2>2, <2>3, <2>4, <2>5, <2>6, <2>7, ZenonT(60) DEF Step
  <1>2. ASSUME NEW t \in Threads, Look(t) PROVE Suspended(u)'
    <2>1. pc[t] \in {"managed", "loop"} /\ \E l \in Labels : pc' = [pc EXCEPT ![t] = l]
      <3>1. CASE ExitThin(t)
        <4>1. pc' = [pc EXCEPT ![t] = "managed"] /\ pc[t] = "managed"
          BY <3>1, ZenonT(60) DEF ExitThin, ThreadTypes, Suspended, CanRun
        <4> QED
          BY <4>1, ZenonT(60) DEF Labels, ThreadTypes, Suspended, CanRun
      <3>2. CASE ~ExitThin(t)
        BY <1>2, <3>2, Zenon DEF Look, UseMonitor, EnterThin, EnterInflates, InflateWith,
           TryEnterFails, WaitInflates, HashFromWord, HashInflates, Labels, ThreadTypes,
           Suspended, CanRun, Goto, Return, At
      <3> QED
        BY <3>1, <3>2, ZenonT(60)
    <2> QED
      BY <2>1, ZenonT(60) DEF ThreadTypes, Suspended, CanRun
  <1>3. ASSUME NEW t \in Threads, Park(t) \/ WakeUp(t) PROVE Suspended(u)'
    BY <1>3, ZenonT(60) DEF Park, WakeUp, ThreadTypes, Suspended, CanRun
  <1>4. CASE SuspendAll \/ DeflateMonitors
    BY <1>4, ZenonT(60) DEF SuspendAll, DeflateMonitors, ThreadTypes, Suspended, CanRun
  <1> QED
    BY <1>1, <1>2, <1>3, <1>4, ZenonT(60) DEF Next

\* A thread comes to use the monitor by reading its pointer off the lock word.
LEMMA UsersEffect ==
  ASSUME ThreadTypes, Next, NEW u \in Threads, u \in Users', u \notin Users
  PROVE  word.state = "fat" /\ word' = word
  <1>1. ASSUME NEW t \in Threads, Step(t) PROVE FALSE
    <2>1. CASE Unlock(t)
      BY <2>1, UnlockMoves, Zenon DEF SameGroup, Unlock, ThreadTypes, Users, Inside
    <2>2. CASE Wait(t) /\ mon.owner = t
      BY <2>2, WaitMoves, Zenon DEF SameGroup, Wait, ThreadTypes, Users, Return, Inside, Goto
    <2>3. CASE Wait(t) /\ mon.owner # t
      BY <2>3, ZenonT(60) DEF Wait, ThreadTypes, Users, Return, Inside, Goto
    <2>4. CASE \/ SuspendThreadByThreadId(t) \/ OwnerSuspended(t) \/ OwnerNotSuspended(t)
               \/ Install(t)
      BY <2>4, ZenonT(60) DEF SuspendThreadByThreadId, OwnerSuspended, OwnerNotSuspended,
         Install, ThreadTypes,
         Users
    <2>5. CASE Lock(t) \/ LockAgain(t)
      BY <2>5, ZenonT(60) DEF Lock, LockAgain, TryLock, ThreadTypes, Users, Goto, Return, Inside
    <2>6. CASE Unpark(t) \/ Contend(t) \/ EndWait(t) \/ Restore(t)
      BY <2>6, ZenonT(60) DEF Unpark, Contend, EndWait, Restore, ThreadTypes, Users, Return, Goto
    <2>7. CASE Notify(t) \/ NotifyAll(t) \/ GetHashCode(t)
      <3>1. Inside(t, Calls) /\ Return(t)
        BY <2>7, ZenonT(60) DEF Notify, NotifyAll, GetHashCode, Calls, ThreadTypes, Users,
           Return, Inside,
           Goto
      <3> QED
        BY <3>1, ZenonT(60) DEF ThreadTypes, Users, Return, Inside, Goto
    <2> QED
      BY <1>1, <2>1, <2>2, <2>3, <2>4, <2>5, <2>6, <2>7, ZenonT(60) DEF Step
  <1>2. ASSUME NEW t \in Threads, Look(t) PROVE word.state = "fat" /\ word' = word
    <2>1. ASSUME NEW o \in Enters, EnterThin(t, o) \/ EnterInflates(t, o) PROVE FALSE
      <3>1. \E l \in {"managed", "install", "suspendOwner"} : pc' = [pc EXCEPT ![t] = l]
        BY <2>1, ZenonT(60) DEF EnterThin, EnterInflates, InflateWith, Goto, Return
      <3> QED
        BY <3>1, ZenonT(60) DEF ThreadTypes, Users
    <2>2. CASE \/ TryEnterFails(t) \/ ExitThin(t) \/ WaitInflates(t) \/ HashFromWord(t)
               \/ HashInflates(t)
      BY <2>2, Zenon DEF TryEnterFails, ExitThin, WaitInflates, HashFromWord, HashInflates,
         InflateWith, ThreadTypes, Users, Goto, Return
    <2>3. ASSUME NEW o \in Calls, UseMonitor(t, o) PROVE word.state = "fat" /\ word' = word
      BY <2>3, ZenonT(60) DEF UseMonitor, ThreadTypes, Users, Goto
    <2> QED
      BY <1>2, <2>1, <2>2, <2>3, ZenonT(60) DEF Look
  <1>3. ASSUME NEW t \in Threads, Park(t) \/ WakeUp(t) PROVE FALSE
    BY <1>3, ZenonT(60) DEF Park, WakeUp, ThreadTypes, Users
  <1>4. CASE SuspendAll \/ DeflateMonitors
    BY <1>4, ZenonT(60) DEF SuspendAll, DeflateMonitors, ThreadTypes, Users
  <1> QED
    BY <1>1, <1>2, <1>3, <1>4, ZenonT(60) DEF Next

-----------------------------------------------------------------------------
(* Inflation                                                               *)

\* What Install will find in the lock word when thread t calls it.
MayInstall(t) ==
  \/ word.state = "fat"
  \/ word.state = "hash" /\ inflate[t] = [owner |-> None, hash |-> word.hash]
  \/ /\ word.state = "thin" /\ word.owner = inflate[t].owner
     /\ word.owner = t \/ Suspended(word.owner)

StillInstalls(t) == pc[t] = "install" /\ inflate'[t] = inflate[t]
BeginsInstall(t) == word' = word /\ MayInstall(t)'

\* A thread comes to Install with the word it has just read, or, if the owner is
\* another thread, read again.
LEMMA InstallEffect ==
  ASSUME WordShape, ThreadTypes, SuspendsOther, Next, NEW u \in Threads, pc'[u] = "install"
  PROVE  StillInstalls(u) \/ BeginsInstall(u)
  <1>1. ASSUME NEW t \in Threads, Step(t) PROVE StillInstalls(u) \/ BeginsInstall(u)
    <2>1. CASE Unlock(t)
      BY <2>1, UnlockMoves, ZenonT(60) DEF SameGroup, Unlock, ThreadTypes, StillInstalls,
         BeginsInstall, Inside
    <2>2. CASE Wait(t) /\ mon.owner = t
      BY <2>2, WaitMoves, ZenonT(60) DEF SameGroup, Wait, ThreadTypes, StillInstalls,
         BeginsInstall, Return, Inside, Goto
    <2>3. CASE Wait(t) /\ mon.owner # t
      BY <2>3, ZenonT(60) DEF Wait, ThreadTypes, StillInstalls, BeginsInstall, Return, Inside,
         Goto
    <2>4. CASE SuspendThreadByThreadId(t) \/ Install(t) \/ OwnerNotSuspended(t)
      BY <2>4, ZenonT(60) DEF SuspendThreadByThreadId, Install, OwnerNotSuspended, ThreadTypes,
         StillInstalls,
         BeginsInstall
    <2>5. CASE Lock(t) \/ LockAgain(t)
      BY <2>5, ZenonT(60) DEF Lock, LockAgain, TryLock, ThreadTypes, StillInstalls,
         BeginsInstall, Goto, Return, Inside
    <2>6. CASE Unpark(t) \/ Contend(t) \/ EndWait(t) \/ Restore(t)
      BY <2>6, ZenonT(60) DEF Unpark, Contend, EndWait, Restore, ThreadTypes, StillInstalls,
         BeginsInstall, Return, Goto
    <2>7. CASE Notify(t) \/ NotifyAll(t) \/ GetHashCode(t)
      <3>1. Inside(t, Calls) /\ Return(t) /\ inflate' = inflate
        BY <2>7, ZenonT(60) DEF Notify, NotifyAll, GetHashCode, Calls, ThreadTypes,
           StillInstalls, BeginsInstall, Return, Inside, Goto
      <3> QED
        BY <3>1, ZenonT(60) DEF ThreadTypes, StillInstalls, BeginsInstall, Return, Inside, Goto
    <2>8. CASE OwnerSuspended(t)
      <3>1. CASE u = t
        <4> DEFINE v == inflate[t].owner
        <4>1. v \in Threads \ {t} /\ pc[t] = "awaitOwner" /\ Suspended(v) /\ word' = word
          BY <2>8, ZenonT(60) DEF OwnerSuspended, SuspendsOther, ThreadTypes, StillInstalls,
             BeginsInstall
        <4>2. Thin(v) /\ pc' = [pc EXCEPT ![t] = "install"] /\ inflate' = inflate
          BY <2>8, <3>1, <4>1, ZenonT(60) DEF OwnerSuspended, ThreadTypes, StillInstalls,
             BeginsInstall
        <4>3. Suspended(v)'
          BY <4>1, <4>2, ZenonT(60) DEF Suspended, ThreadTypes, StillInstalls, BeginsInstall
        <4> QED
          BY <3>1, <4>1, <4>2, <4>3, ZenonT(60) DEF MayInstall, Thin, ThreadTypes, StillInstalls,
             BeginsInstall
      <3>2. CASE u # t
        BY <2>8, <3>2, Zenon DEF OwnerSuspended, ThreadTypes, StillInstalls, BeginsInstall
      <3> QED
        BY <3>1, <3>2, ZenonT(60)
    <2> QED
      BY <1>1, <2>1, <2>2, <2>3, <2>4, <2>5, <2>6, <2>7, <2>8, ZenonT(60) DEF Step
  <1>2. ASSUME NEW t \in Threads, Look(t) PROVE StillInstalls(u) \/ BeginsInstall(u)
    <2>1. ASSUME NEW o \in Calls, UseMonitor(t, o) \/ EnterThin(t, o) PROVE StillInstalls(u) \/ BeginsInstall(u)
      BY <2>1, ZenonT(60) DEF EnterThin, UseMonitor, ThreadTypes, StillInstalls, BeginsInstall,
         Goto, Return
    <2>2. CASE TryEnterFails(t) \/ ExitThin(t) \/ HashFromWord(t)
      BY <2>2, ZenonT(60) DEF TryEnterFails, ExitThin, HashFromWord, ThreadTypes, StillInstalls,
         BeginsInstall, Return, Goto
    <2>3. ASSUME NEW o, NEW l \in {"install", "suspendOwner"}, NEW v, NEW h,
                 InflateWith(t, o, l, v, h),
                 l = "install" => \/ Thin(t) /\ v = t
                                  \/ word.state = "hash" /\ v = None /\ h = word.hash
          PROVE  StillInstalls(u) \/ BeginsInstall(u)
      BY <2>3, ZenonT(60) DEF InflateWith, MayInstall, Thin, ThreadTypes, StillInstalls,
         BeginsInstall, Goto
    <2>4. ASSUME NEW o \in Enters, EnterInflates(t, o) PROVE StillInstalls(u) \/ BeginsInstall(u)
      BY <2>3, <2>4, ZenonT(60) DEF EnterInflates, ThreadTypes, StillInstalls, BeginsInstall
    <2>5. CASE WaitInflates(t) \/ HashInflates(t)
      BY <2>3, <2>5, ZenonT(60) DEF WaitInflates, HashInflates, Thin, ThreadTypes,
         StillInstalls, BeginsInstall
    <2> QED
      BY <1>2, <2>1, <2>2, <2>4, <2>5, ZenonT(60) DEF Look, Calls
  <1>3. ASSUME NEW t \in Threads, Park(t) \/ WakeUp(t) PROVE StillInstalls(u) \/ BeginsInstall(u)
    BY <1>3, ZenonT(60) DEF Park, WakeUp, ThreadTypes, StillInstalls, BeginsInstall
  <1>4. CASE SuspendAll \/ DeflateMonitors
    BY <1>4, ZenonT(60) DEF SuspendAll, DeflateMonitors, ThreadTypes, StillInstalls, BeginsInstall
  <1> QED
    BY <1>1, <1>2, <1>3, <1>4, ZenonT(60) DEF Next

-----------------------------------------------------------------------------
(* What is counted                                                         *)

\* Sets of threads are finite.  It is a hypothesis of the lemmas up to
\* ThreadsAreCounted, which proves it.
Counting ==
  \A S \in SUBSET Threads :
    /\ Cardinality(S) \in Nat
    /\ S = {} <=> Cardinality(S) = 0
    /\ \A t \in Threads \ S : Cardinality(S \union {t}) = Cardinality(S) + 1
    /\ \A t \in S : Cardinality(S \ {t}) = Cardinality(S) - 1

\* Sets of threads are counted one by one.
LEMMA ThreadsCounted ==
  ASSUME Counting, NEW S \in SUBSET Threads
  PROVE  /\ Cardinality(S) \in Nat
         /\ S = {} <=> Cardinality(S) = 0
         /\ \A t \in Threads \ S : Cardinality(S \union {t}) = Cardinality(S) + 1
         /\ \A t \in S : Cardinality(S \ {t}) = Cardinality(S) - 1
  BY Zenon DEF Counting

\* A thread is asked to stay suspended exactly as often as others want it to be.
LEMMA RequestsStep ==
  ASSUME Counting, WordShape, ThreadTypes, SuspendsOther, RequestsExact, Next
  PROVE  RequestsExact'
  <1> SUFFICES ASSUME NEW u \in Threads PROVE requests'[u] = Cardinality(Requesters(u)')
    BY ZenonT(60) DEF RequestsExact
  <1>1. requests[u] = Cardinality(Requesters(u)) /\ Requesters(u) \in SUBSET Threads
    BY ZenonT(60) DEF RequestsExact, Requesters
  <1> QED
    BY <1>1, RequestsEffect, ThreadsCounted DEF RequestsMove, Kept, Requested, Resumed

\* num_waiters_ counts the contenders and the threads in Wait.
LEMMA WaitersStep ==
  ASSUME Counting, MonitorShape, ThreadTypes, OpLabels, UsersKeepMonitor, WaitersExact, Next
  PROVE  WaitersExact'
  <1>0. Contenders \in SUBSET Threads /\ Waiters \in SUBSET Threads
    BY ZenonT(60) DEF Contenders, Waiters
  <1>1. ASSUME NEW t \in Threads, Install(t) PROVE WaitersExact'
    <2>1. Contenders' = Contenders /\ Waiters' = Waiters
      BY <1>1 DEF Install, Contenders, Waiters
    <2>2. CASE word.state = "fat"
      BY <1>1, <2>1, <2>2, ZenonT(60) DEF Install, WaitersExact
    <2>3. CASE word.state # "fat"
      <3>1. Contenders = {} /\ Waiters = {}
        BY <2>3, ZenonT(60) DEF UsersKeepMonitor, Users, Contenders, Waiters, OpLabels,
           ThreadTypes,
           Labels, Calls, Enters
      <3>2. mon'.waiters = 0
        BY <1>1, <2>3 DEF Install, NewMonitor, MonitorWith
      <3> QED
        BY <1>0, <2>1, <3>1, <3>2, ThreadsCounted DEF WaitersExact
    <2> QED
      BY <2>2, <2>3, ZenonT(60)
  <1>2. CASE DeflateMonitors
    <2>1. Contenders' = Contenders /\ Waiters' = Waiters
      BY <1>2, ZenonT(60) DEF DeflateMonitors, Contenders, Waiters
    <2>2. mon' = mon \/ (mon'.waiters = 0 /\ ~(mon.waiters > 0))
      BY <1>2 DEF DeflateMonitors, NewMonitor, MonitorWith
    <2> QED
      BY <1>0, <2>1, <2>2, ThreadsCounted, SMTT(60) DEF WaitersExact
  <1>3. CASE ~DeflateMonitors /\ \A t \in Threads : ~Install(t)
    BY <1>0, <1>3, WaitersEffect, ThreadsCounted DEF WaitersExact, WaitersMove, SameWaiters,
       Counted
  <1> QED
    BY <1>1, <1>2, <1>3, ZenonT(60)

\* DeflateMonitors frees no monitor that has users.
LEMMA UsersStep ==
  ASSUME Counting, WordShape, ThreadTypes, OpLabels, UsersKeepMonitor, WaitersExact, Next
  PROVE  UsersKeepMonitor'
  <1> SUFFICES ASSUME NEW u \in Threads, u \in Users' PROVE word'.state = "fat"
    BY ZenonT(60) DEF UsersKeepMonitor, Users
  <1>1. CASE u \notin Users
    BY <1>1, UsersEffect, ZenonT(60)
  <1>2. CASE u \in Users /\ word' # word
    <2>1. word.state = "fat"
      BY <1>2, ZenonT(60) DEF UsersKeepMonitor
    <2>2. CASE DeflateMonitors
      <3>1. ~(mon.waiters > 0) /\ Suspended(u)
        BY <1>2, <2>2, ZenonT(60) DEF DeflateMonitors
      <3>2. Contenders \in SUBSET Threads /\ Waiters \in SUBSET Threads
        BY ZenonT(60) DEF Contenders, Waiters
      <3>3. Contenders = {} /\ Waiters = {}
        BY <3>1, <3>2, ThreadsCounted DEF WaitersExact
      <3> QED
        BY <1>2, <3>1, <3>3, ZenonT(60) DEF Contenders, Waiters, Users, Suspended, OpLabels
    <2>3. CASE ~DeflateMonitors
      BY <1>2, <2>1, <2>3, WordEffect, ZenonT(60) DEF Thin
    <2> QED
      BY <2>2, <2>3, ZenonT(60)
  <1>3. CASE u \in Users /\ word' = word
    BY <1>3, ZenonT(60) DEF UsersKeepMonitor
  <1> QED
    BY <1>1, <1>2, <1>3, ZenonT(60)

\* The word a thread inflates is still the one it CHECKs for: an owner other than
\* the thread stays suspended until the thread resumes it.
LEMMA InstallStep ==
  ASSUME Counting, WordShape, ThreadTypes, OpLabels, SuspendsOther, RequestsExact, InstallChecks, Next
  PROVE  InstallChecks'
  <1> SUFFICES ASSUME NEW u \in Threads, pc'[u] = "install" PROVE MayInstall(u)'
    BY ZenonT(60) DEF InstallChecks, MayInstall
  <1>1. CASE pc[u] = "install" /\ inflate'[u] = inflate[u]
    <2>1. MayInstall(u)
      BY <1>1, ZenonT(60) DEF InstallChecks, MayInstall
    <2>2. ASSUME NEW v \in Threads \ {u}, word.state = "thin", word.owner = v
          PROVE  Suspended(v) /\ Suspended(v)'
      <3>1. v = inflate[u].owner /\ Suspended(v)
        BY <2>1, <2>2, ZenonT(60) DEF MayInstall
      <3>2. u \in Requesters(v) /\ Requesters(v) \in SUBSET Threads
        BY <1>1, <3>1, ZenonT(60) DEF Requesters
      <3>3. requests[v] # 0
        BY <3>2, ThreadsCounted, ZenonT(60) DEF RequestsExact
      <3> QED
        BY <3>1, <3>3, SuspensionEffect, ZenonT(60)
    <2>3. CASE word' = word
      BY <1>1, <2>1, <2>2, <2>3, ZenonT(60) DEF MayInstall, WordShape
    <2>4. CASE word' # word
      <3>1. ~DeflateMonitors
        BY <1>1, ZenonT(60) DEF DeflateMonitors, Suspended
      <3>2. ASSUME NEW t \in Threads, pc[t] \in {"managed", "loop"}, word.state = "unlocked" \/ Thin(t)
            PROVE  FALSE
        BY <1>1, <2>1, <2>2, <3>2, ZenonT(60) DEF MayInstall, Thin, Suspended
      <3> QED
        BY <2>4, <3>1, <3>2, WordEffect, SMTT(60) DEF FatLocked, MayInstall
    <2> QED
      BY <2>3, <2>4, ZenonT(60)
  <1> QED
    BY <1>1, InstallEffect, ZenonT(60) DEF StillInstalls, BeginsInstall

-----------------------------------------------------------------------------
(* The enters of each thread, and the depth of the lock                    *)

\* The lock word or the Monitor has the enters of a thread, or the thread in Wait
\* remembers them; a thread in Wait owns the monitor only to restore its count.
EnteredAt(t) ==
  /\ op[t] # "Reacquire" => entered[t] = Depth(t)
  /\ op[t] = "Reacquire" => entered[t] = prev[t] + 1
  /\ op[t] = "Reacquire" => (pc[t] = "restore" <=> mon.owner = t)

EnteredExact == \A t \in Threads : EnteredAt(t)

\* Steps that move one thread and change none of what EnteredAt looks at.
LEMMA EnteredKept ==
  ASSUME ThreadTypes, EnteredExact, NEW u \in Threads,
         word' = word, mon'.owner = mon.owner, mon'.count = mon.count,
         entered' = entered, prev' = prev,
         op'[u] = "Reacquire" <=> op[u] = "Reacquire",
         op[u] = "Reacquire" => (pc'[u] = "restore" <=> pc[u] = "restore")
  PROVE  EnteredAt(u)'
  BY ZenonT(60) DEF EnteredExact, EnteredAt, Depth, Thin

\* Every step of Lock, Unlock, Wait and of inflation and deflation keeps track of
\* the enters.
LEMMA EnteredStep ==
  ASSUME WordShape, MonitorShape, ThreadTypes, OpLabels, UsersKeepMonitor, UsersKeepMonitor',
         OpLabels', ThreadTypes', InstallChecks, EnteredExact, Next
  PROVE  EnteredExact'
  <1> SUFFICES ASSUME NEW u \in Threads PROVE EnteredAt(u)'
    BY MonitorAssumption, ZenonT(60) DEF EnteredExact, ThreadTypes
  <1>0. EnteredAt(u)
    BY MonitorAssumption, ZenonT(60) DEF EnteredExact, ThreadTypes
  <1>r. op[u] = "Reacquire" => word.state = "fat"
    BY MonitorAssumption, SMTT(60) DEF OpLabels, UsersKeepMonitor, Users, Labels, Calls,
       Enters, ThreadTypes
  <1>s. op'[u] = "Reacquire" => word'.state = "fat"
    BY MonitorAssumption DEF OpLabels, UsersKeepMonitor, Users, Labels, Calls, Enters,
       ThreadTypes
  <1>1. ASSUME NEW t \in Threads, Step(t) PROVE EnteredAt(u)'
    <2>f. pc[t] \in {"fat", "woken", "restore"} => word.state = "fat"
      BY MonitorAssumption, SMTT(60) DEF UsersKeepMonitor, Users, ThreadTypes
    <2>1. CASE \/ Unpark(t) \/ Contend(t) \/ EndWait(t) \/ SuspendThreadByThreadId(t)
               \/ OwnerSuspended(t) \/ OwnerNotSuspended(t)
      BY <2>1, EnteredKept, MonitorAssumption, ZenonT(60) DEF Unpark, Contend, EndWait,
         SuspendThreadByThreadId, OwnerSuspended, OwnerNotSuspended, history, ThreadTypes
    <2>2. CASE Install(t)
      <3>1. CASE word.state = "fat"
        BY <2>2, <3>1, EnteredKept, MonitorAssumption, ZenonT(60) DEF Install, history,
           ThreadTypes
      <3>2. CASE word.state # "fat"
        <4>1. /\ pc[t] = "install" /\ word' = FatLocked /\ op' = op /\ entered' = entered
              /\ mon'.owner = inflate[t].owner /\ mon'.count = word.count
          BY <2>2, <3>2, MonitorAssumption DEF Install, history, NewMonitor, MonitorWith,
             ThreadTypes
        <4>2. \/ word.state = "hash" /\ inflate[t].owner = None
              \/ word.state = "thin" /\ inflate[t].owner = word.owner
          BY <3>2, <4>1, MonitorAssumption, SMTT(60) DEF InstallChecks, ThreadTypes
        <4>3. Depth(u)' = Depth(u)
          BY <3>2, <4>1, <4>2, MonitorAssumption, SMTT(60) DEF Depth, Thin, FatLocked,
             ThreadTypes
        <4> QED
          BY <1>0, <1>r, <3>2, <4>1, <4>3, MonitorAssumption, ZenonT(60) DEF EnteredAt,
             ThreadTypes
      <3> QED
        BY <3>1, <3>2, ZenonT(60)
    <2>3. CASE Lock(t) \/ LockAgain(t)
      <3>0. /\ word.state = "fat" /\ word' = word /\ prev' = prev
            /\ \E w \in Int : TryLock(t, w)
            /\ pc[t] \in {"fat", "woken"}
        BY <2>3, <2>f, MonitorAssumption, SMTT(60) DEF Lock, LockAgain, MonitorShape,
           ThreadTypes, Inside
      <3>1. CASE mon.owner \notin {None, t}
        BY <3>0, <3>1, EnteredKept, MonitorAssumption, SMTT(60) DEF TryLock, Held,
           MonitorWith, ThreadTypes, Goto, Return
      <3>2. CASE mon.owner \in {None, t} /\ op[t] = "Reacquire"
        <4>1. mon.owner = None /\ mon.count = 0
          BY <3>0, <3>2, MonitorAssumption, ZenonT(60) DEF EnteredExact, EnteredAt,
             MonitorShape, ThreadTypes
        <4>2. /\ mon'.owner = t /\ mon'.count = 0
              /\ pc' = [pc EXCEPT ![t] = "restore"] /\ op' = op /\ entered' = entered
          BY <3>0, <3>2, <4>1, MonitorAssumption, SMTT(60) DEF TryLock, Held, MonitorWith,
             ThreadTypes, Goto, Return
        <4> QED
          BY <1>0, <3>0, <3>2, <4>1, <4>2, MonitorAssumption, ZenonT(60) DEF EnteredAt, Depth,
             Thin, ThreadTypes
      <3>3. CASE mon.owner \in {None, t} /\ op[t] # "Reacquire"
        <4>1. /\ mon'.owner = t /\ mon'.count = IF mon.owner = t THEN mon.count + 1 ELSE mon.count
              /\ pc' = [pc EXCEPT ![t] = "managed"] /\ op' = [op EXCEPT ![t] = "none"]
              /\ entered' = [entered EXCEPT ![t] = @ + 1]
          BY <3>0, <3>3, MonitorAssumption, SMTT(60) DEF TryLock, Held, MonitorWith,
             ThreadTypes, Goto, Return
        <4>2. CASE u = t
          BY <1>0, <3>0, <3>3, <4>1, <4>2, MonitorAssumption, ZenonT(60) DEF EnteredAt, Depth,
             Thin, MonitorShape, WordShape, ThreadTypes
        <4>3. CASE u # t
          BY <1>0, <3>0, <3>3, <4>1, <4>3, MonitorAssumption, SMTT(60) DEF EnteredAt, Depth,
             Thin, MonitorShape, WordShape, ThreadTypes
        <4> QED
          BY <4>2, <4>3, ZenonT(60)
      <3> QED
        BY <3>1, <3>2, <3>3, ZenonT(60)
    <2>4. CASE Unlock(t)
      <3>0. /\ word.state = "fat" /\ word' = word /\ prev' = prev /\ op[t] = "MonitorExit"
            /\ op' = [op EXCEPT ![t] = "none"]
        BY <2>4, <2>f, MonitorAssumption, ZenonT(60) DEF Unlock, ThreadTypes, Inside
      <3>1. /\ u # t => (pc'[u] = "restore" <=> pc[u] = "restore")
            /\ u = t => pc'[u] # "restore"
        BY <2>4, UnlockMoves, MonitorAssumption, ZenonT(60) DEF SameGroup, ThreadTypes
      <3>2. CASE mon.owner # t
        BY <2>4, <3>0, <3>1, <3>2, EnteredKept, MonitorAssumption, ZenonT(60) DEF Unlock,
           ThreadTypes, Inside
      <3>3. CASE mon.owner = t
        <4>1. /\ mon'.owner = IF mon.count = 0 THEN None ELSE t
              /\ mon'.count = IF mon.count = 0 THEN 0 ELSE mon.count - 1
              /\ entered' = [entered EXCEPT ![t] = @ - 1]
          BY <2>4, <3>3, MonitorAssumption, SMTT(60) DEF Unlock, Held, MonitorWith,
             ThreadTypes, Inside
        <4> QED
          BY <1>0, <3>0, <3>1, <3>3, <4>1, MonitorAssumption, SMTT(60) DEF EnteredAt, Depth,
             Thin, MonitorShape, WordShape, ThreadTypes
      <3> QED
        BY <3>2, <3>3, ZenonT(60)
    <2>5. CASE Wait(t)
      <3>1. CASE mon.owner # t
        BY <2>5, <3>1, EnteredKept, MonitorAssumption, ZenonT(60) DEF Wait, history,
           ThreadTypes, Return, Inside, Goto
      <3>2. CASE mon.owner = t
        <4>1. /\ word.state = "fat" /\ word' = word /\ op[t] = "Wait" /\ entered' = entered
              /\ op' = [op EXCEPT ![t] = "Reacquire"] /\ prev' = [prev EXCEPT ![t] = mon.count]
              /\ mon'.owner = None /\ mon'.count = 0
          <5>1. /\ pc[t] = "fat" /\ word' = word /\ op[t] = "Wait" /\ entered' = entered
                /\ op' = [op EXCEPT ![t] = "Reacquire"] /\ prev' = [prev EXCEPT ![t] = mon.count]
                /\ mon' = Held(None, 0, mon.waiters + 1)
            BY <2>5, <3>2, MonitorAssumption, ZenonT(60) DEF Wait, history, ThreadTypes, Return,
               Inside, Goto
          <5> QED
            BY <2>f, <5>1, MonitorAssumption, ZenonT(60) DEF Held, MonitorWith, ThreadTypes
        <4>2. /\ u # t => (pc'[u] = "restore" <=> pc[u] = "restore")
              /\ u = t => pc'[u] # "restore"
          BY <2>5, <3>2, WaitMoves, MonitorAssumption, ZenonT(60) DEF SameGroup, ThreadTypes
        <4> QED
          BY <1>0, <3>2, <4>1, <4>2, MonitorAssumption, ZenonT(60) DEF EnteredAt, Depth, Thin,
             MonitorShape, WordShape, ThreadTypes
      <3> QED
        BY <3>1, <3>2, ZenonT(60)
    <2>6. CASE Restore(t)
      <3>1. /\ word.state = "fat" /\ word' = word /\ pc[t] = "restore" /\ entered' = entered
            /\ op' = [op EXCEPT ![t] = "none"] /\ prev' = [prev EXCEPT ![t] = 0]
            /\ pc' = [pc EXCEPT ![t] = "managed"]
            /\ mon'.owner = t /\ mon'.count = prev[t]
        BY <2>6, <2>f, MonitorAssumption, ZenonT(60) DEF Restore, history, Held, MonitorWith,
           ThreadTypes, Return, Goto
      <3>2. op[t] = "Reacquire" /\ mon.owner = t /\ entered[t] = prev[t] + 1
        BY <3>1, MonitorAssumption, ZenonT(60) DEF OpLabels, EnteredExact, EnteredAt, ThreadTypes
      <3> QED
        BY <1>0, <3>1, <3>2, MonitorAssumption, ZenonT(60) DEF EnteredAt, Depth, Thin,
           WordShape, ThreadTypes
    <2>7. CASE Notify(t) \/ NotifyAll(t) \/ GetHashCode(t)
      <3>1. /\ Return(t) /\ mon'.owner = mon.owner /\ mon'.count = mon.count /\ Inside(t, Calls)
            /\ word' = word /\ entered' = entered /\ prev' = prev
        <4>1. /\ Return(t) /\ Inside(t, Calls)
              /\ word' = word /\ entered' = entered /\ prev' = prev
              /\ \/ mon' = mon
                 \/ \E h \in Hashes : mon' = MonitorWith(mon.owner, mon.count, mon.waiters, h)
          BY <2>7, ZenonT(60) DEF Notify, NotifyAll, GetHashCode, Calls, history, Inside
        <4>2. mon'.owner = mon.owner /\ mon'.count = mon.count
          BY <4>1 DEF MonitorWith
        <4> QED
          BY <4>1, <4>2
      <3> QED
        BY <3>1, EnteredKept, MonitorAssumption, ZenonT(60) DEF Calls, Enters, ThreadTypes,
           Return, Inside, Goto
    <2> QED
      BY <1>1, <2>1, <2>2, <2>3, <2>4, <2>5, <2>6, <2>7, ZenonT(60) DEF Step
  <1>2. ASSUME NEW t \in Threads, Look(t) PROVE EnteredAt(u)'
    <2>0. ASSUME NEW o \in Calls \union {"none"}, NEW l \in Labels \ {"restore"},
                 pc[t] \in {"managed", "loop"}, Goto(t, l, o),
                 word' = word, mon' = mon, entered' = entered, prev' = prev
          PROVE  EnteredAt(u)'
      BY <2>0, EnteredKept, MonitorAssumption, ZenonT(60) DEF OpLabels, Calls, Enters,
         ThreadTypes, Goto
    <2>1. ASSUME NEW o \in Calls, UseMonitor(t, o) \/ (o \in Enters /\ EnterInflates(t, o))
          PROVE  EnteredAt(u)'
      BY <2>1, <2>0, MonitorAssumption, ZenonT(60) DEF UseMonitor, EnterInflates, InflateWith,
         Labels, history, ThreadTypes, Goto, At
    <2>2. CASE WaitInflates(t) \/ HashInflates(t) \/ TryEnterFails(t)
      BY <2>2, <2>0, MonitorAssumption, ZenonT(60) DEF WaitInflates, HashInflates, InflateWith,
         TryEnterFails, Calls, Labels, history, ThreadTypes, Goto, Return, At
    <2>3. ASSUME NEW o \in Enters, EnterThin(t, o) PROVE EnteredAt(u)'
      <3>1. op[t] # "Reacquire" /\ op'[t] # "Reacquire" /\ word.state # "fat" /\ word'.state = "thin"
        BY <2>3, MonitorAssumption, SMTT(60) DEF EnterThin, OpLabels, Calls, Enters, Thin,
           ThinLocked, ThreadTypes, Return, At, Goto
      <3>2. CASE u = t
        BY <1>0, <2>3, <3>1, <3>2, MonitorAssumption, SMTT(60) DEF EnterThin, EnteredAt,
           Depth, Thin, ThinLocked, WordShape, ThreadTypes, Return, At, Goto
      <3>3. CASE u # t
        BY <1>0, <1>r, <2>3, <3>1, <3>3, MonitorAssumption, SMTT(60) DEF EnterThin, EnteredAt,
           Depth, Thin, ThinLocked, WordShape, ThreadTypes, Return, At, Goto
      <3> QED
        BY <3>2, <3>3, ZenonT(60)
    <2>4. CASE ExitThin(t)
      BY <1>0, <1>r, <2>4, MonitorAssumption, SMTT(60) DEF ExitThin, OpLabels, EnteredAt,
         Depth, Thin, ThinLocked, Unlocked, WordShape, ThreadTypes
    <2>5. CASE HashFromWord(t)
      <3>1. /\ word'.state = "hash" /\ word.state # "fat" /\ word.state # "thin"
            /\ entered' = entered /\ op' = [op EXCEPT ![t] = "none"]
        BY <2>5, MonitorAssumption, SMTT(60) DEF HashFromWord, HashCode, ThreadTypes, Return,
           At, Goto
      <3>2. op[t] # "Reacquire"
        BY <2>5, MonitorAssumption, ZenonT(60) DEF HashFromWord, OpLabels, ThreadTypes, Return,
           At, Goto
      <3> QED
        BY <1>0, <1>r, <3>1, <3>2, MonitorAssumption, ZenonT(60) DEF EnteredAt, Depth, Thin,
           ThreadTypes
    <2> QED
      BY <1>2, <2>1, <2>2, <2>3, <2>4, <2>5, ZenonT(60) DEF Look, Calls
  <1>3. ASSUME NEW t \in Threads, Park(t) \/ WakeUp(t) PROVE EnteredAt(u)'
    BY <1>3, EnteredKept, MonitorAssumption, ZenonT(60) DEF Park, WakeUp, history, ThreadTypes
  <1>4. CASE SuspendAll
    BY <1>4, EnteredKept, MonitorAssumption, ZenonT(60) DEF SuspendAll, history, ThreadTypes
  <1>5. CASE DeflateMonitors
    <2>1. CASE UNCHANGED <<word, mon>>
      BY <1>5, <2>1, EnteredKept, MonitorAssumption, ZenonT(60) DEF DeflateMonitors, history,
         ThreadTypes
    <2>2. CASE ~UNCHANGED <<word, mon>>
      <3>1. /\ word.state = "fat" /\ op' = op /\ entered' = entered
            /\ word' = IF mon.owner # None THEN ThinLocked(mon.owner, mon.count)
                       ELSE IF mon.hash # 0 THEN HashCode(mon.hash) ELSE Unlocked
        BY <1>5, <2>2, MonitorAssumption, ZenonT(60) DEF DeflateMonitors, history, ThreadTypes
      <3>2. word'.state # "fat" /\ Depth(u)' = Depth(u)
        BY <3>1, MonitorAssumption, ZenonT(60) DEF Depth, Thin, ThinLocked, HashCode, Unlocked,
           ThreadTypes
      <3> QED
        BY <1>0, <1>s, <3>1, <3>2, MonitorAssumption, ZenonT(60) DEF EnteredAt, ThreadTypes
    <2> QED
      BY <2>1, <2>2, ZenonT(60)
  <1> QED
    BY <1>1, <1>2, <1>3, <1>4, <1>5, ZenonT(60) DEF Next

-----------------------------------------------------------------------------
(* The identity hash code                                                  *)

\* A hash code that was returned is in the lock word or in its monitor.
HashKept ==
  /\ word.state = "hash" => word.hash # 0
  /\ \A h \in returned : /\ h # 0
                         /\ \/ word.state = "hash" /\ word.hash = h
                            \/ word.state = "fat" /\ mon.hash = h

\* Inflation takes the hash code along, deflation puts it back, and no lock that
\* would overwrite it is taken.
LEMMA HashStep ==
  ASSUME WordShape, MonitorShape, ThreadTypes, UsersKeepMonitor, InstallChecks, HashKept, Next
  PROVE  HashKept'
  <1>0. ASSUME word' = word, mon'.hash = mon.hash, returned' = returned PROVE HashKept'
    BY <1>0, MonitorAssumption, ZenonT(60) DEF HashKept, history
  <1>1. ASSUME NEW t \in Threads, Step(t) PROVE HashKept'
    <2>1. CASE Install(t)
      <3>1. CASE word.state = "fat"
        BY <2>1, <3>1, MonitorAssumption, ZenonT(60) DEF Install, HashKept, history
      <3>2. CASE word.state # "fat"
        <4>1. /\ pc[t] = "install" /\ word' = FatLocked /\ returned' = returned
              /\ mon'.hash = inflate[t].hash
          <5>1. /\ pc[t] = "install" /\ word' = FatLocked /\ returned' = returned
                /\ mon' = NewMonitor(inflate[t].owner, word.count, inflate[t].hash)
            BY <2>1, <3>2, ZenonT(60) DEF Install, history
          <5> QED
            BY <5>1 DEF NewMonitor, MonitorWith
        <4>2. \/ word.state = "thin"
              \/ word.state = "hash" /\ inflate[t].hash = word.hash
          BY <3>2, <4>1, MonitorAssumption DEF InstallChecks, HashKept, history
        <4> QED
          BY <3>2, <4>1, <4>2, MonitorAssumption, ZenonT(60) DEF FatLocked, HashKept, history
      <3> QED
        BY <3>1, <3>2, ZenonT(60)
    <2>2. CASE GetHashCode(t)
      <3>1. word.state = "fat" /\ word' = word /\ returned' = returned \union {mon'.hash}
        BY <2>2, MonitorAssumption, ZenonT(60) DEF GetHashCode, Inside, UsersKeepMonitor, Users,
           HashKept,
           history
      <3>2. CASE mon.hash = 0
        <4>1. returned = {} /\ mon'.hash # 0
          BY <2>2, <3>1, <3>2, MonitorAssumption DEF GetHashCode, MonitorWith, HashKept,
             history
        <4> QED
          BY <3>1, <4>1, MonitorAssumption, ZenonT(60) DEF HashKept, history
      <3>3. CASE mon.hash # 0
        BY <2>2, <3>1, <3>3, MonitorAssumption, ZenonT(60) DEF GetHashCode, HashKept, history
      <3> QED
        BY <3>2, <3>3, ZenonT(60)
    <2>3. CASE Lock(t) \/ LockAgain(t)
      BY <2>3, <1>0, MonitorAssumption, SMTT(60) DEF Lock, LockAgain, TryLock, Held,
         MonitorWith, HashKept, history
    <2>4. CASE Unlock(t)
      BY <2>4, <1>0, MonitorAssumption, SMTT(60) DEF Unlock, Held, MonitorWith, HashKept,
         history
    <2>5. CASE Wait(t)
      <3>1. word' = word /\ returned' = returned /\ (mon' = mon \/ mon' = Held(None, 0, mon.waiters + 1))
        BY <2>5, MonitorAssumption, ZenonT(60) DEF Wait, HashKept, history
      <3> QED
        BY <3>1, <1>0, MonitorAssumption, SMTT(60) DEF Held, MonitorWith, HashKept, history
    <2>6. CASE Restore(t)
      BY <2>6, <1>0, MonitorAssumption, ZenonT(60) DEF Restore, Held, MonitorWith, HashKept,
         history
    <2>7. CASE \/ Unpark(t) \/ SuspendThreadByThreadId(t) \/ OwnerSuspended(t)
               \/ OwnerNotSuspended(t)
               \/ Contend(t) \/ EndWait(t) \/ Notify(t) \/ NotifyAll(t)
      BY <2>7, <1>0, MonitorAssumption, Zenon DEF Unpark, SuspendThreadByThreadId,
         OwnerSuspended, OwnerNotSuspended, Contend, EndWait, Notify, NotifyAll, HashKept, history
    <2> QED
      BY <1>1, <2>1, <2>2, <2>3, <2>4, <2>5, <2>6, <2>7, ZenonT(60) DEF Step
  <1>2. ASSUME NEW t \in Threads, Look(t) PROVE HashKept'
    <2>1. ASSUME NEW o \in Calls, UseMonitor(t, o) \/ EnterInflates(t, o) PROVE HashKept'
      BY <2>1, <1>0, MonitorAssumption, ZenonT(60) DEF UseMonitor, EnterInflates, InflateWith,
         HashKept, history
    <2>2. CASE WaitInflates(t) \/ HashInflates(t) \/ TryEnterFails(t)
      BY <2>2, <1>0, MonitorAssumption, ZenonT(60) DEF WaitInflates, HashInflates,
         InflateWith, TryEnterFails, HashKept, history
    <2>3. ASSUME NEW o \in Enters, EnterThin(t, o) PROVE HashKept'
      BY <2>3, MonitorAssumption DEF EnterThin, Thin, ThinLocked, HashKept, history
    <2>4. CASE ExitThin(t)
      BY <2>4, MonitorAssumption, Zenon DEF ExitThin, Thin, ThinLocked, Unlocked, HashKept,
         history
    <2>5. CASE HashFromWord(t)
      BY <2>5, MonitorAssumption, SMTT(60) DEF HashFromWord, HashCode, HashKept, history
    <2> QED
      BY <1>2, <2>1, <2>2, <2>3, <2>4, <2>5, ZenonT(60) DEF Look, Calls
  <1>3. ASSUME NEW t \in Threads, Park(t) \/ WakeUp(t) PROVE HashKept'
    BY <1>3, MonitorAssumption, ZenonT(60) DEF Park, WakeUp, HashKept, history
  <1>4. CASE SuspendAll
    BY <1>4, MonitorAssumption, ZenonT(60) DEF SuspendAll, HashKept, history
  <1>5. CASE DeflateMonitors
    BY <1>5, MonitorAssumption DEF DeflateMonitors, ThinLocked, HashCode, Unlocked, HashKept,
       history
  <1> QED
    BY <1>1, <1>2, <1>3, <1>4, <1>5, ZenonT(60) DEF Next

-----------------------------------------------------------------------------
(* The invariant                                                           *)

Inv ==
  /\ WordShape /\ MonitorShape /\ ThreadTypes /\ OpLabels /\ SuspendsOther
  /\ RequestsExact /\ WaitersExact
  /\ UsersKeepMonitor /\ InstallChecks
  /\ EnteredExact /\ HashKept

\* An object starts unlocked, with nobody inside.
LEMMA InitInv ==
  ASSUME Counting, Init
  PROVE  Inv
  <1>1. WordShape /\ MonitorShape
    BY MonitorAssumption DEF Init, WordShape, MonitorShape, Hash, Unlocked, NewMonitor,
       MonitorWith
  <1>2. ThreadTypes
    BY MonitorAssumption DEF Init, ThreadTypes, Labels, Nothing, Inflations, Hash
  <1>3. OpLabels /\ SuspendsOther /\ UsersKeepMonitor /\ InstallChecks
    BY ZenonT(60) DEF Init, OpLabels, SuspendsOther, UsersKeepMonitor, Users, InstallChecks
  <1>4. (\A u \in Threads : Requesters(u) = {}) /\ Contenders = {} /\ Waiters = {}
    BY ZenonT(60) DEF Init, Requesters, Contenders, Waiters
  <1>5. Cardinality({}) = 0
    BY ThreadsCounted, {} \in SUBSET Threads, ZenonT(60)
  <1>6. mon.waiters = 0 /\ \A u \in Threads : requests[u] = 0
    BY ZenonT(60) DEF Init, NewMonitor, MonitorWith
  <1>7. RequestsExact
    BY <1>4, <1>5, <1>6, ZenonT(60) DEF RequestsExact
  <1>8. WaitersExact
    BY <1>4, <1>5, <1>6 DEF WaitersExact
  <1>9. EnteredExact
    BY MonitorAssumption, ZenonT(60) DEF Init, Unlocked, EnteredExact, EnteredAt, Depth, Thin
  <1>10. HashKept
    BY ZenonT(60) DEF Init, Unlocked, HashKept
  <1> QED
    BY <1>1, <1>2, <1>3, <1>7, <1>8, <1>9, <1>10, ZenonT(60) DEF Inv

\* Every step keeps the invariant.
LEMMA StepInv ==
  ASSUME Counting, Inv, [Next]_vars
  PROVE  Inv'
  <1>1. CASE Next
    <2>1. WordShape' /\ MonitorShape' /\ ThreadTypes'
      BY <1>1, WordStep, MonitorStep, ThreadStep, ZenonT(60) DEF Inv
    <2>2. OpLabels' /\ SuspendsOther'
      BY <1>1, LabelStep, ZenonT(60) DEF Inv
    <2>3. RequestsExact' /\ WaitersExact'
      BY <1>1, RequestsStep, WaitersStep, ZenonT(60) DEF Inv
    <2>4. UsersKeepMonitor' /\ InstallChecks'
      BY <1>1, UsersStep, InstallStep, ZenonT(60) DEF Inv
    <2>5. EnteredExact'
      BY <1>1, <2>1, <2>2, <2>4, EnteredStep, ZenonT(60) DEF Inv
    <2>6. HashKept'
      BY <1>1, HashStep, ZenonT(60) DEF Inv
    <2> QED
      BY <2>1, <2>2, <2>3, <2>4, <2>5, <2>6, ZenonT(60) DEF Inv
  <1>2. CASE UNCHANGED vars
    <2>0. UNCHANGED <<word, mon, pc, op, prev, inflate, requests, returned, entered>>
      BY <1>2, ZenonT(60) DEF vars, history
    <2>1. WordShape' /\ MonitorShape' /\ ThreadTypes'
      BY <1>2, <2>0, ZenonT(60) DEF Inv, WordShape, MonitorShape, ThreadTypes
    <2>2. OpLabels' /\ SuspendsOther' /\ UsersKeepMonitor' /\ InstallChecks'
      BY <1>2, <2>0, ZenonT(60) DEF Inv, OpLabels, SuspendsOther, UsersKeepMonitor, Users,
         InstallChecks, Suspended
    <2>3. RequestsExact' /\ WaitersExact'
      BY <1>2, <2>0, ZenonT(60) DEF Inv, RequestsExact, Requesters, WaitersExact, Contenders,
         Waiters
    <2>4. EnteredExact' /\ HashKept'
      BY <1>2, <2>0, ZenonT(60) DEF Inv, EnteredExact, EnteredAt, Depth, Thin, HashKept
    <2> QED
      BY <2>1, <2>2, <2>3, <2>4, ZenonT(60) DEF Inv
  <1> QED
    BY <1>1, <1>2, ZenonT(60)

-----------------------------------------------------------------------------
(* The refinement                                                          *)

\* The variables of JavaMonitor that Java names by expressions.
JavaDepth == IF Holder = None THEN 0
             ELSE IF pc[Holder] = "restore" THEN prev[Holder] + 1
             ELSE Depth(Holder)
JavaWaiting == {t \in Threads : op[t] = "Reacquire" /\ pc[t] # "restore"}

\* The depth of the lock is the number of enters of its holder.
DepthExact ==
  /\ Holder \in Threads \union {None}
  /\ JavaDepth = IF Holder = None THEN 0 ELSE entered[Holder]

\* The invariant ties the lock word and lock_count_ to the enters of the holder,
\* in Wait by what it remembers of its count.
LEMMA DepthIsEntered == Inv => DepthExact
  <1> SUFFICES ASSUME Inv PROVE DepthExact
    BY ZenonT(60)
  <1>1. Holder \in Threads \union {None}
    BY MonitorAssumption, ZenonT(60) DEF Inv, Holder, WordShape, MonitorShape
  <1>2. ASSUME NEW t \in Threads, Holder = t
        PROVE  entered[t] = IF pc[t] = "restore" THEN prev[t] + 1 ELSE Depth(t)
    <2>1. EnteredAt(t) /\ (pc[t] = "restore" => op[t] = "Reacquire")
      BY MonitorAssumption, ZenonT(60) DEF Inv, EnteredExact, OpLabels
    <2>2. op[t] = "Reacquire" => word.state = "fat"
      BY MonitorAssumption, ZenonT(60) DEF Inv, OpLabels, UsersKeepMonitor, Users, ThreadTypes,
         Labels,
         Calls, Enters
    <2> QED
      BY <1>2, <2>1, <2>2, MonitorAssumption, ZenonT(60) DEF EnteredAt, Holder
  <1> QED
    BY <1>1, <1>2, MonitorAssumption, ZenonT(60) DEF JavaDepth, DepthExact

\* What a step can do to the lock, seen as JavaMonitor sees it.
LockKept == Holder' = Holder /\ entered' = entered /\ JavaWaiting' = JavaWaiting
Entered(t) ==
  /\ Holder \in {None, t} /\ t \notin JavaWaiting /\ Holder' = t
  /\ entered' = [entered EXCEPT ![t] = @ + 1] /\ JavaWaiting' = JavaWaiting
Exited(t) ==
  /\ Holder = t /\ Holder' = IF entered[t] = 1 THEN None ELSE t
  /\ entered' = [entered EXCEPT ![t] = @ - 1] /\ JavaWaiting' = JavaWaiting
BeganWait(t) ==
  /\ Holder = t /\ Holder' = None
  /\ JavaWaiting' = JavaWaiting \union {t} /\ entered' = entered
EndedWait(t) ==
  /\ Holder = None /\ t \in JavaWaiting /\ Holder' = t
  /\ JavaWaiting' = JavaWaiting \ {t} /\ entered' = entered

LockMove ==
  LockKept \/ \E t \in Threads : Entered(t) \/ Exited(t) \/ BeganWait(t) \/ EndedWait(t)

\* Every step enters, exits, begins or ends a wait, or is none of the Java program's
\* business.
LEMMA LockEffect ==
  ASSUME Inv, Next
  PROVE  LockMove
  <1>t. ThreadTypes /\ OpLabels /\ WordShape /\ MonitorShape /\ \A u \in Threads : EnteredAt(u)
    BY ZenonT(60) DEF Inv, EnteredExact
  <1>0. ASSUME word' = word, mon'.owner = mon.owner, entered' = entered,
               \A u \in Threads : /\ op'[u] = "Reacquire" <=> op[u] = "Reacquire"
                                  /\ op[u] = "Reacquire" => (pc'[u] = "restore" <=> pc[u] = "restore")
        PROVE  LockKept
    BY <1>0, ZenonT(60) DEF LockKept, Holder, JavaWaiting
  <1>1. ASSUME NEW t \in Threads, Step(t) PROVE LockMove
    <2>f. pc[t] \in {"fat", "woken", "restore"} => word.state = "fat"
      BY SMTT(60) DEF Inv, UsersKeepMonitor, Users
    <2>1. CASE \/ Unpark(t) \/ Contend(t) \/ EndWait(t) \/ SuspendThreadByThreadId(t)
               \/ OwnerSuspended(t) \/ OwnerNotSuspended(t)
      BY <1>t, <2>1, <1>0, Zenon DEF ThreadTypes, Unpark, Contend, EndWait,
         SuspendThreadByThreadId, OwnerSuspended, OwnerNotSuspended, history, LockMove
    <2>2. CASE Install(t)
      <3>1. /\ pc[t] = "install" /\ pc' = [pc EXCEPT ![t] = "loop"] /\ op' = op
            /\ entered' = entered
        BY <2>2, Zenon DEF Install, history
      <3>2. JavaWaiting' = JavaWaiting
        BY <1>t, <3>1, SMTT(60) DEF JavaWaiting, Calls, Enters
      <3>3. CASE word.state = "fat"
        BY <2>2, <3>1, <3>2, <3>3, ZenonT(60) DEF Install, LockKept, Holder, LockMove
      <3>4. CASE word.state # "fat"
        <4>1. word' = FatLocked /\ mon'.owner = inflate[t].owner
          BY <2>2, <3>4, SMTT(60) DEF Install, NewMonitor, MonitorWith
        <4>2. inflate[t].owner = word.owner
          BY <1>t, <3>1, <3>4, SMTT(60) DEF Inv, InstallChecks, WordShape
        <4> QED
          BY <3>1, <3>2, <3>4, <4>1, <4>2, ZenonT(60) DEF LockKept, Holder, FatLocked, LockMove
      <3> QED
        BY <3>3, <3>4, ZenonT(60)
    <2>3. CASE Lock(t) \/ LockAgain(t)
      <3>0. /\ word.state = "fat" /\ word' = word /\ \E w \in Int : TryLock(t, w)
            /\ pc[t] \in {"fat", "woken"}
        BY <1>t, <2>3, <2>f, SMTT(60) DEF Lock, LockAgain, MonitorShape, Inside
      <3>1. CASE mon.owner \notin {None, t}
        BY <1>t, <3>0, <3>1, <1>0, SMTT(60) DEF ThreadTypes, TryLock, Held, MonitorWith,
           LockMove, Goto, Return
      <3>2. CASE mon.owner \in {None, t} /\ op[t] = "Reacquire"
        <4>1. mon.owner = None
          BY <1>t, <3>0, <3>2, ZenonT(60) DEF EnteredAt
        <4>2. /\ mon'.owner = t /\ pc' = [pc EXCEPT ![t] = "restore"]
              /\ op' = [op EXCEPT ![t] = "Reacquire"] /\ entered' = entered
          BY <3>0, <3>2, SMTT(60) DEF TryLock, Held, MonitorWith, Goto
        <4>3. t \in JavaWaiting /\ JavaWaiting' = JavaWaiting \ {t}
          BY <1>t, <3>0, <3>2, <4>2, ZenonT(60) DEF ThreadTypes, JavaWaiting
        <4>4. EndedWait(t)
          BY <3>0, <4>1, <4>2, <4>3, ZenonT(60) DEF EndedWait, Holder
        <4> QED
          BY <4>4, ZenonT(60) DEF LockMove
      <3>3. CASE mon.owner \in {None, t} /\ op[t] # "Reacquire"
        <4>1. /\ mon'.owner = t /\ pc' = [pc EXCEPT ![t] = "managed"]
              /\ op' = [op EXCEPT ![t] = "none"] /\ entered' = [entered EXCEPT ![t] = @ + 1]
          BY <3>0, <3>3, SMTT(60) DEF TryLock, Held, MonitorWith, Goto, Return
        <4>2. t \notin JavaWaiting /\ JavaWaiting' = JavaWaiting
          BY <1>t, <3>0, <3>3, <4>1, SMTT(60) DEF JavaWaiting
        <4>3. Entered(t)
          BY <3>0, <3>3, <4>1, <4>2, ZenonT(60) DEF Entered, Holder
        <4> QED
          BY <4>3, ZenonT(60) DEF LockMove
      <3> QED
        BY <3>1, <3>2, <3>3, ZenonT(60)
    <2>4. CASE Unlock(t)
      <3>0. /\ word.state = "fat" /\ word' = word /\ op[t] = "MonitorExit"
            /\ op' = [op EXCEPT ![t] = "none"]
        BY <2>4, <2>f, ZenonT(60) DEF Unlock, Inside
      <3>1. \A u \in Threads : u # t => (pc'[u] = "restore" <=> pc[u] = "restore")
        BY <1>t, <2>4, UnlockMoves, ZenonT(60) DEF SameGroup
      <3>2. CASE mon.owner # t
        BY <1>t, <2>4, <3>0, <3>1, <3>2, <1>0, SMTT(60) DEF Unlock, LockMove
      <3>3. CASE mon.owner = t
        <4>1. /\ mon'.owner = IF mon.count = 0 THEN None ELSE t
              /\ entered' = [entered EXCEPT ![t] = @ - 1]
          BY <2>4, <3>3, SMTT(60) DEF Unlock, Held, MonitorWith
        <4>2. entered[t] = mon.count + 1 /\ mon.count \in Nat
          BY <1>t, <3>0, <3>3, ZenonT(60) DEF EnteredAt, Depth, Thin, MonitorShape
        <4>3. JavaWaiting' = JavaWaiting
          BY <1>t, <3>0, <3>1, SMTT(60) DEF JavaWaiting
        <4>4. Exited(t)
          BY <3>0, <3>3, <4>1, <4>2, <4>3, SMTT(60) DEF Exited, Holder
        <4> QED
          BY <4>4, ZenonT(60) DEF LockMove
      <3> QED
        BY <3>2, <3>3, ZenonT(60)
    <2>5. CASE Wait(t)
      <3>1. CASE mon.owner # t
        BY <1>t, <2>5, <3>1, <1>0, ZenonT(60) DEF ThreadTypes, Wait, history, LockMove, Return,
           Inside, Goto
      <3>2. CASE mon.owner = t
        <4>1. /\ pc[t] = "fat" /\ word' = word /\ op[t] = "Wait" /\ entered' = entered
              /\ op' = [op EXCEPT ![t] = "Reacquire"]
              /\ mon' = Held(None, 0, mon.waiters + 1)
          BY <2>5, <3>2, ZenonT(60) DEF Wait, history, Inside
        <4>2. /\ \A u \in Threads : u # t => (pc'[u] = "restore" <=> pc[u] = "restore")
              /\ pc'[t] # "restore"
          BY <1>t, <2>5, <3>2, WaitMoves, ZenonT(60) DEF SameGroup
        <4>3. JavaWaiting' = JavaWaiting \union {t}
          BY <1>t, <4>1, <4>2, ZenonT(60) DEF ThreadTypes, JavaWaiting
        <4>4. BeganWait(t)
          BY <2>f, <3>2, <4>1, <4>3, ZenonT(60) DEF BeganWait, Holder, Held, MonitorWith
        <4> QED
          BY <4>4, ZenonT(60) DEF LockMove
      <3> QED
        BY <3>1, <3>2, ZenonT(60)
    <2>6. CASE Restore(t)
      <3>1. /\ word' = word /\ pc[t] = "restore" /\ entered' = entered
            /\ op' = [op EXCEPT ![t] = "none"] /\ pc' = [pc EXCEPT ![t] = "managed"]
            /\ mon'.owner = t
        BY <2>6, ZenonT(60) DEF Restore, history, Held, MonitorWith, Return, Goto
      <3>2. mon.owner = t
        BY <1>t, <3>1, ZenonT(60) DEF OpLabels, EnteredAt
      <3> QED
        BY <1>t, <3>1, <3>2, ZenonT(60) DEF ThreadTypes, LockKept, Holder, JavaWaiting, LockMove
    <2>7. CASE Notify(t) \/ NotifyAll(t) \/ GetHashCode(t)
      <3>1. /\ Return(t) /\ mon'.owner = mon.owner /\ Inside(t, Calls)
            /\ word' = word /\ entered' = entered
        BY <2>7, SMTT(60) DEF Notify, NotifyAll, GetHashCode, MonitorWith, Calls, history,
           Inside
      <3> QED
        BY <1>t, <3>1, <1>0, ZenonT(60) DEF ThreadTypes, Calls, Enters, LockMove, Return,
           Inside, Goto
    <2> QED
      BY <1>1, <2>1, <2>2, <2>3, <2>4, <2>5, <2>6, <2>7, ZenonT(60) DEF Step
  <1>2. ASSUME NEW t \in Threads, Look(t) PROVE LockMove
    <2>0. ASSUME NEW o \in Calls \union {"none"}, NEW l \in Labels \ {"restore"},
                 pc[t] \in {"managed", "loop"}, Goto(t, l, o)
          PROVE  /\ t \notin JavaWaiting /\ JavaWaiting' = JavaWaiting
                 /\ word' = word /\ mon' = mon /\ entered' = entered => LockKept
      BY <1>t, <2>0, SMTT(60) DEF OpLabels, Calls, Enters, JavaWaiting, LockKept, Holder, Goto
    <2>1. ASSUME NEW o \in Calls, UseMonitor(t, o) \/ (o \in Enters /\ EnterInflates(t, o))
          PROVE  LockKept
      BY <2>1, <2>0, ZenonT(60) DEF UseMonitor, EnterInflates, InflateWith, Labels, history,
         At
    <2>2. CASE WaitInflates(t) \/ HashInflates(t) \/ TryEnterFails(t)
      BY <2>2, <2>0, ZenonT(60) DEF WaitInflates, HashInflates, InflateWith, TryEnterFails,
         Calls, Labels, history, LockMove, Return, At
    <2>3. ASSUME NEW o \in Enters, EnterThin(t, o) PROVE Entered(t)
      <3>1. /\ pc[t] \in {"managed", "loop"} /\ Goto(t, "managed", "none")
            /\ word.state = "unlocked" \/ Thin(t)
            /\ word'.state = "thin" /\ word'.owner = t
            /\ entered' = [entered EXCEPT ![t] = @ + 1]
        <4>1. /\ pc[t] \in {"managed", "loop"} /\ Goto(t, "managed", "none")
              /\ word.state = "unlocked" \/ Thin(t)
              /\ entered' = [entered EXCEPT ![t] = @ + 1]
              /\ word' = ThinLocked(t, 0) \/ word' = ThinLocked(t, word.count + 1)
          BY <2>3, ZenonT(60) DEF EnterThin, Return, At
        <4>2. word'.state = "thin" /\ word'.owner = t
          BY <4>1 DEF ThinLocked
        <4> QED
          BY <4>1, <4>2
      <3>2. t \notin JavaWaiting /\ JavaWaiting' = JavaWaiting
        BY <2>0, <3>1, ZenonT(60) DEF Labels
      <3> QED
        BY <1>t, <3>1, <3>2, ZenonT(60) DEF Entered, Holder, Thin, WordShape
    <2>4. CASE ExitThin(t)
      <3>1. /\ pc[t] = "managed" /\ Thin(t) /\ UNCHANGED <<pc, op>>
            /\ word' = IF word.count # 0 THEN ThinLocked(t, word.count - 1) ELSE Unlocked
            /\ entered' = [entered EXCEPT ![t] = @ - 1]
        BY <2>4, ZenonT(60) DEF ExitThin
      <3>2. entered[t] = word.count + 1 /\ word.count \in Nat
        BY <1>t, <3>1, ZenonT(60) DEF OpLabels, EnteredAt, Depth, WordShape
      <3>3. Exited(t)
        BY <3>1, <3>2, SMTT(60) DEF Exited, Holder, Thin, ThinLocked, Unlocked, JavaWaiting
      <3> QED
        BY <3>3, ZenonT(60) DEF LockMove
    <2>5. CASE HashFromWord(t)
      <3>1. /\ pc[t] \in {"managed", "loop"} /\ Goto(t, "managed", "none")
            /\ word.state \in {"hash", "unlocked"} /\ entered' = entered
            /\ word' = word \/ \E h \in Hashes : word' = HashCode(h)
        BY <2>5, ZenonT(60) DEF HashFromWord, Return, At
      <3>2. JavaWaiting' = JavaWaiting
        BY <2>0, <3>1, ZenonT(60) DEF Labels
      <3> QED
        BY <1>t, <3>1, <3>2, SMTT(60) DEF LockKept, Holder, WordShape, HashCode, LockMove
    <2> QED
      BY <1>2, <2>1, <2>2, <2>3, <2>4, <2>5, ZenonT(60) DEF Look, Calls, LockMove
  <1>3. ASSUME NEW t \in Threads, Park(t) \/ WakeUp(t) PROVE LockKept
    BY <1>t, <1>3, <1>0, ZenonT(60) DEF ThreadTypes, Park, WakeUp, history
  <1>4. CASE SuspendAll
    BY <1>4, <1>0, ZenonT(60) DEF SuspendAll, history, LockMove
  <1>5. CASE DeflateMonitors
    <2>1. UNCHANGED <<pc, op, entered>>
      BY <1>5, ZenonT(60) DEF DeflateMonitors, history
    <2>2. \/ UNCHANGED <<word, mon>>
          \/ /\ word.state = "fat"
             /\ \/ mon.owner # None /\ word' = ThinLocked(mon.owner, mon.count)
                \/ mon.owner = None /\ word' = HashCode(mon.hash)
                \/ mon.owner = None /\ word' = Unlocked
      BY <1>5, ZenonT(60) DEF DeflateMonitors
    <2>3. Holder' = Holder
      BY <2>2 DEF Holder, ThinLocked, HashCode, Unlocked
    <2> QED
      BY <2>1, <2>3, ZenonT(60) DEF LockKept, JavaWaiting, LockMove
  <1> QED
    BY <1>1, <1>2, <1>3, <1>4, <1>5, ZenonT(60) DEF Next, LockMove

\* A step of Monitor is a step of JavaMonitor or changes nothing that it sees.
LEMMA JavaStep ==
  ASSUME Inv, Inv', Next
  PROVE  [Java!Next]_<<Holder, JavaDepth, entered, JavaWaiting>>
  <1>1. /\ Holder \in Threads \union {None} /\ Holder' \in Threads \union {None}
        /\ JavaDepth = IF Holder = None THEN 0 ELSE entered[Holder]
        /\ JavaDepth' = IF Holder' = None THEN 0 ELSE entered'[Holder']
    <2>1. DepthExact /\ DepthExact'
      BY DepthIsEntered, PTL
    <2> QED
      BY <2>1, ZenonT(60) DEF DepthExact
  <1>2. entered \in [Threads -> Int]
    BY ZenonT(60) DEF Inv, ThreadTypes
  <1>3. CASE LockKept
    BY <1>1, <1>3, ZenonT(60) DEF LockKept
  <1>4. ASSUME NEW t \in Threads, Entered(t) PROVE Java!Enter(t)
    <2>1. Holder = None => entered[t] = 0
      BY <1>4, MonitorAssumption, SMTT(60) DEF Inv, EnteredExact, EnteredAt, Depth,
         Thin, Holder, Entered, JavaWaiting, OpLabels, UsersKeepMonitor, Users
    <2> QED
      BY <1>1, <1>2, <1>4, <2>1, MonitorAssumption, ZenonT(60) DEF Entered, Java!Enter,
         JavaDepth, JavaWaiting
  <1>5. ASSUME NEW t \in Threads, Exited(t) PROVE Java!Exit(t)
    BY <1>1, <1>2, <1>5, MonitorAssumption, SMTT(60) DEF Exited, Java!Exit, JavaDepth,
       JavaWaiting
  <1>6. ASSUME NEW t \in Threads, BeganWait(t) PROVE Java!BeginWait(t)
    BY <1>1, <1>6, ZenonT(60) DEF BeganWait, Java!BeginWait, JavaDepth, JavaWaiting
  <1>7. ASSUME NEW t \in Threads, EndedWait(t) PROVE Java!EndWait(t)
    BY <1>1, <1>7, MonitorAssumption, ZenonT(60) DEF EndedWait, Java!EndWait, JavaDepth,
       JavaWaiting
  <1> QED
    BY <1>3, <1>4, <1>5, <1>6, <1>7, LockEffect, ZenonT(60) DEF LockMove, Java!Next

-----------------------------------------------------------------------------
(* Wakeups                                                                 *)

\* wait_set_ and wake_set_ are lists of threads.
SetsInv == waitSet \in Seq(Threads) /\ wakeSet \in Seq(Threads)

\* RemoveFromWaitSet leaves a list of threads.
LEMMA RemoveType ==
  ASSUME NEW s \in Seq(Threads), NEW t
  PROVE  RemoveFromWaitSet(s, t) \in Seq(Threads)
  <1> DEFINE i == CHOOSE i \in DOMAIN s : s[i] = t
  <1>1. CASE t \notin Range(s)
    BY <1>1, ZenonT(60) DEF RemoveFromWaitSet
  <1>2. CASE t \in Range(s)
    <2>1. i \in DOMAIN s
      BY <1>2, ZenonT(60) DEF Range
    <2>2. RemoveFromWaitSet(s, t) = SubSeq(s, 1, i - 1) \o SubSeq(s, i + 1, Len(s))
      BY <1>2, ZenonT(60) DEF RemoveFromWaitSet
    <2> HIDE DEF i
    <2>3. SubSeq(s, 1, i - 1) \in Seq(Threads) /\ SubSeq(s, i + 1, Len(s)) \in Seq(Threads)
      BY <2>1
    <2> QED
      BY <2>2, <2>3
  <1> QED
    BY <1>1, <1>2

\* SignalContendersAndReleaseMonitorLock leaves the rest of wake_set_.
LEMMA SignalType ==
  ASSUME SetsInv, NEW labels, SignalContenders(labels)
  PROVE  wakeSet' \in Seq(Threads)
  <1> DEFINE live == {i \in DOMAIN wakeSet : WaitMonitorSet(labels[wakeSet[i]])}
  <1>1. CASE live # {}
    <2>1. PICK i \in DOMAIN wakeSet : wakeSet' = SubSeq(wakeSet, i + 1, Len(wakeSet))
      BY <1>1, ZenonT(60) DEF SignalContenders
    <2> QED
      BY <2>1 DEF SetsInv
  <1>2. CASE live = {}
    <2>1. wakeSet' = <<>>
      BY <1>2, ZenonT(60) DEF SignalContenders
    <2> QED
      BY <2>1
  <1> QED
    BY <1>1, <1>2

\* Every step keeps the two lists lists of threads.
LEMMA SetsStep ==
  ASSUME SetsInv, [Next]_vars
  PROVE  SetsInv'
  <1>0. ASSUME waitSet' = waitSet, wakeSet' = wakeSet PROVE SetsInv'
    BY <1>0, ZenonT(60) DEF SetsInv
  <1>1. ASSUME NEW t \in Threads, Step(t) PROVE SetsInv'
    <2>1. CASE Unlock(t)
      <3>1. waitSet' = waitSet /\ (wakeSet' = wakeSet \/ \E labels : SignalContenders(labels))
        BY <2>1, ZenonT(60) DEF Unlock
      <3> QED
        BY <3>1, <1>0, SignalType, ZenonT(60) DEF SetsInv
    <2>2. CASE Wait(t)
      <3>1. \/ waitSet' = waitSet /\ wakeSet' = wakeSet
            \/ waitSet' = Append(waitSet, t) /\ \E labels : SignalContenders(labels)
        BY <2>2, ZenonT(60) DEF Wait
      <3>2. Append(waitSet, t) \in Seq(Threads)
        BY DEF SetsInv
      <3> QED
        BY <3>1, <3>2, <1>0, SignalType, ZenonT(60) DEF SetsInv
    <2>3. CASE Restore(t)
      BY <2>3, RemoveType, ZenonT(60) DEF Restore, SetsInv
    <2>4. CASE Notify(t)
      <3>1. CASE mon.owner = t /\ waitSet # <<>>
        <4>1. waitSet' = Tail(waitSet) /\ wakeSet' = <<Head(waitSet)>> \o wakeSet
          BY <2>4, <3>1, ZenonT(60) DEF Notify
        <4> QED
          BY <3>1, <4>1 DEF SetsInv
      <3>2. CASE ~(mon.owner = t /\ waitSet # <<>>)
        BY <2>4, <3>2, <1>0, ZenonT(60) DEF Notify
      <3> QED
        BY <3>1, <3>2
    <2>5. CASE NotifyAll(t)
      <3>1. \/ waitSet' = waitSet /\ wakeSet' = wakeSet
            \/ waitSet' = <<>> /\ wakeSet' = wakeSet \o waitSet
        BY <2>5, ZenonT(60) DEF NotifyAll
      <3>2. <<>> \in Seq(Threads) /\ wakeSet \o waitSet \in Seq(Threads)
        BY DEF SetsInv
      <3> QED
        BY <3>1, <3>2, ZenonT(60) DEF SetsInv
    <2>6. CASE ~(Unlock(t) \/ Wait(t) \/ Restore(t) \/ Notify(t) \/ NotifyAll(t))
      BY <1>0, <1>1, <2>6, ZenonT(60) DEF Step, Unpark, SuspendThreadByThreadId, OwnerSuspended,
         OwnerNotSuspended,
         Install, Lock, Contend, LockAgain, EndWait, GetHashCode
    <2> QED
      BY <2>1, <2>2, <2>3, <2>4, <2>5, <2>6
  <1>2. ASSUME NEW t \in Threads, Look(t) PROVE SetsInv'
    BY <1>0, <1>2, ZenonT(60) DEF Look, UseMonitor, EnterThin, EnterInflates, InflateWith,
       TryEnterFails, ExitThin, WaitInflates, HashFromWord, HashInflates
  <1>3. ASSUME NEW t \in Threads, Park(t) \/ WakeUp(t) PROVE SetsInv'
    BY <1>0, <1>3, ZenonT(60) DEF Park, WakeUp
  <1>4. CASE SuspendAll \/ DeflateMonitors \/ UNCHANGED vars
    BY <1>0, <1>4, ZenonT(60) DEF SuspendAll, DeflateMonitors, vars
  <1> QED
    BY <1>1, <1>2, <1>3, <1>4, ZenonT(60) DEF Next

\* What NoLostWakeup promises when nobody is on the way to the monitor.
Settled ==
  /\ \A t \in Threads : pc[t] # "contending"
  /\ \A t \in Range(wakeSet) : pc[t] # "waiting"

\* The signal that goes with a release of the monitor reaches a thread that is
\* then on its way, or finds nobody to signal.
LEMMA SignalSettles ==
  ASSUME SetsInv, NEW labels \in [Threads -> Labels], SignalContenders(labels), OnTheirWay' = {}
  PROVE  Settled'
  <1> DEFINE live == {i \in DOMAIN wakeSet : WaitMonitorSet(labels[wakeSet[i]])}
             sleepers == {t \in Threads : labels[t] = "contending"}
  <1>0. \A t \in Threads : pc'[t] \notin {"awake", "woken"}
    BY ZenonT(60) DEF OnTheirWay
  <1>1. CASE live # {}
    <2>1. PICK i \in DOMAIN wakeSet : pc' = [labels EXCEPT ![wakeSet[i]] = "awake"]
      BY <1>1, ZenonT(60) DEF SignalContenders
    <2>2. wakeSet[i] \in Threads
      BY DEF SetsInv
    <2>3. pc'[wakeSet[i]] = "awake"
      BY <2>1, <2>2, ZenonT(60)
    <2> QED
      BY <1>0, <2>2, <2>3, ZenonT(60)
  <1>2. CASE live = {} /\ sleepers # {}
    <2>1. PICK t \in Threads : pc' = [labels EXCEPT ![t] = "woken"]
      BY <1>2, ZenonT(60) DEF SignalContenders
    <2>2. pc'[t] = "woken"
      BY <2>1, ZenonT(60)
    <2> QED
      BY <1>0, <2>2, ZenonT(60)
  <1>3. CASE live = {} /\ sleepers = {}
    <2>1. wakeSet' = <<>> /\ pc' = labels
      BY <1>3, ZenonT(60) DEF SignalContenders
    <2>2. Range(wakeSet') = {}
      BY <2>1 DEF Range
    <2> QED
      BY <1>3, <2>1, <2>2, ZenonT(60) DEF Settled
  <1> QED
    BY <1>1, <1>2, <1>3

\* No step loses a wakeup: whoever frees the monitor signals, and a thread goes to
\* sleep only when it has seen an owner that is still to release it.
LEMMA WakeupStep ==
  ASSUME Inv, SetsInv, NoLostWakeup, Next
  PROVE  NoLostWakeup'
  <1> SUFFICES ASSUME mon'.owner = None, word'.state = "fat", OnTheirWay' = {}
               PROVE  Settled'
    BY ZenonT(60) DEF NoLostWakeup, Settled
  <1>t. ThreadTypes /\ MonitorShape /\ OpLabels
    BY ZenonT(60) DEF Inv
  <1>w. \A t \in Threads : ~(\/ pc'[t] \in {"blocked", "woken", "awake"}
                             \/ pc'[t] = "fat" /\ op'[t] \in Enters \union {"Reacquire"})
    BY ZenonT(60) DEF OnTheirWay
  <1>q. ASSUME NEW t \in Threads, mon.owner = None, word.state = "fat", wakeSet' = wakeSet,
               \A u \in Threads \ {t} : pc'[u] = pc[u] /\ op'[u] = op[u],
               \/ pc'[t] = pc[t] /\ op'[t] = op[t]
               \/ /\ t \notin OnTheirWay
                  /\ pc'[t] \notin {"contending", "waiting"}
        PROVE  Settled'
    <2>1. OnTheirWay = {}
      BY <1>q, <1>w, ZenonT(60) DEF OnTheirWay
    <2>2. \A u \in Threads : pc[u] # "contending"
      BY <1>q, <2>1, ZenonT(60) DEF NoLostWakeup
    <2>3. \A u \in Range(wakeSet) : pc[u] # "waiting"
      BY <1>q, <2>1, ZenonT(60) DEF NoLostWakeup
    <2>4. Range(wakeSet) \subseteq Threads
      BY DEF SetsInv, Range
    <2> QED
      BY <1>q, <2>2, <2>3, <2>4, ZenonT(60) DEF Settled
  <1>1. ASSUME NEW t \in Threads, Step(t) PROVE Settled'
    <2>1. CASE \/ Unpark(t) \/ SuspendThreadByThreadId(t) \/ OwnerSuspended(t)
               \/ OwnerNotSuspended(t)
      <3>1. /\ mon' = mon /\ word' = word /\ wakeSet' = wakeSet /\ op' = op
            /\ pc[t] \in {"parked", "suspendOwner", "awaitOwner"}
            /\ \E l \in {"managed", "awaitOwner", "install", "loop"} : pc' = [pc EXCEPT ![t] = l]
        BY <2>1, ZenonT(60) DEF Unpark, SuspendThreadByThreadId, OwnerSuspended,
           OwnerNotSuspended
      <3> QED
        BY <1>t, <1>q, <3>1, ZenonT(60) DEF ThreadTypes, OnTheirWay
    <2>2. CASE Install(t)
      <3>1. /\ wakeSet' = wakeSet /\ op' = op /\ pc[t] = "install"
            /\ pc' = [pc EXCEPT ![t] = "loop"]
        BY <2>2, ZenonT(60) DEF Install
      <3>2. CASE word.state = "fat"
        <4>1. mon' = mon
          BY <2>2, <3>2, ZenonT(60) DEF Install
        <4> QED
          BY <1>t, <1>q, <3>1, <3>2, <4>1, ZenonT(60) DEF ThreadTypes, OnTheirWay
      <3>3. CASE word.state # "fat"
        <4>1. \A u \in Threads : pc[u] \notin {"contending", "waiting"}
          BY <3>3, ZenonT(60) DEF Inv, UsersKeepMonitor, Users
        <4>2. \A u \in Threads : pc'[u] \notin {"contending", "waiting"}
          BY <1>t, <3>1, <4>1, ZenonT(60) DEF ThreadTypes
        <4>3. Range(wakeSet) \subseteq Threads
          BY DEF SetsInv, Range
        <4> QED
          BY <3>1, <4>2, <4>3, ZenonT(60) DEF Settled
      <3> QED
        BY <3>2, <3>3
    <2>3. CASE Lock(t) \/ LockAgain(t)
      <3>1. \E w : TryLock(t, w)
        BY <2>3, ZenonT(60) DEF Lock, LockAgain
      <3>2. mon'.owner = t \/ (mon.owner # None /\ mon'.owner = mon.owner)
        <4>1. \/ \E c, w : mon' = Held(t, c, w)
              \/ mon.owner # None /\ (mon' = mon \/ \E w : mon' = Held(mon.owner, mon.count, w))
          BY <3>1, ZenonT(60) DEF TryLock
        <4> QED
          BY <4>1 DEF Held, MonitorWith
      <3> QED
        BY <3>2, MonitorAssumption, ZenonT(60)
    <2>4. CASE Contend(t)
      <3>1. mon' = mon /\ pc' = [pc EXCEPT ![t] = "woken"]
        BY <2>4, ZenonT(60) DEF Contend
      <3> QED
        BY <1>t, <1>w, <3>1, ZenonT(60) DEF ThreadTypes
    <2>5. CASE Unlock(t)
      <3> DEFINE labels == [pc EXCEPT ![t] = "managed"]
      <3>1. labels \in [Threads -> Labels]
        BY <1>t, ZenonT(60) DEF ThreadTypes, Labels
      <3>2. CASE mon.owner = t /\ mon.count = 0
        <4>1. SignalContenders(labels)
          BY <2>5, <3>2, ZenonT(60) DEF Unlock
        <4> HIDE DEF labels
        <4> QED
          BY <3>1, <4>1, SignalSettles, ZenonT(60)
      <3>3. CASE mon.owner = t /\ mon.count # 0
        <4>1. mon' = Held(t, mon.count - 1, mon.waiters)
          BY <2>5, <3>3, ZenonT(60) DEF Unlock
        <4>2. mon'.owner = t
          BY <4>1 DEF Held, MonitorWith
        <4> QED
          BY <4>2, MonitorAssumption, ZenonT(60)
      <3>4. CASE mon.owner # t
        <4>1. /\ mon' = mon /\ word' = word /\ wakeSet' = wakeSet /\ pc' = labels
              /\ op' = [op EXCEPT ![t] = "none"] /\ pc[t] = "fat" /\ op[t] = "MonitorExit"
          BY <2>5, <3>4, ZenonT(60) DEF Unlock, Inside
        <4> QED
          BY <1>t, <1>q, <4>1, ZenonT(60) DEF ThreadTypes, OnTheirWay, Enters
      <3> QED
        BY <3>2, <3>3, <3>4
    <2>6. CASE Wait(t)
      <3> DEFINE labels == [pc EXCEPT ![t] = "waiting"]
      <3>1. labels \in [Threads -> Labels]
        BY <1>t, ZenonT(60) DEF ThreadTypes, Labels
      <3>2. CASE mon.owner = t
        <4>1. SignalContenders(labels)
          BY <2>6, <3>2, ZenonT(60) DEF Wait
        <4> HIDE DEF labels
        <4> QED
          BY <3>1, <4>1, SignalSettles, ZenonT(60)
      <3>3. CASE mon.owner # t
        <4>1. /\ mon' = mon /\ word' = word /\ wakeSet' = wakeSet /\ Return(t)
              /\ pc[t] = "fat" /\ op[t] = "Wait"
          BY <2>6, <3>3, ZenonT(60) DEF Wait, Inside
        <4> QED
          BY <1>t, <1>q, <4>1, ZenonT(60) DEF ThreadTypes, OnTheirWay, Enters, Return, Goto
      <3> QED
        BY <3>2, <3>3
    <2>7. CASE EndWait(t)
      <3>1. pc'[t] = "fat" /\ op'[t] = "Reacquire"
        BY <1>t, <2>7, ZenonT(60) DEF EndWait, ThreadTypes, OpLabels
      <3> QED
        BY <1>w, <3>1, ZenonT(60)
    <2>8. CASE Restore(t)
      <3>1. mon' = Held(t, prev[t], mon.waiters - 1)
        BY <2>8, ZenonT(60) DEF Restore
      <3>2. mon'.owner = t
        BY <3>1 DEF Held, MonitorWith
      <3> QED
        BY <3>2, MonitorAssumption, ZenonT(60)
    <2>9. CASE Notify(t) \/ NotifyAll(t) \/ GetHashCode(t)
      <3>1. /\ Return(t) /\ word' = word
            /\ mon' = mon \/ \E h : mon' = MonitorWith(mon.owner, mon.count, mon.waiters, h)
            /\ wakeSet' = wakeSet \/ mon.owner = t
            /\ pc[t] = "fat" /\ op[t] \in {"Notify", "NotifyAll", "IdentityHashCode"}
        BY <2>9, ZenonT(60) DEF Notify, NotifyAll, GetHashCode, Inside
      <3>2. mon'.owner = mon.owner
        BY <3>1 DEF MonitorWith
      <3>3. wakeSet' = wakeSet
        BY <3>1, <3>2, MonitorAssumption, ZenonT(60)
      <3> QED
        BY <1>t, <1>q, <3>1, <3>2, <3>3, ZenonT(60) DEF ThreadTypes, OnTheirWay, Enters, Return,
           Goto
    <2> QED
      BY <1>1, <2>1, <2>2, <2>3, <2>4, <2>5, <2>6, <2>7, <2>8, <2>9, ZenonT(60) DEF Step
  <1>2. ASSUME NEW t \in Threads, Look(t) PROVE Settled'
    <2>1. ASSUME word' = word, mon' = mon, wakeSet' = wakeSet, pc[t] \in {"managed", "loop"},
                 NEW l \in Labels \ {"contending", "waiting"}, NEW o, Goto(t, l, o)
          PROVE  Settled'
      BY <1>t, <1>q, <2>1, ZenonT(60) DEF ThreadTypes, OnTheirWay, Goto
    <2>2. ASSUME NEW o \in Calls, UseMonitor(t, o) \/ (o \in Enters /\ EnterInflates(t, o))
          PROVE  Settled'
      BY <2>1, <2>2, ZenonT(60) DEF UseMonitor, EnterInflates, InflateWith, At, Labels
    <2>3. CASE WaitInflates(t) \/ HashInflates(t) \/ TryEnterFails(t)
      BY <2>1, <2>3, ZenonT(60) DEF WaitInflates, HashInflates, InflateWith, TryEnterFails,
         Return,
         At, Labels
    <2>4. ASSUME NEW o \in Enters, EnterThin(t, o) PROVE word'.state # "fat"
      BY <2>4 DEF EnterThin, ThinLocked
    <2>5. CASE ExitThin(t)
      BY <2>5 DEF ExitThin, ThinLocked, Unlocked
    <2>6. CASE HashFromWord(t)
      BY <2>6 DEF HashFromWord, HashCode
    <2> QED
      BY <1>2, <2>2, <2>3, <2>4, <2>5, <2>6, ZenonT(60) DEF Look, Calls
  <1>3. ASSUME NEW t \in Threads, Park(t) PROVE Settled'
    BY <1>t, <1>q, <1>3, ZenonT(60) DEF Park, ThreadTypes, OnTheirWay
  <1>4. ASSUME NEW t \in Threads, WakeUp(t) PROVE Settled'
    <2>1. pc'[t] \in {"awake", "woken"}
      BY <1>t, <1>4, ZenonT(60) DEF WakeUp, ThreadTypes
    <2> QED
      BY <1>w, <2>1, ZenonT(60)
  <1>5. CASE SuspendAll
    <2>1. UNCHANGED <<mon, word, wakeSet, pc, op>>
      BY <1>5, ZenonT(60) DEF SuspendAll
    <2> QED
      BY <2>1, ZenonT(60) DEF NoLostWakeup, Settled, OnTheirWay
  <1>6. CASE DeflateMonitors
    <2>1. UNCHANGED <<wakeSet, pc, op>>
      BY <1>6, ZenonT(60) DEF DeflateMonitors
    <2>2. word' = word /\ mon' = mon
      BY <1>6 DEF DeflateMonitors, ThinLocked, HashCode, Unlocked
    <2> QED
      BY <2>1, <2>2, ZenonT(60) DEF NoLostWakeup, Settled, OnTheirWay
  <1> QED
    BY <1>1, <1>2, <1>3, <1>4, <1>5, <1>6, ZenonT(60) DEF Next

-----------------------------------------------------------------------------
(* The theorems                                                            *)

Sets == INSTANCE FiniteSetTheorems

\* What is assumed above: sets of threads are finite, and counted one by one.
LEMMA ThreadsAreCounted == Counting
  <1>1. \A S : Sets!Cardinality(S) = Cardinality(S)
    BY ZenonT(60) DEF Sets!Cardinality, Cardinality
  <1>2. \A S : Sets!IsFiniteSet(S) <=> IsFiniteSet(S)
    BY ZenonT(60) DEF Sets!IsFiniteSet, IsFiniteSet
  <1> SUFFICES ASSUME NEW S \in SUBSET Threads
               PROVE  /\ Cardinality(S) \in Nat
                      /\ S = {} <=> Cardinality(S) = 0
                      /\ \A t \in Threads \ S : Cardinality(S \union {t}) = Cardinality(S) + 1
                      /\ \A t \in S : Cardinality(S \ {t}) = Cardinality(S) - 1
    BY Zenon DEF Counting
  <1>3. Sets!IsFiniteSet(S)
    BY <1>2, MonitorAssumption, Sets!FS_Subset, ZenonT(60)
  <1> QED
    BY <1>1, <1>3, Sets!FS_CardinalityType, Sets!FS_EmptySet, Sets!FS_AddElement,
       Sets!FS_RemoveElement, ZenonT(60)

\* The invariant holds: the counts that the code keeps of waiters and of suspend
\* requests are exact, and so are the enters and the hash code.
THEOREM Invariance == Spec => []Inv
  <1>1. Init => Inv
    BY InitInv, ThreadsAreCounted, ZenonT(60)
  <1>2. Inv /\ [Next]_vars => Inv'
    BY StepInv, ThreadsAreCounted, ZenonT(60)
  <1> QED
    BY <1>1, <1>2, PTL DEF Spec

\* Whoever uses the Monitor has it: DeflateMonitors frees no Monitor a thread is
\* inside of, sleeps in or has read the pointer of.
THEOREM UsersKeepTheirMonitor == Spec => []UsersKeepMonitor
  <1>1. Inv => UsersKeepMonitor
    BY ZenonT(60) DEF Inv
  <1> QED
    BY <1>1, Invariance, PTL

\* What Monitor::Install and the Monitor's constructor CHECK is so.
THEOREM InstallChecksHold == Spec => []InstallChecks
  <1>1. Inv => InstallChecks
    BY ZenonT(60) DEF Inv
  <1> QED
    BY <1>1, Invariance, PTL

\* Object::IdentityHashCode returns one value for the life of the object.
THEOREM IdentityHashNeverChanges == Spec => []IdentityHashIsStable
  <1>1. Inv => IdentityHashIsStable
    <2> SUFFICES ASSUME Inv PROVE Cardinality(returned) <= 1
      BY ZenonT(60) DEF IdentityHashIsStable
    <2>0. \A S : Sets!Cardinality(S) = Cardinality(S)
      BY ZenonT(60) DEF Sets!Cardinality, Cardinality
    <2>1. CASE returned = {}
      BY <2>0, <2>1, Sets!FS_EmptySet
    <2>2. CASE returned # {}
      <3>1. PICK h \in returned : TRUE
        BY <2>2, ZenonT(60)
      <3>2. returned = {h}
        BY <3>1, ZenonT(60) DEF Inv, HashKept
      <3> QED
        <4>1. Cardinality({h}) = 1
          BY <2>0, Sets!FS_Singleton, ZenonT(60)
        <4> QED
          BY <3>2, <4>1
    <2> QED
      BY <2>1, <2>2, ZenonT(60)
  <1> QED
    BY <1>1, Invariance, PTL

\* No wakeup is lost, for any number of threads: when nobody owns the monitor and
\* a contender or a notified thread sleeps, another is on its way to take it.
THEOREM NoWakeupIsLost == Spec => []NoLostWakeup
  <1>1. Init => SetsInv /\ NoLostWakeup
    <2> SUFFICES ASSUME Init PROVE SetsInv /\ NoLostWakeup
      OBVIOUS
    <2>1. SetsInv
      BY DEF Init, SetsInv
    <2>2. NoLostWakeup
      BY DEF Init, Unlocked, NoLostWakeup
    <2> QED
      BY <2>1, <2>2
  <1>2. Inv /\ SetsInv /\ NoLostWakeup /\ [Next]_vars => SetsInv' /\ NoLostWakeup'
    <2> SUFFICES ASSUME Inv, SetsInv, NoLostWakeup, [Next]_vars PROVE SetsInv' /\ NoLostWakeup'
      OBVIOUS
    <2>1. SetsInv'
      BY SetsStep, ZenonT(60)
    <2>2. CASE Next
      BY <2>1, <2>2, WakeupStep, ZenonT(60)
    <2>3. CASE UNCHANGED vars
      BY <2>1, <2>3, ZenonT(60) DEF vars, NoLostWakeup, OnTheirWay
    <2> QED
      BY <2>2, <2>3
  <1> QED
    BY <1>1, <1>2, Invariance, PTL DEF Spec

\* Monitor implements JavaMonitor: what a Java program sees of MonitorEnter,
\* MonitorExit and Wait is a recursive lock, through inflation and deflation.
THEOREM MonitorImplementsJavaMonitor == Spec => ImplementsJavaMonitor
  <1>1. Init => Java!Init
    BY MonitorAssumption DEF Init, Java!Init, Holder, Unlocked
  <1>2. ASSUME Inv, Inv', Next PROVE [Java!Next]_<<Holder, JavaDepth, entered, JavaWaiting>>
    BY <1>2, JavaStep, ZenonT(60)
  <1>3. ASSUME UNCHANGED vars PROVE UNCHANGED <<Holder, JavaDepth, entered, JavaWaiting>>
    BY <1>3, Zenon DEF vars, history, Holder, JavaDepth, Depth, Thin, JavaWaiting
  <1>4. Inv /\ Inv' /\ [Next]_vars => [Java!Next]_<<Holder, JavaDepth, entered, JavaWaiting>>
    BY <1>2, <1>3, ZenonT(60)
  <1> QED
    BY <1>1, <1>4, Invariance, PTL DEF Spec, ImplementsJavaMonitor, Java!Spec, JavaDepth,
       JavaWaiting
=============================================================================
