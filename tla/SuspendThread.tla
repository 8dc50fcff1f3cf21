---------------------------- MODULE SuspendThread ----------------------------
(***************************************************************************)
(* ThreadList::SuspendThreadByThreadId and Resume                          *)
(* (runtime/thread_list.cc).  Each round of the loop makes the caller      *)
(* runnable, so that it suspends itself rather than wait for a thread that *)
(* is waiting for it.                                                      *)
(***************************************************************************)
EXTENDS ThreadSuspension

CallSuspendThread(c) ==
  /\ "SuspendThreadByThreadId" \in Ops
  /\ pc[c] = "native" /\ opsLeft > 0
  /\ op' = [op EXCEPT ![c] = "SuspendThreadByThreadId"]
  /\ \E t \in Threads \ {c} : cur' = [cur EXCEPT ![c] = t]
  /\ opsLeft' = opsLeft - 1
  /\ Goto(c, "toRunnable")
  /\ UNCHANGED <<threadVars, listVars, lockVars, flipVars, todo, raised, due, cont>>

\* The thread is not in the list: return nullptr.
NoSuchThread(c) ==
  /\ pc[c] = "stLock"
  /\ listLock = NoThread
  /\ cur[c] \notin list
  /\ op' = [op EXCEPT ![c] = "none"]
  /\ cur' = [cur EXCEPT ![c] = NoThread]
  /\ cont' = [cont EXCEPT ![c] = "native"]
  /\ Goto(c, "toSuspended")
  /\ UNCHANGED <<threadVars, listVars, lockVars, flipVars, todo, raised, due, opsLeft>>

\* Another thread is trying to suspend the caller, which has not raised the
\* count of its target yet: start the loop again and let itself be suspended.
BackOff(c) ==
  /\ pc[c] = "stLock"
  /\ LocksFree
  /\ cur[c] \in list /\ raised[c] = {} /\ suspendCount[c] > 0
  /\ cont' = [cont EXCEPT ![c] = "toRunnable"]
  /\ Goto(c, "toSuspended")
  /\ UNCHANGED <<threadVars, listVars, lockVars, flipVars, opVars>>

\* Mutant: no look at the caller's own suspend count.
RequestSuspendAnyway(c) ==
  /\ \/ pc[c] = "stLock" /\ LocksFree
     \/ pc[c] = "stRetry" /\ countLock = NoThread
  /\ cur[c] \in list /\ raised[c] = {}
  /\ CanRaise(c, cur[c], FALSE)
  /\ Raise(c, cur[c], FALSE)
  /\ listLock' = c /\ countLock' = c
  /\ Goto(c, "stCheck")
  /\ UNCHANGED <<state, passing, checkpoints, flip, resumeWaiters, listVars, mutatorOwner,
                 mutatorReaders, flipVars, op, cur, todo, due, opsLeft, cont>>

\* Mutant: a request that was refused is not made again.
RequestSuspendOnce(c) ==
  /\ pc[c] = "stLock" /\ LocksFree
  /\ cur[c] \in list /\ raised[c] = {} /\ suspendCount[c] = 0
  /\ CanRaise(c, cur[c], FALSE)
  /\ Raise(c, cur[c], FALSE)
  /\ listLock' = c /\ countLock' = c
  /\ Goto(c, "stCheck")
  /\ UNCHANGED <<state, passing, checkpoints, flip, resumeWaiters, listVars, mutatorOwner,
                 mutatorReaders, flipVars, op, cur, todo, due, opsLeft, cont>>

\* Raise the target's count once, holding both locks.
RequestSuspend(c) ==
  /\ \/ pc[c] = "stLock" /\ LocksFree
     \/ pc[c] = "stRetry" /\ countLock = NoThread
  /\ cur[c] \in list /\ raised[c] = {}
  /\ pc[c] = "stLock" => suspendCount[c] = 0
  /\ CanRaise(c, cur[c], FALSE)
  /\ Raise(c, cur[c], FALSE)
  /\ listLock' = c /\ countLock' = c
  /\ Goto(c, "stCheck")
  /\ UNCHANGED <<state, passing, checkpoints, flip, resumeWaiters, listVars, mutatorOwner,
                 mutatorReaders, flipVars, op, cur, todo, due, opsLeft, cont>>

\* In the middle of a thread flip ModifySuspendCount retries, holding the
\* thread list lock.
RequestSuspendRetry(c) ==
  /\ pc[c] = "stLock"
  /\ LocksFree
  /\ cur[c] \in list /\ raised[c] = {} /\ suspendCount[c] = 0
  /\ ~CanRaise(c, cur[c], FALSE)
  /\ listLock' = c
  /\ Goto(c, "stRetry")
  /\ UNCHANGED <<threadVars, listVars, countLock, mutatorOwner, mutatorReaders, flipVars, opVars,
                 cont>>

\* A later round of the loop: suspended_thread is set.
SuspendThreadAgain(c) ==
  /\ pc[c] = "stLock"
  /\ LocksFree
  /\ cur[c] \in list /\ raised[c] # {}
  /\ listLock' = c /\ countLock' = c
  /\ Goto(c, "stCheck")
  /\ UNCHANGED <<threadVars, listVars, mutatorOwner, mutatorReaders, flipVars, opVars, cont>>

\* With both locks held: return the thread if it is suspended, otherwise leave
\* the runnable state, sleep and go round again.
CheckSuspended(c) ==
  /\ pc[c] = "stCheck"
  /\ listLock' = NoThread /\ countLock' = NoThread
  /\ cont' = [cont EXCEPT ![c] = IF IsSuspended(cur[c]) THEN "stHave" ELSE "toRunnable"]
  /\ Goto(c, "toSuspended")
  /\ UNCHANGED <<threadVars, listVars, mutatorOwner, mutatorReaders, flipVars, opVars>>

\* Not suspended in time: give up, lowering the count without a broadcast.
SuspendTimeout(c) ==
  /\ pc[c] = "stCheck"
  /\ ~IsSuspended(cur[c])
  /\ Lower(c, {cur[c]})
  /\ listLock' = NoThread /\ countLock' = NoThread
  /\ op' = [op EXCEPT ![c] = "none"]
  /\ cur' = [cur EXCEPT ![c] = NoThread]
  /\ cont' = [cont EXCEPT ![c] = "native"]
  /\ Goto(c, "toSuspended")
  /\ UNCHANGED <<state, barriers, passing, checkpoints, flip, resumeWaiters, listVars,
                 mutatorOwner, mutatorReaders, flipVars, todo, due, opsLeft>>

-----------------------------------------------------------------------------
(* Resume                                                                  *)

\* Done with the suspended thread: lower its count under both locks ...
Resume(c) ==
  /\ pc[c] = "stHave"
  /\ LocksFree
  /\ IsSuspended(cur[c]) /\ cur[c] \in list
  /\ Lower(c, {cur[c]})
  /\ cur' = [cur EXCEPT ![c] = NoThread]
  /\ Goto(c, "stBroadcast")
  /\ UNCHANGED <<state, barriers, passing, checkpoints, flip, resumeWaiters, listVars, lockVars,
                 flipVars, op, todo, due, opsLeft, cont>>

\* Mutant: the broadcast is forgotten.
ResumeWithoutBroadcast(c) ==
  /\ pc[c] = "stBroadcast"
  /\ op' = [op EXCEPT ![c] = "none"]
  /\ Goto(c, "native")
  /\ UNCHANGED <<threadVars, listVars, lockVars, flipVars, cur, todo, raised, due, opsLeft, cont>>

\* ... and then take the suspend count lock again to notify.
ResumeBroadcast(c) ==
  /\ pc[c] = "stBroadcast"
  /\ countLock = NoThread
  /\ resumeWaiters' = {}
  /\ op' = [op EXCEPT ![c] = "none"]
  /\ Goto(c, "native")
  /\ UNCHANGED <<state, flags, suspendCount, barriers, passing, checkpoints, flip, listVars,
                 lockVars, flipVars, cur, todo, raised, due, opsLeft, cont>>
=============================================================================
