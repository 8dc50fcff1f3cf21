------------------------ MODULE SynchronousCheckpoint ------------------------
(***************************************************************************)
(* Thread::RequestSynchronousCheckpoint (runtime/thread.cc): a runnable    *)
(* thread has a closure run on one other thread and waits for it, in a     *)
(* suspended state, having let go of thread_list_lock_.  This is the       *)
(* default suspend_state; some callers of JVMTI pass kRunnable.            *)
(***************************************************************************)
EXTENDS ThreadSuspension

\* The callers, of JVMTI and of Monitor::Lock, are runnable.
CallSynchronousCheckpoint(c) ==
  /\ "RequestSynchronousCheckpoint" \in Ops
  /\ pc[c] = "running" /\ opsLeft > 0
  /\ op' = [op EXCEPT ![c] = "RequestSynchronousCheckpoint"]
  /\ \E t \in Threads : cur' = [cur EXCEPT ![c] = t]
  /\ opsLeft' = opsLeft - 1
  /\ Goto(c, "scLock")
  /\ UNCHANGED <<threadVars, listVars, lockVars, flipVars, todo, raised, due, cont>>

\* The target is the caller, which runs the closure itself, or is not in the list.
SynchronousReturn(c) ==
  /\ pc[c] = "scLock"
  /\ listLock = NoThread
  /\ cur[c] = c \/ cur[c] \notin list
  /\ op' = [op EXCEPT ![c] = "none"]
  /\ cur' = [cur EXCEPT ![c] = NoThread]
  /\ Goto(c, "running")
  /\ UNCHANGED <<threadVars, listVars, lockVars, flipVars, todo, raised, due, opsLeft, cont>>

\* RequestCheckpoint succeeds: queue the BarrierClosure, let go of the locks and
\* change to a suspended state to wait at its barrier.
SynchronousRequest(c) ==
  /\ pc[c] = "scLock"
  /\ LocksFree
  /\ cur[c] \in list \ {c} /\ state[cur[c]] = "Runnable"
  /\ flags' = [flags EXCEPT ![cur[c]] = @ \cup {"CheckpointRequest"}]
  /\ checkpoints' = [checkpoints EXCEPT ![cur[c]] = Append(@, c)]
  /\ due' = [due EXCEPT ![c] = {cur[c]}]
  /\ cont' = [cont EXCEPT ![c] = "scWait"]
  /\ Goto(c, "toSuspended")
  /\ UNCHANGED <<state, suspendCount, barriers, passing, flip, resumeWaiters, listVars, lockVars,
                 flipVars, op, cur, todo, raised, opsLeft>>

\* The target has run the closure: change back to runnable and return.
SynchronousDone(c) ==
  /\ pc[c] = "scWait"
  /\ due[c] = {}
  /\ op' = [op EXCEPT ![c] = "none"]
  /\ cur' = [cur EXCEPT ![c] = NoThread]
  /\ Goto(c, "toRunnable")
  /\ UNCHANGED <<threadVars, listVars, lockVars, flipVars, todo, raised, due, opsLeft, cont>>

\* GetState or RequestCheckpoint finds the target not runnable; the caller keeps
\* thread_list_lock_.
SynchronousRequestFails(c) ==
  /\ pc[c] = "scLock"
  /\ listLock = NoThread
  /\ cur[c] \in list \ {c} /\ state[cur[c]] # "Runnable"
  /\ listLock' = c
  /\ Goto(c, "scRaise")
  /\ UNCHANGED <<threadVars, listVars, countLock, mutatorOwner, mutatorReaders, flipVars, opVars,
                 cont>>

\* ModifySuspendCount(+1), retried in the middle of a thread flip.  By now the
\* target may be runnable.  Then thread_list_lock_ is released for the wait, in a
\* suspended state.
SynchronousRaise(c) ==
  /\ pc[c] = "scRaise"
  /\ countLock = NoThread
  /\ CanRaise(c, cur[c], FALSE)
  /\ Raise(c, cur[c], FALSE)
  /\ listLock' = NoThread
  /\ due' = [due EXCEPT ![c] = {cur[c]}]
  /\ cont' = [cont EXCEPT ![c] = "scSpin"]
  /\ Goto(c, "toSuspended")
  /\ UNCHANGED <<state, passing, checkpoints, flip, resumeWaiters, listVars, countLock,
                 mutatorOwner, mutatorReaders, flipVars, op, cur, todo, opsLeft>>

\* The target is suspended: end the wait by changing back to runnable.
SynchronousSuspended(c) ==
  /\ pc[c] = "scSpin"
  /\ state[cur[c]] # "Runnable"
  /\ Goto(c, "toRunnable")
  /\ UNCHANGED <<threadVars, listVars, lockVars, flipVars, opVars, cont>>

\* Run the closure, take thread_list_lock_ again and lower the target's count ...
SynchronousRun(c) ==
  /\ pc[c] = "scRun"
  /\ LocksFree
  /\ Lower(c, {cur[c]})
  /\ due' = [due EXCEPT ![c] = {}]
  /\ listLock' = c
  /\ Goto(c, "scBroadcast")
  /\ UNCHANGED <<state, barriers, passing, checkpoints, flip, resumeWaiters, listVars, countLock,
                 mutatorOwner, mutatorReaders, flipVars, op, cur, todo, opsLeft, cont>>

\* ... and "imitate ResumeAll": take the suspend count lock again to notify.
SynchronousBroadcast(c) ==
  /\ pc[c] = "scBroadcast"
  /\ countLock = NoThread
  /\ resumeWaiters' = {}
  /\ listLock' = NoThread
  /\ op' = [op EXCEPT ![c] = "none"]
  /\ cur' = [cur EXCEPT ![c] = NoThread]
  /\ Goto(c, "running")
  /\ UNCHANGED <<state, flags, suspendCount, barriers, passing, checkpoints, flip, listVars,
                 countLock, mutatorOwner, mutatorReaders, flipVars, todo, raised, due, opsLeft,
                 cont>>
=============================================================================
