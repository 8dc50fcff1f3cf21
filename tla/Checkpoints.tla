----------------------------- MODULE Checkpoints -----------------------------
(***************************************************************************)
(* ThreadList::RunCheckpoint (runtime/thread_list.cc) and the barrier on   *)
(* which its callers wait for the checkpoint to have run on every thread.  *)
(* Some are in a suspended state, as Heap::TrimIndirectReferenceTables;    *)
(* others call it while runnable and wait in a suspended state, as         *)
(* Runtime::NotifyStartupCompleted.  They wait without a timeout: only     *)
(* ThreadList::Dump has one, and it is not modelled.                       *)
(***************************************************************************)
EXTENDS ThreadSuspension

\* Runtime::NotifyStartupCompleted and the like, runnable or not.
CallRunCheckpoint(c) ==
  /\ "RunCheckpoint" \in Ops
  /\ pc[c] \in {"native", "running"} /\ opsLeft > 0
  /\ op' = [op EXCEPT ![c] = "RunCheckpoint"]
  /\ opsLeft' = opsLeft - 1
  /\ Goto(c, "rcLock")
  /\ UNCHANGED <<threadVars, listVars, lockVars, flipVars, cur, todo, raised, due, cont>>

\* Take both locks; the checkpoint is due on every thread of the list.
RunCheckpointBegin(c) ==
  /\ pc[c] = "rcLock"
  /\ LocksFree
  /\ listLock' = c /\ countLock' = c
  /\ todo' = [todo EXCEPT ![c] = list \ {c}]
  /\ due' = [due EXCEPT ![c] = list]
  /\ Goto(c, "rcLoop")
  /\ UNCHANGED <<threadVars, listVars, mutatorOwner, mutatorReaders, flipVars, op, cur, raised,
                 opsLeft, cont>>

\* Thread::RequestCheckpoint succeeds on a runnable thread: the flag is set and
\* the closure queued.
RequestCheckpoint(c) ==
  /\ pc[c] = "rcLoop"
  /\ \E t \in todo[c] :
       /\ state[t] = "Runnable"
       /\ flags' = [flags EXCEPT ![t] = @ \cup {"CheckpointRequest"}]
       /\ checkpoints' = [checkpoints EXCEPT ![t] = Append(@, c)]
       /\ todo' = [todo EXCEPT ![c] = @ \ {t}]
  /\ UNCHANGED <<state, suspendCount, barriers, passing, flip, resumeWaiters, listVars, lockVars,
                 flipVars, op, cur, raised, due, opsLeft, pc, cont>>

\* It fails on any other thread, and GetState agrees that the thread is not
\* runnable.  (If GetState sees it runnable, the loop starts over.)
RequestCheckpointFails(c) ==
  /\ pc[c] = "rcLoop"
  /\ \E t \in todo[c] :
       /\ state[t] # "Runnable"
       /\ cur' = [cur EXCEPT ![c] = t]
       /\ todo' = [todo EXCEPT ![c] = @ \ {t}]
  /\ Goto(c, "rcRaise")
  /\ UNCHANGED <<threadVars, listVars, lockVars, flipVars, op, raised, due, opsLeft, cont>>

\* ModifySuspendCount(+1), to keep the thread suspended.  By now it may be
\* runnable again.
KeepSuspended(c) ==
  /\ \/ pc[c] = "rcRaise"
     \/ pc[c] = "rcRetry" /\ countLock = NoThread
  /\ CanRaise(c, cur[c], FALSE)
  /\ Raise(c, cur[c], FALSE)
  /\ countLock' = c
  /\ cur' = [cur EXCEPT ![c] = NoThread]
  /\ Goto(c, "rcLoop")
  /\ UNCHANGED <<state, passing, checkpoints, flip, resumeWaiters, listVars, listLock,
                 mutatorOwner, mutatorReaders, flipVars, op, todo, due, opsLeft, cont>>

\* In the middle of a thread flip ModifySuspendCount lets go of the suspend
\* count lock and retries.
KeepSuspendedRetry(c) ==
  /\ pc[c] = "rcRaise"
  /\ ~CanRaise(c, cur[c], FALSE)
  /\ countLock' = NoThread
  /\ Goto(c, "rcRetry")
  /\ UNCHANGED <<threadVars, listVars, listLock, mutatorOwner, mutatorReaders, flipVars, opVars,
                 cont>>

\* Unlock, and run the checkpoint on the calling thread.
RunCheckpointOnSelf(c) ==
  /\ pc[c] = "rcLoop"
  /\ todo[c] = {}
  /\ listLock' = NoThread /\ countLock' = NoThread
  /\ due' = [due EXCEPT ![c] = @ \ {c}]
  /\ Goto(c, "rcOthers")
  /\ UNCHANGED <<threadVars, listVars, mutatorOwner, mutatorReaders, flipVars, op, cur, todo,
                 raised, opsLeft, cont>>

\* Mutant: the checkpoint is run without waiting for the thread to suspend.
RunCheckpointAtOnce(c) ==
  /\ pc[c] = "rcOthers"
  /\ \E t \in raised[c] :
       /\ due' = [due EXCEPT ![c] = @ \ {t}]
       /\ cur' = [cur EXCEPT ![c] = t]
  /\ Goto(c, "rcLower")
  /\ UNCHANGED <<threadVars, listVars, lockVars, flipVars, op, todo, raised, opsLeft, cont>>

\* For each thread of suspended_count_modified_threads: busy-wait until it is
\* suspended and run the checkpoint on it ...
RunCheckpointOnOther(c) ==
  /\ pc[c] = "rcOthers"
  /\ \E t \in raised[c] :
       /\ IsSuspended(t)
       /\ due' = [due EXCEPT ![c] = @ \ {t}]
       /\ cur' = [cur EXCEPT ![c] = t]
  /\ Goto(c, "rcLower")
  /\ UNCHANGED <<threadVars, listVars, lockVars, flipVars, op, todo, raised, opsLeft, cont>>

\* ... then lower its count under the suspend count lock.
RunCheckpointLower(c) ==
  /\ pc[c] = "rcLower"
  /\ countLock = NoThread
  /\ Lower(c, {cur[c]})
  /\ cur' = [cur EXCEPT ![c] = NoThread]
  /\ Goto(c, "rcOthers")
  /\ UNCHANGED <<state, barriers, passing, checkpoints, flip, resumeWaiters, listVars, lockVars,
                 flipVars, op, todo, due, opsLeft, cont>>

\* "Imitate ResumeAll": one broadcast for all of them.  The caller then waits,
\* in a suspended state, for the runnable threads.
RunCheckpointBroadcast(c) ==
  /\ pc[c] = "rcOthers"
  /\ raised[c] = {}
  /\ countLock = NoThread
  /\ resumeWaiters' = {}
  /\ IF state[c] = "Runnable"
     THEN Goto(c, "toSuspended") /\ cont' = [cont EXCEPT ![c] = "rcWait"]
     ELSE Goto(c, "rcWait") /\ UNCHANGED cont
  /\ UNCHANGED <<state, flags, suspendCount, barriers, passing, checkpoints, flip, listVars,
                 lockVars, flipVars, opVars>>

\* Barrier::Increment without a timeout: it returns once every thread has run
\* the checkpoint.  A caller that was runnable becomes so by EnterRunnable.
RunCheckpointDone(c) ==
  /\ pc[c] = "rcWait"
  /\ due[c] = {}
  /\ op' = [op EXCEPT ![c] = "none"]
  /\ Goto(c, "native")
  /\ UNCHANGED <<threadVars, listVars, lockVars, flipVars, cur, todo, raised, due, opsLeft, cont>>
=============================================================================
