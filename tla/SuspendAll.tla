------------------------------ MODULE SuspendAll ------------------------------
(***************************************************************************)
(* ThreadList::SuspendAllInternal, SuspendAll and ResumeAll                *)
(* (runtime/thread_list.cc).  The caller is in a suspended state for the   *)
(* whole call.                                                             *)
(***************************************************************************)
EXTENDS ThreadSuspension

\* A thread that is not runnable calls SuspendAll.
CallSuspendAll(c) ==
  /\ "SuspendAll" \in Ops
  /\ pc[c] = "native" /\ opsLeft > 0
  /\ op' = [op EXCEPT ![c] = "SuspendAll"]
  /\ opsLeft' = opsLeft - 1
  /\ Goto(c, "saLock")
  /\ UNCHANGED <<threadVars, listVars, lockVars, flipVars, cur, todo, raised, due, cont>>

-----------------------------------------------------------------------------
(* SuspendAllInternal                                                      *)

\* Take both locks, announce the request to attaching threads, and start the
\* barrier at the number of threads to suspend.
SuspendAllBegin(c) ==
  /\ pc[c] = "saLock"
  /\ LocksFree
  /\ listLock' = c /\ countLock' = c
  /\ suspendAllCount' = suspendAllCount + 1
  /\ pending' = [pending EXCEPT ![c] = Cardinality(list \ {c})]
  /\ todo' = [todo EXCEPT ![c] = list \ {c}]
  /\ Goto(c, "saLoop")
  /\ UNCHANGED <<threadVars, list, mutatorOwner, mutatorReaders, flipVars, op, cur, raised, due,
                 opsLeft, cont>>

\* The next thread of the list: ModifySuspendCount(+1, &pending_threads).
SuspendAllRaise(c) ==
  /\ pc[c] = "saLoop"
  /\ \E t \in todo[c] :
       /\ CanRaise(c, t, TRUE)
       /\ Raise(c, t, TRUE)
       /\ cur' = [cur EXCEPT ![c] = t]
       /\ todo' = [todo EXCEPT ![c] = @ \ {t}]
  /\ Goto(c, "saCheck")
  /\ UNCHANGED <<state, passing, checkpoints, flip, resumeWaiters, listVars, lockVars, flipVars,
                 op, due, opsLeft, cont>>

\* ModifySuspendCount has to retry: it lets go of the suspend count lock, but
\* not of the thread list lock, and sleeps.
SuspendAllRetry(c) ==
  /\ pc[c] = "saLoop"
  /\ \E t \in todo[c] :
       /\ ~CanRaise(c, t, TRUE)
       /\ cur' = [cur EXCEPT ![c] = t]
  /\ countLock' = NoThread
  /\ Goto(c, "saRetry")
  /\ UNCHANGED <<threadVars, listVars, listLock, mutatorOwner, mutatorReaders, flipVars,
                 op, todo, raised, due, opsLeft, cont>>

SuspendAllRaiseAgain(c) ==
  /\ pc[c] = "saRetry"
  /\ countLock = NoThread
  /\ CanRaise(c, cur[c], TRUE)
  /\ Raise(c, cur[c], TRUE)
  /\ countLock' = c
  /\ todo' = [todo EXCEPT ![c] = @ \ {cur[c]}]
  /\ Goto(c, "saCheck")
  /\ UNCHANGED <<state, passing, checkpoints, flip, resumeWaiters, listVars, listLock,
                 mutatorOwner, mutatorReaders, flipVars, op, cur, due, opsLeft, cont>>

\* With the barrier installed, look whether the thread is already suspended; if
\* so ClearSuspendBarrier takes the barrier back and the caller counts it down.
SuspendAllCheck(c) ==
  /\ pc[c] = "saCheck"
  /\ IF IsSuspended(cur[c])
     THEN /\ barriers' = [barriers EXCEPT ![cur[c]] = @ \ {c}]
          /\ flags' = [flags EXCEPT ![cur[c]] =
                         IF barriers[cur[c]] \ {c} = {} THEN @ \ {"ActiveSuspendBarrier"} ELSE @]
          /\ pending' = [pending EXCEPT ![c] = @ - 1]
     ELSE UNCHANGED <<barriers, flags, pending>>
  /\ Goto(c, "saLoop")
  /\ cur' = [cur EXCEPT ![c] = NoThread]
  /\ UNCHANGED <<state, suspendCount, passing, checkpoints, flip, resumeWaiters, list,
                 suspendAllCount, lockVars, flipVars, op, todo, raised, due, opsLeft, cont>>

SuspendAllUnlock(c) ==
  /\ pc[c] = "saLoop"
  /\ todo[c] = {}
  /\ listLock' = NoThread /\ countLock' = NoThread
  /\ Goto(c, "saWait")
  /\ UNCHANGED <<threadVars, listVars, mutatorOwner, mutatorReaders, flipVars, opVars, cont>>

\* The futex wait on pending_threads, which ends when it reads zero.
SuspendAllWait(c) ==
  /\ pc[c] = "saWait"
  /\ pending[c] = 0
  /\ Goto(c, "saExclusive")
  /\ UNCHANGED <<threadVars, listVars, lockVars, flipVars, opVars, cont>>

\* mutator_lock_->ExclusiveLock: a thread may still hold it through a
\* ReaderMutexLock, or another SuspendAll may hold it.
SuspendAllExclusive(c) ==
  /\ pc[c] = "saExclusive"
  /\ mutatorOwner = NoThread /\ mutatorReaders = {}
  /\ mutatorOwner' = c
  /\ Goto(c, "saHeld")
  /\ UNCHANGED <<threadVars, listVars, listLock, countLock, mutatorReaders, flipVars, opVars, cont>>

-----------------------------------------------------------------------------
(* ResumeAll                                                               *)

ResumeAllUnlock(c) ==
  /\ pc[c] = "saHeld" /\ op[c] = "SuspendAll"
  /\ mutatorOwner' = NoThread
  /\ Goto(c, "raLock")
  /\ UNCHANGED <<threadVars, listVars, listLock, countLock, mutatorReaders, flipVars, opVars, cont>>

\* Under both locks: every other thread's count goes down and all waiters of
\* resume_cond_ are notified.
ResumeAll(c) ==
  /\ pc[c] = "raLock"
  /\ LocksFree
  /\ suspendAllCount' = suspendAllCount - 1
  /\ Lower(c, list \ {c})
  /\ resumeWaiters' = {}
  /\ op' = [op EXCEPT ![c] = "none"]
  /\ Goto(c, "native")
  /\ UNCHANGED <<state, barriers, passing, checkpoints, flip, list, pending, lockVars, flipVars,
                 cur, todo, due, opsLeft, cont>>
=============================================================================
