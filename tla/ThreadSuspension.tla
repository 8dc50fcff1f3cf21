--------------------------- MODULE ThreadSuspension ---------------------------
(***************************************************************************)
(* The thread side of ART's suspension protocol: the state_and_flags word  *)
(* of every thread, its transitions between runnable and suspended states, *)
(* suspend counts, suspend barriers, checkpoints and flip functions        *)
(* (runtime/thread.h, thread-inl.h, thread.cc).                            *)
(*                                                                         *)
(* thread_list_lock_ and thread_suspend_count_lock_ are held by at most    *)
(* one thread each; a critical section is one step unless other threads    *)
(* can observe the middle of it through state_and_flags, which is read and *)
(* changed without a lock.  A load of state_and_flags followed by a        *)
(* compare-and-set that retries on failure is one step.                    *)
(***************************************************************************)
EXTENDS Integers, FiniteSets, Sequences

CONSTANTS
  Threads,             \* the threads that may attach to the runtime
  NoThread,            \* the owner of a free lock
  UseReadBarrier,      \* kUseReadBarrier: the concurrent copying collector is on
  MaxSuspendBarriers,  \* Thread::kMaxSuspendBarriers
  Ops,                 \* the ThreadList operations that threads call
  MaxOps               \* bound on the number of calls

OpNames == {"SuspendAll", "FlipThreadRoots", "RunCheckpoint", "SuspendThreadByThreadId",
            "RequestSynchronousCheckpoint", "JniCritical", "Detach"}

ASSUME ThreadsAssumption == IsFiniteSet(Threads) /\ NoThread \notin Threads
ASSUME ReadBarrierAssumption == UseReadBarrier \in BOOLEAN
ASSUME BarrierAssumption == MaxSuspendBarriers \in Nat \ {0}
ASSUME OpsAssumption == Ops \subseteq OpNames /\ MaxOps \in Nat

VARIABLES
  state,         \* state_and_flags.state
  flags,         \* state_and_flags.flags
  suspendCount,  \* suspend_count
  barriers,      \* active_suspend_barriers: the callers whose counter is installed
  passing,       \* pass_barriers still to be decremented by this thread
  checkpoints,   \* checkpoint_function followed by checkpoint_overflow_
  flip,          \* flip_function != nullptr
  resumeWaiters, \* threads waiting on resume_cond_
  list,          \* ThreadList::list_
  suspendAllCount, \* ThreadList::suspend_all_count_
  pending,       \* pending_threads of a running SuspendAllInternal
  listLock,      \* owner of thread_list_lock_
  countLock,     \* owner of thread_suspend_count_lock_
  mutatorOwner,  \* exclusive owner of mutator_lock_
  mutatorReaders, \* ReaderMutexLock holders of mutator_lock_
  flipRunning,   \* Heap::thread_flip_running_
  disableFlip,   \* disable_thread_flip_count of each thread
  disableFlipCount, \* Heap::disable_thread_flip_count_
  flipWaiters,   \* threads waiting on thread_flip_cond_
  pc,            \* where each thread is
  cont,          \* where it goes on once it has left the runnable state
  op,            \* the ThreadList operation it is executing
  cur,           \* the thread its operation is working on
  todo,          \* threads its operation has still to work on
  raised,        \* threads whose suspend count it has raised and not yet lowered
  due,           \* threads its checkpoint or flip function has still to run on
  opsLeft        \* calls left

threadVars == <<state, flags, suspendCount, barriers, passing, checkpoints, flip, resumeWaiters>>
listVars == <<list, suspendAllCount, pending>>
lockVars == <<listLock, countLock, mutatorOwner, mutatorReaders>>
flipVars == <<flipRunning, disableFlip, disableFlipCount, flipWaiters>>
opVars == <<op, cur, todo, raised, due, opsLeft>>
vars == <<threadVars, listVars, lockVars, flipVars, opVars, pc, cont>>

States == {"Runnable", "Suspended", "WaitingForGcThreadFlip"}

Flags == {"SuspendRequest", "CheckpointRequest", "ActiveSuspendBarrier"}

\* Where a thread can be: on its own, or in SuspendAll (sa, ra), FlipThreadRoots
\* (flip), RunCheckpoint (rc), SuspendThreadByThreadId (st) or
\* RequestSynchronousCheckpoint (sc).
Labels == {"detached", "native", "toRunnable", "resumeWait", "passRunnable", "runFlip", "running",
           "toSuspended", "passLoop", "passSuspended", "jniWait", "unregister",
           "saLock", "saLoop", "saCheck", "saRetry", "saWait", "saExclusive", "saHeld", "raLock",
           "flipBegin", "flipResume", "flipEnd", "flipShared", "flipOthers", "flipLower",
           "flipWait", "rcLock", "rcLoop", "rcRaise", "rcRetry", "rcOthers", "rcLower", "rcWait",
           "stLock", "stRetry", "stCheck", "stHave", "stBroadcast",
           "scLock", "scRaise", "scWait", "scSpin", "scRun", "scBroadcast"}

Goto(t, label) == pc' = [pc EXCEPT ![t] = label]

\* Thread::IsSuspended
IsSuspended(t) == state[t] # "Runnable" /\ "SuspendRequest" \in flags[t]

\* Thread::IsTransitioningToRunnable: inside the ScopedTransitioningToRunnable
\* of TransitionFromSuspendedToRunnable.
IsTransitioningToRunnable(t) == pc[t] = "resumeWait"

LocksFree == listLock = NoThread /\ countLock = NoThread

-----------------------------------------------------------------------------
(* Thread::ModifySuspendCount                                              *)

\* Whether ModifySuspendCountInternal(+1) succeeds: not in the middle of a
\* thread flip, and with a free slot if a barrier is to be installed.
CanRaise(self, t, withBarrier) ==
  /\ ~(UseReadBarrier /\ t # self /\ flip[t])
  /\ withBarrier => Cardinality(barriers[t]) < MaxSuspendBarriers

\* ModifySuspendCountInternal(+1) when it succeeds.
Raise(self, t, withBarrier) ==
  /\ suspendCount' = [suspendCount EXCEPT ![t] = @ + 1]
  /\ flags' = [flags EXCEPT ![t] = @ \cup {"SuspendRequest"}
                                     \cup (IF withBarrier THEN {"ActiveSuspendBarrier"} ELSE {})]
  /\ barriers' = [barriers EXCEPT ![t] = IF withBarrier THEN @ \cup {self} ELSE @]
  /\ raised' = [raised EXCEPT ![self] = @ \cup {t}]

\* ModifySuspendCountInternal(-1) on every thread of a set.
Lower(self, ts) ==
  /\ suspendCount' = [t \in Threads |-> IF t \in ts THEN suspendCount[t] - 1 ELSE suspendCount[t]]
  /\ flags' = [t \in Threads |-> IF t \in ts /\ suspendCount[t] = 1
                                 THEN flags[t] \ {"SuspendRequest"} ELSE flags[t]]
  /\ raised' = [raised EXCEPT ![self] = @ \ ts]

-----------------------------------------------------------------------------
(* From runnable to suspended                                              *)

\* The thread calls out to native code, blocks, or otherwise gives up its
\* share of the mutator lock (ScopedThreadSuspension, JNI transitions).
LeaveRunnable(t) ==
  /\ pc[t] = "running"
  /\ Goto(t, "toSuspended")
  /\ cont' = [cont EXCEPT ![t] = "native"]
  /\ UNCHANGED <<threadVars, listVars, lockVars, flipVars, opVars>>

\* Thread::CheckSuspend sees a suspend request: FullSuspendCheck suspends and
\* comes straight back.
FullSuspendCheck(t) ==
  /\ pc[t] = "running"
  /\ "SuspendRequest" \in flags[t]
  /\ "CheckpointRequest" \notin flags[t]
  /\ Goto(t, "toSuspended")
  /\ cont' = [cont EXCEPT ![t] = "toRunnable"]
  /\ UNCHANGED <<threadVars, listVars, lockVars, flipVars, opVars>>

\* Mutant: the overflow list is cleared with the checkpoint that is run.
RunCheckpointDropsOverflow(t) ==
  /\ pc[t] \in {"running", "toSuspended"}
  /\ "CheckpointRequest" \in flags[t]
  /\ countLock = NoThread
  /\ checkpoints' = [checkpoints EXCEPT ![t] = <<>>]
  /\ flags' = [flags EXCEPT ![t] = @ \ {"CheckpointRequest"}]
  /\ due' = [due EXCEPT ![Head(checkpoints[t])] = @ \ {t}]
  /\ UNCHANGED <<state, suspendCount, barriers, passing, flip, resumeWaiters, listVars, lockVars,
                 flipVars, op, cur, todo, raised, opsLeft, pc, cont>>

\* RunCheckpointFunction, from a suspend check or on the way to a suspended
\* state: take the first pending checkpoint, clear the flag with the last one,
\* and run the closure.
RunCheckpointFunction(t) ==
  /\ pc[t] \in {"running", "toSuspended"}
  /\ "CheckpointRequest" \in flags[t]
  /\ countLock = NoThread
  /\ checkpoints' = [checkpoints EXCEPT ![t] = Tail(@)]
  /\ flags' = [flags EXCEPT ![t] = IF Len(checkpoints[t]) = 1 THEN @ \ {"CheckpointRequest"} ELSE @]
  /\ due' = [due EXCEPT ![Head(checkpoints[t])] = @ \ {t}]
  /\ UNCHANGED <<state, suspendCount, barriers, passing, flip, resumeWaiters, listVars, lockVars,
                 flipVars, op, cur, todo, raised, opsLeft, pc, cont>>

\* Mutant: a checkpoint that arrives after the last look at the flags is kept
\* pending in the suspended state.
TransitionWithCheckpoint(t) ==
  /\ pc[t] = "toSuspended"
  /\ state' = [state EXCEPT ![t] = IF cont[t] = "jniWait" THEN "WaitingForGcThreadFlip"
                                                      ELSE "Suspended"]
  /\ Goto(t, "passLoop")
  /\ UNCHANGED <<flags, suspendCount, barriers, passing, checkpoints, flip, resumeWaiters,
                 listVars, lockVars, flipVars, opVars, cont>>

\* TransitionToSuspendedAndRunCheckpoints: the compare-and-set succeeds only
\* with no checkpoint pending, and keeps the other flags.
TransitionToSuspended(t) ==
  /\ pc[t] = "toSuspended"
  /\ "CheckpointRequest" \notin flags[t]
  /\ state' = [state EXCEPT ![t] = IF cont[t] = "jniWait" THEN "WaitingForGcThreadFlip"
                                                      ELSE "Suspended"]
  /\ Goto(t, "passLoop")
  /\ UNCHANGED <<flags, suspendCount, barriers, passing, checkpoints, flip, resumeWaiters,
                 listVars, lockVars, flipVars, opVars, cont>>

\* PassActiveSuspendBarriers(), the loop that ends a transition to a suspended
\* state.  (A checkpoint flag here is the "Impossible" branch of the code.)
PassLoopExit(t) ==
  /\ pc[t] = "passLoop"
  /\ "ActiveSuspendBarrier" \notin flags[t]
  /\ Goto(t, cont[t])
  /\ cont' = [cont EXCEPT ![t] = "native"]
  /\ UNCHANGED <<threadVars, listVars, lockVars, flipVars, opVars>>

\* Mutant: the claimed barriers stay in active_suspend_barriers.
ClaimWithoutClearing(t) ==
  /\ pc[t] \in {"passLoop", "toRunnable"}
  /\ "ActiveSuspendBarrier" \in flags[t]
  /\ countLock = NoThread
  /\ passing' = [passing EXCEPT ![t] = barriers[t]]
  /\ flags' = [flags EXCEPT ![t] = @ \ {"ActiveSuspendBarrier"}]
  /\ Goto(t, IF pc[t] = "passLoop" THEN "passSuspended" ELSE "passRunnable")
  /\ UNCHANGED <<state, suspendCount, barriers, checkpoints, flip, resumeWaiters, listVars,
                 lockVars, flipVars, opVars, cont>>

\* PassActiveSuspendBarriers(self), under the suspend count lock: claim all the
\* installed barriers.  Called from the loop above and on the way to runnable.
ClaimBarriers(t) ==
  /\ pc[t] \in {"passLoop", "toRunnable"}
  /\ "ActiveSuspendBarrier" \in flags[t]
  /\ countLock = NoThread
  /\ passing' = [passing EXCEPT ![t] = barriers[t]]
  /\ barriers' = [barriers EXCEPT ![t] = {}]
  /\ flags' = [flags EXCEPT ![t] = @ \ {"ActiveSuspendBarrier"}]
  /\ Goto(t, IF pc[t] = "passLoop" THEN "passSuspended" ELSE "passRunnable")
  /\ UNCHANGED <<state, suspendCount, checkpoints, flip, resumeWaiters, listVars, lockVars,
                 flipVars, opVars, cont>>

\* ... and then, without the lock, count down the claimed barriers one by one.
PassBarrier(t) ==
  /\ pc[t] \in {"passSuspended", "passRunnable"}
  /\ \E c \in passing[t] :
       /\ pending' = [pending EXCEPT ![c] = @ - 1]
       /\ passing' = [passing EXCEPT ![t] = @ \ {c}]
       /\ IF passing[t] = {c}
          THEN Goto(t, IF pc[t] = "passSuspended" THEN "passLoop" ELSE "toRunnable")
          ELSE UNCHANGED pc
  /\ UNCHANGED <<state, flags, suspendCount, barriers, checkpoints, flip, resumeWaiters,
                 list, suspendAllCount, lockVars, flipVars, opVars, cont>>

-----------------------------------------------------------------------------
(* From suspended to runnable                                              *)

\* A thread in native code enters a ScopedObjectAccess or returns to managed code.
EnterRunnable(t) ==
  /\ pc[t] = "native"
  /\ Goto(t, "toRunnable")
  /\ UNCHANGED <<threadVars, listVars, lockVars, flipVars, opVars, cont>>

\* Where a thread goes on once it is runnable.
RunnableLabel(t) ==
  CASE op[t] = "SuspendThreadByThreadId" -> "stLock"
    [] op[t] = "RequestSynchronousCheckpoint" -> "scRun"
    [] OTHER -> "running"

\* Mutant: the flip function is left for a later transition.
BecomeRunnableSkipsFlip(t) ==
  /\ pc[t] = "toRunnable"
  /\ flags[t] = {}
  /\ state' = [state EXCEPT ![t] = "Runnable"]
  /\ Goto(t, RunnableLabel(t))
  /\ UNCHANGED <<flags, suspendCount, barriers, passing, checkpoints, flip, resumeWaiters,
                 listVars, lockVars, flipVars, opVars, cont>>

\* TransitionFromSuspendedToRunnable, the compare-and-set: only with no flag set.
BecomeRunnable(t) ==
  /\ pc[t] = "toRunnable"
  /\ flags[t] = {}
  /\ state' = [state EXCEPT ![t] = "Runnable"]
  /\ Goto(t, "runFlip")
  /\ UNCHANGED <<flags, suspendCount, barriers, passing, checkpoints, flip, resumeWaiters,
                 listVars, lockVars, flipVars, opVars, cont>>

\* GetFlipFunction takes the flip function of a thread if it is still there; the
\* function, once run, passes the collector's barrier.
TakeFlipFunction(t) ==
  /\ flip' = [flip EXCEPT ![t] = FALSE]
  /\ due' = [c \in Threads |-> IF flip[t] /\ op[c] = "FlipThreadRoots" THEN due[c] \ {t}
                                                                      ELSE due[c]]

\* The end of TransitionFromSuspendedToRunnable: run the flip function, if set.
RunFlipFunction(t) ==
  /\ pc[t] = "runFlip"
  /\ TakeFlipFunction(t)
  /\ Goto(t, RunnableLabel(t))
  /\ UNCHANGED <<state, flags, suspendCount, barriers, passing, checkpoints, resumeWaiters,
                 listVars, lockVars, flipVars, op, cur, todo, raised, opsLeft, cont>>

\* A suspend request is pending and no barrier is left to pass: wait on
\* resume_cond_ under the suspend count lock.
WaitForResume(t) ==
  /\ \/ pc[t] = "toRunnable" /\ "ActiveSuspendBarrier" \notin flags[t]
     \/ pc[t] = "resumeWait" /\ t \notin resumeWaiters
  /\ "SuspendRequest" \in flags[t]
  /\ countLock = NoThread
  /\ resumeWaiters' = resumeWaiters \cup {t}
  /\ Goto(t, "resumeWait")
  /\ UNCHANGED <<state, flags, suspendCount, barriers, passing, checkpoints, flip,
                 listVars, lockVars, flipVars, opVars, cont>>

\* Notified, and the request is gone: leave the wait loop and try again.
ResumeWaitExit(t) ==
  /\ pc[t] = "resumeWait" /\ t \notin resumeWaiters
  /\ "SuspendRequest" \notin flags[t]
  /\ countLock = NoThread
  /\ Goto(t, "toRunnable")
  /\ UNCHANGED <<threadVars, listVars, lockVars, flipVars, opVars, cont>>

\* ConditionVariable::Wait may return early.
SpuriousResume(t) ==
  /\ t \in resumeWaiters
  /\ resumeWaiters' = resumeWaiters \ {t}
  /\ UNCHANGED <<state, flags, suspendCount, barriers, passing, checkpoints, flip,
                 listVars, lockVars, flipVars, opVars, pc, cont>>

-----------------------------------------------------------------------------
(* Property                                                                *)

\* The two fatal "Impossible" branches, of PassActiveSuspendBarriers and of
\* TransitionFromSuspendedToRunnable, are unreachable: only a runnable thread
\* has the checkpoint flag, and it has it exactly when a checkpoint is queued.
CheckpointOnlyWhenRunnable ==
  \A t \in Threads :
    /\ "CheckpointRequest" \in flags[t] <=> checkpoints[t] # <<>>
    /\ "CheckpointRequest" \in flags[t] => state[t] = "Runnable"
=============================================================================
