------------------------------ MODULE ThreadFlip ------------------------------
(***************************************************************************)
(* ThreadList::FlipThreadRoots (runtime/thread_list.cc) and the JNI        *)
(* critical sections it synchronises with: Heap::ThreadFlipBegin,          *)
(* ThreadFlipEnd, IncrementDisableThreadFlip, DecrementDisableThreadFlip   *)
(* (runtime/gc/heap.cc).                                                   *)
(***************************************************************************)
EXTENDS SuspendAll

MaxNestedCritical == 2  \* bound on nested JNI critical sections of a thread

-----------------------------------------------------------------------------
(* JNI critical sections                                                   *)

\* IncrementDisableThreadFlip: a nested entry only counts; the outermost one
\* leaves the runnable state to wait for a running flip.
IncrementDisableThreadFlip(t) ==
  /\ "JniCritical" \in Ops /\ UseReadBarrier
  /\ pc[t] = "running"
  /\ disableFlip[t] < MaxNestedCritical
  /\ disableFlip' = [disableFlip EXCEPT ![t] = @ + 1]
  /\ IF disableFlip[t] > 0
     THEN UNCHANGED <<pc, cont>>
     ELSE /\ Goto(t, "toSuspended")
          /\ cont' = [cont EXCEPT ![t] = "jniWait"]
  /\ UNCHANGED <<threadVars, listVars, lockVars, flipRunning, disableFlipCount, flipWaiters,
                 opVars>>

\* Under thread_flip_lock_: wait while a flip is running ...
JniCriticalWait(t) ==
  /\ pc[t] = "jniWait" /\ t \notin flipWaiters
  /\ flipRunning
  /\ flipWaiters' = flipWaiters \cup {t}
  /\ UNCHANGED <<threadVars, listVars, lockVars, flipRunning, disableFlip, disableFlipCount,
                 opVars, pc, cont>>

\* ... then count this thread and become runnable again.
JniCriticalEnter(t) ==
  /\ pc[t] = "jniWait" /\ t \notin flipWaiters
  /\ ~flipRunning
  /\ disableFlipCount' = disableFlipCount + 1
  /\ Goto(t, "toRunnable")
  /\ UNCHANGED <<threadVars, listVars, lockVars, flipRunning, disableFlip, flipWaiters, opVars,
                 cont>>

\* DecrementDisableThreadFlip: the outermost exit lowers the global count and
\* notifies when it reaches zero.
DecrementDisableThreadFlip(t) ==
  /\ pc[t] = "running"
  /\ disableFlip[t] > 0
  /\ disableFlip' = [disableFlip EXCEPT ![t] = @ - 1]
  /\ disableFlipCount' = IF disableFlip[t] = 1 THEN disableFlipCount - 1 ELSE disableFlipCount
  /\ flipWaiters' = IF disableFlip[t] = 1 /\ disableFlipCount = 1 THEN {} ELSE flipWaiters
  /\ UNCHANGED <<threadVars, listVars, lockVars, flipRunning, opVars, pc, cont>>

-----------------------------------------------------------------------------
(* FlipThreadRoots                                                         *)

\* The collector calls FlipThreadRoots; the heap runs one collection at a time.
CallFlipThreadRoots(c) ==
  /\ "FlipThreadRoots" \in Ops /\ UseReadBarrier
  /\ pc[c] = "native" /\ opsLeft > 0
  /\ disableFlip[c] = 0
  /\ \A u \in Threads : op[u] # "FlipThreadRoots"
  /\ op' = [op EXCEPT ![c] = "FlipThreadRoots"]
  /\ opsLeft' = opsLeft - 1
  /\ flipRunning' = TRUE
  /\ Goto(c, "flipBegin")
  /\ UNCHANGED <<threadVars, listVars, lockVars, disableFlip, disableFlipCount, flipWaiters,
                 cur, todo, raised, due, cont>>

\* ThreadFlipBegin waits until no thread is in a JNI critical section.
ThreadFlipBeginWait(c) ==
  /\ pc[c] = "flipBegin" /\ c \notin flipWaiters
  /\ disableFlipCount > 0
  /\ flipWaiters' = flipWaiters \cup {c}
  /\ UNCHANGED <<threadVars, listVars, lockVars, flipRunning, disableFlip, disableFlipCount,
                 opVars, pc, cont>>

\* Mutant: the flip does not wait for the critical sections.
ThreadFlipBeginAtOnce(c) ==
  /\ pc[c] = "flipBegin" /\ c \notin flipWaiters
  /\ Goto(c, "saLock")
  /\ UNCHANGED <<threadVars, listVars, lockVars, flipVars, opVars, cont>>

ThreadFlipBegin(c) ==
  /\ pc[c] = "flipBegin" /\ c \notin flipWaiters
  /\ disableFlipCount = 0
  /\ Goto(c, "saLock")
  /\ UNCHANGED <<threadVars, listVars, lockVars, flipVars, opVars, cont>>

\* The flip callback has run under the exclusive mutator lock; release it.
FlipCallback(c) ==
  /\ pc[c] = "saHeld" /\ op[c] = "FlipThreadRoots"
  /\ mutatorOwner' = NoThread
  /\ Goto(c, "flipResume")
  /\ UNCHANGED <<threadVars, listVars, listLock, countLock, mutatorReaders, flipVars, opVars, cont>>

\* The threads that were runnable before the pause, or are about to be.
ResumedEarly(c) ==
  {t \in list \ {c} : /\ state[t] = "WaitingForGcThreadFlip" \/ IsTransitioningToRunnable(t)
                      /\ suspendCount[t] = 1}

\* Under both locks: install the flip function in every thread, resume the
\* runnable ones, keep the others (other_threads, here todo) suspended.
FlipResume(c) ==
  /\ pc[c] = "flipResume"
  /\ LocksFree
  /\ suspendAllCount' = suspendAllCount - 1
  /\ flip' = [t \in Threads |-> t \in list \/ flip[t]]
  /\ Lower(c, ResumedEarly(c))
  /\ todo' = [todo EXCEPT ![c] = list \ ({c} \cup ResumedEarly(c))]
  /\ due' = [due EXCEPT ![c] = list]
  /\ resumeWaiters' = {}
  /\ Goto(c, "flipEnd")
  /\ UNCHANGED <<state, barriers, passing, checkpoints, list, pending, lockVars, flipVars,
                 op, cur, opsLeft, cont>>

\* Heap::ThreadFlipEnd.
ThreadFlipEnd(c) ==
  /\ pc[c] = "flipEnd"
  /\ flipRunning' = FALSE
  /\ flipWaiters' = {}
  /\ Goto(c, "flipShared")
  /\ UNCHANGED <<threadVars, listVars, lockVars, disableFlip, disableFlipCount, opVars, cont>>

\* ReaderMutexLock on the mutator lock.
FlipSharedLock(c) ==
  /\ pc[c] = "flipShared"
  /\ mutatorOwner = NoThread
  /\ mutatorReaders' = mutatorReaders \cup {c}
  /\ Goto(c, "flipOthers")
  /\ UNCHANGED <<threadVars, listVars, listLock, countLock, mutatorOwner, flipVars, opVars, cont>>

\* Run the flip function of each suspended thread, unless somebody has run it.
FlipOther(c) ==
  /\ pc[c] = "flipOthers"
  /\ \E t \in todo[c] : flip[t] /\ TakeFlipFunction(t)
  /\ UNCHANGED <<state, flags, suspendCount, barriers, passing, checkpoints, resumeWaiters,
                 listVars, lockVars, flipVars, op, cur, todo, raised, opsLeft, pc, cont>>

\* Then its own, and release the shared lock.
FlipSelf(c) ==
  /\ pc[c] = "flipOthers"
  /\ \A t \in todo[c] : ~flip[t]
  /\ TakeFlipFunction(c)
  /\ mutatorReaders' = mutatorReaders \ {c}
  /\ Goto(c, "flipLower")
  /\ UNCHANGED <<state, flags, suspendCount, barriers, passing, checkpoints, resumeWaiters,
                 listVars, listLock, countLock, mutatorOwner, flipVars, op, cur, todo, raised,
                 opsLeft, cont>>

\* Mutant: all other threads are resumed, those resumed early a second time.
FlipLowerAll(c) ==
  /\ pc[c] = "flipLower"
  /\ countLock = NoThread
  /\ Lower(c, {t \in list \ {c} : suspendCount[t] > 0})
  /\ todo' = [todo EXCEPT ![c] = {}]
  /\ resumeWaiters' = {}
  /\ Goto(c, "flipWait")
  /\ UNCHANGED <<state, barriers, passing, checkpoints, flip, listVars, lockVars, flipVars,
                 op, cur, due, opsLeft, cont>>

\* Resume the other threads.
FlipLower(c) ==
  /\ pc[c] = "flipLower"
  /\ countLock = NoThread
  /\ Lower(c, todo[c])
  /\ todo' = [todo EXCEPT ![c] = {}]
  /\ resumeWaiters' = {}
  /\ Goto(c, "flipWait")
  /\ UNCHANGED <<state, barriers, passing, checkpoints, flip, listVars, lockVars, flipVars,
                 op, cur, due, opsLeft, cont>>

\* ConcurrentCopying::FlipThreadRoots waits at gc_barrier_ until every thread has
\* run its flip function.
FlipDone(c) ==
  /\ pc[c] = "flipWait"
  /\ due[c] = {}
  /\ op' = [op EXCEPT ![c] = "none"]
  /\ Goto(c, "native")
  /\ UNCHANGED <<threadVars, listVars, lockVars, flipVars, cur, todo, raised, due, opsLeft, cont>>
=============================================================================
