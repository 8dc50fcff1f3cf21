------------------------------ MODULE ThreadList ------------------------------
(***************************************************************************)
(* The thread list with all its operations running at once: threads attach *)
(* and detach (ThreadList::Register, Unregister), move between runnable    *)
(* and suspended states, and suspend, flip or checkpoint each other.       *)
(***************************************************************************)
EXTENDS ThreadFlip, Checkpoints, SuspendThread, SynchronousCheckpoint

Init ==
  /\ list \in (IF "Detach" \in Ops THEN SUBSET Threads ELSE {Threads})
  /\ state = [t \in Threads |-> "Suspended"]
  /\ flags = [t \in Threads |-> {}]
  /\ suspendCount = [t \in Threads |-> 0]
  /\ barriers = [t \in Threads |-> {}]
  /\ passing = [t \in Threads |-> {}]
  /\ checkpoints = [t \in Threads |-> <<>>]
  /\ flip = [t \in Threads |-> FALSE]
  /\ resumeWaiters = {}
  /\ suspendAllCount = 0
  /\ pending = [t \in Threads |-> 0]
  /\ listLock = NoThread /\ countLock = NoThread
  /\ mutatorOwner = NoThread /\ mutatorReaders = {}
  /\ flipRunning = FALSE
  /\ disableFlip = [t \in Threads |-> 0]
  /\ disableFlipCount = 0
  /\ flipWaiters = {}
  /\ op = [t \in Threads |-> "none"]
  /\ cur = [t \in Threads |-> NoThread]
  /\ todo = [t \in Threads |-> {}]
  /\ raised = [t \in Threads |-> {}]
  /\ due = [t \in Threads |-> {}]
  /\ opsLeft = MaxOps
  /\ pc = [t \in Threads |-> IF t \in list THEN "native" ELSE "detached"]
  /\ cont = [t \in Threads |-> "native"]

\* The callers of SuspendAllInternal that have raised the suspend counts of all
\* other threads and not yet begun to lower them.
SuspendingAll ==
  {c \in Threads : /\ op[c] \in {"SuspendAll", "FlipThreadRoots"}
                   /\ pc[c] \in {"saLoop", "saCheck", "saRetry", "saWait", "saExclusive",
                                 "saHeld", "raLock", "flipResume"}}

\* Mutant: suspend_all_count_ is ignored.
RegisterRunning(t) ==
  /\ pc[t] = "detached"
  /\ LocksFree
  /\ list' = list \cup {t}
  /\ Goto(t, "native")
  /\ UNCHANGED <<threadVars, suspendAllCount, pending, lockVars, flipVars, opVars, cont>>

\* ThreadList::Register: a new thread, not runnable, takes over the suspend
\* counts of the suspend-alls in progress.
Register(t) ==
  /\ pc[t] = "detached"
  /\ LocksFree
  /\ suspendCount' = [suspendCount EXCEPT ![t] = suspendAllCount]
  /\ flags' = [flags EXCEPT ![t] = IF suspendAllCount > 0 THEN {"SuspendRequest"} ELSE {}]
  /\ raised' = [c \in Threads |-> IF c \in SuspendingAll THEN raised[c] \cup {t} ELSE raised[c]]
  /\ list' = list \cup {t}
  /\ Goto(t, "native")
  /\ UNCHANGED <<state, barriers, passing, checkpoints, flip, resumeWaiters, suspendAllCount,
                 pending, lockVars, flipVars, op, cur, todo, due, opsLeft, cont>>

\* A thread detaches, outside any JNI critical section.
CallUnregister(t) ==
  /\ "Detach" \in Ops
  /\ pc[t] = "native" /\ opsLeft > 0
  /\ disableFlip[t] = 0
  /\ op' = [op EXCEPT ![t] = "Detach"]
  /\ opsLeft' = opsLeft - 1
  /\ Goto(t, "unregister")
  /\ UNCHANGED <<threadVars, listVars, lockVars, flipVars, cur, todo, raised, due, cont>>

\* Mutant: a suspend request does not delay the removal.
UnregisterAtOnce(t) ==
  /\ pc[t] = "unregister"
  /\ LocksFree
  /\ list' = list \ {t}
  /\ op' = [op EXCEPT ![t] = "none"]
  /\ Goto(t, "detached")
  /\ UNCHANGED <<threadVars, suspendAllCount, pending, lockVars, flipVars, cur, todo, raised, due,
                 opsLeft, cont>>

\* ThreadList::Unregister: retried until, under both locks, no suspend request
\* is pending; then the Thread is removed and deleted.
Unregister(t) ==
  /\ pc[t] = "unregister"
  /\ LocksFree
  /\ ~IsSuspended(t)
  /\ list' = list \ {t}
  /\ state' = [state EXCEPT ![t] = "Suspended"]
  /\ op' = [op EXCEPT ![t] = "none"]
  /\ Goto(t, "detached")
  /\ UNCHANGED <<flags, suspendCount, barriers, passing, checkpoints, flip, resumeWaiters,
                 suspendAllCount, pending, lockVars, flipVars, cur, todo, raised, due, opsLeft,
                 cont>>

-----------------------------------------------------------------------------

\* The steps a thread takes on its own initiative; nothing obliges it to.
Choice(t) ==
  \/ LeaveRunnable(t) \/ EnterRunnable(t) \/ SpuriousResume(t)
  \/ IncrementDisableThreadFlip(t)
  \/ Register(t) \/ CallUnregister(t)
  \/ CallSuspendAll(t) \/ CallFlipThreadRoots(t) \/ CallRunCheckpoint(t) \/ CallSuspendThread(t)
  \/ SuspendTimeout(t) \/ CallSynchronousCheckpoint(t)

\* The steps of the suspension protocol itself.
Progress(t) ==
  \/ FullSuspendCheck(t) \/ RunCheckpointFunction(t)
  \/ TransitionToSuspended(t) \/ PassLoopExit(t) \/ ClaimBarriers(t) \/ PassBarrier(t)
  \/ BecomeRunnable(t) \/ RunFlipFunction(t) \/ WaitForResume(t) \/ ResumeWaitExit(t)
  \/ SuspendAllBegin(t) \/ SuspendAllRaise(t) \/ SuspendAllRetry(t) \/ SuspendAllRaiseAgain(t)
  \/ SuspendAllCheck(t) \/ SuspendAllUnlock(t) \/ SuspendAllWait(t) \/ SuspendAllExclusive(t)
  \/ ResumeAllUnlock(t) \/ ResumeAll(t)
  \/ JniCriticalWait(t) \/ JniCriticalEnter(t) \/ DecrementDisableThreadFlip(t)
  \/ ThreadFlipBeginWait(t) \/ ThreadFlipBegin(t) \/ FlipCallback(t) \/ FlipResume(t)
  \/ ThreadFlipEnd(t) \/ FlipSharedLock(t) \/ FlipOther(t) \/ FlipSelf(t) \/ FlipLower(t)
  \/ FlipDone(t)
  \/ RunCheckpointBegin(t) \/ RequestCheckpoint(t) \/ RequestCheckpointFails(t)
  \/ KeepSuspended(t) \/ KeepSuspendedRetry(t) \/ RunCheckpointOnSelf(t)
  \/ RunCheckpointOnOther(t) \/ RunCheckpointLower(t) \/ RunCheckpointBroadcast(t)
  \/ RunCheckpointDone(t)
  \/ NoSuchThread(t) \/ BackOff(t) \/ RequestSuspend(t) \/ RequestSuspendRetry(t)
  \/ SuspendThreadAgain(t) \/ CheckSuspended(t) \/ Resume(t) \/ ResumeBroadcast(t)
  \/ SynchronousReturn(t) \/ SynchronousRequest(t) \/ SynchronousDone(t)
  \/ SynchronousRequestFails(t) \/ SynchronousRaise(t) \/ SynchronousSuspended(t)
  \/ SynchronousRun(t) \/ SynchronousBroadcast(t)
  \/ Unregister(t)

Next == \E t \in Threads : Choice(t) \/ Progress(t)

Spec == Init /\ [][Next]_vars

\* The scheduler and the locks are strongly fair to every thread's protocol
\* steps: a thread that can go on again and again does, no waiter is passed over
\* for ever by a lock, and suspend checks are polled.
Fairness == \A t \in Threads : SF_vars(Progress(t))

\* JNI critical sections end.
CriticalSectionsEnd ==
  \A t \in Threads :
    /\ SF_vars(disableFlip[t] > 0 /\ EnterRunnable(t))
    /\ SF_vars(DecrementDisableThreadFlip(t))
    /\ SF_vars(disableFlip[t] = 1 /\ DecrementDisableThreadFlip(t))

FairSpec == Spec /\ Fairness

FairJniSpec == FairSpec /\ CriticalSectionsEnd

-----------------------------------------------------------------------------
(* Properties                                                              *)

\* Every variable keeps the type its field has in the code.  A suspend count is
\* never lowered below zero (the fatal check of ModifySuspendCountInternal), nor
\* is a suspend barrier (the check of PassActiveSuspendBarriers).
TypeOK ==
  /\ state \in [Threads -> States]
  /\ flags \in [Threads -> SUBSET Flags]
  /\ suspendCount \in [Threads -> Nat]
  /\ barriers \in [Threads -> SUBSET Threads]
  /\ passing \in [Threads -> SUBSET Threads]
  /\ checkpoints \in [Threads -> Seq(Threads)]
  /\ flip \in [Threads -> BOOLEAN]
  /\ resumeWaiters \subseteq Threads
  /\ list \subseteq Threads
  /\ suspendAllCount \in Nat
  /\ pending \in [Threads -> Nat]
  /\ {listLock, countLock, mutatorOwner} \subseteq Threads \cup {NoThread}
  /\ mutatorReaders \subseteq Threads
  /\ flipRunning \in BOOLEAN
  /\ disableFlip \in [Threads -> Nat]
  /\ disableFlipCount \in Nat
  /\ flipWaiters \subseteq Threads
  /\ op \in [Threads -> OpNames \cup {"none"}]
  /\ cur \in [Threads -> Threads \cup {NoThread}]
  /\ todo \in [Threads -> SUBSET Threads]
  /\ raised \in [Threads -> SUBSET Threads]
  /\ due \in [Threads -> SUBSET Threads]
  /\ opsLeft \in Nat
  /\ pc \in [Threads -> Labels]
  /\ cont \in [Threads -> {"native", "toRunnable", "jniWait", "rcWait", "stHave", "scWait",
                          "scSpin"}]

\* What SuspendAll promises, and AssertThreadsAreSuspended checks in debug
\* builds: its caller has the mutator lock to itself and every other attached
\* thread is suspended, however many suspend, flip and attach operations overlap.
Exclusion ==
  \A c \in Threads : pc[c] = "saHeld" =>
    /\ mutatorOwner = c /\ mutatorReaders = {}
    /\ \A t \in list \ {c} : IsSuspended(t)

\* A thread whose stack another thread is visiting (the suspended threads of
\* RunCheckpoint and of FlipThreadRoots, the target of RequestSynchronousCheckpoint,
\* the result of SuspendThreadByThreadId) is suspended, and still attached, until
\* that thread has let go of it.
VisitedSuspended ==
  \A c \in Threads :
    /\ pc[c] \in {"rcLower", "stHave", "scRun"} \/ cont[c] = "stHave" =>
         IsSuspended(cur[c]) /\ cur[c] \in list
    /\ pc[c] \in {"flipEnd", "flipShared", "flipOthers", "flipLower"} =>
         \A t \in todo[c] : IsSuspended(t) /\ t \in list

\* The suspend request flag of a thread says whether its suspend count is
\* positive, and the count is the number of threads that have raised it and not
\* lowered it: no operation's increment is lost, lowered twice or lowered by
\* another, also when the thread attaches in the middle of it.
SuspendCountExact ==
  /\ \A t \in Threads :
       /\ "SuspendRequest" \in flags[t] <=> suspendCount[t] > 0
       /\ suspendCount[t] = Cardinality({c \in Threads : t \in raised[c]})
  /\ suspendAllCount = Cardinality(SuspendingAll)

\* pending_threads lives on the stack of SuspendAllInternal.  It counts exactly
\* the threads that have still to pass the barrier, and once its owner stops
\* waiting no thread has it installed or is about to decrement it.
BarrierExact ==
  \A c \in Threads :
    pending[c] = Cardinality(IF pc[c] \in {"saLoop", "saCheck", "saRetry"} THEN todo[c] ELSE {})
               + Cardinality({t \in Threads : c \in barriers[t]})
               + Cardinality({t \in Threads : c \in passing[t]})
    /\ (pc[c] \notin {"saLoop", "saCheck", "saRetry", "saWait"} => pending[c] = 0)

\* A checkpoint runs exactly once on every thread of the list: a thread on which
\* it has still to run is the caller, is yet to be asked, has it queued once, or
\* is kept suspended by the caller, and is only one of these.  So the closure may
\* live on the stack of the caller, which waits for all of them without a timeout.
CheckpointExactlyOnce ==
  \A c \in Threads : op[c] \in {"RunCheckpoint", "RequestSynchronousCheckpoint"} =>
    LET self == IF pc[c] \in {"rcLoop", "rcRaise", "rcRetry"} THEN {c} ELSE {}
        asking == IF pc[c] \in {"rcRaise", "rcRetry"} THEN todo[c] \cup {cur[c]} ELSE todo[c]
        queued == {t \in Threads : \E i \in DOMAIN checkpoints[t] : checkpoints[t][i] = c}
        kept == IF pc[c] = "rcLower" THEN raised[c] \ {cur[c]} ELSE raised[c]
    IN /\ due[c] = self \cup asking \cup queued \cup kept
       /\ Cardinality(due[c]) = Cardinality(self) + Cardinality(asking) + Cardinality(queued)
                                 + Cardinality(kept)
       /\ \A t \in queued : Cardinality({i \in DOMAIN checkpoints[t] : checkpoints[t][i] = c}) = 1

\* A thread runs its flip function before it touches the heap again; each is run
\* once for each flip, which waits for it before the collector starts another.
FlipBeforeManagedCode ==
  \A t \in Threads :
    /\ state[t] = "Runnable" /\ pc[t] # "runFlip" => ~flip[t]
    /\ flip[t] <=> \E c \in Threads : op[c] = "FlipThreadRoots" /\ t \in due[c]

\* On its way into the outermost JNI critical section.
EnteringCritical(t) == pc[t] = "jniWait" \/ cont[t] = "jniWait"

\* No thread is in a JNI critical section while the roots are flipped, and
\* disable_thread_flip_count_ counts the threads in one.
CriticalExcludesFlip ==
  LET critical == {t \in Threads : disableFlip[t] > 0 /\ ~EnteringCritical(t)}
  IN /\ disableFlipCount = Cardinality(critical)
     /\ \A c \in Threads :
          op[c] = "FlipThreadRoots" /\ critical # {} =>
            pc[c] \in {"flipBegin", "flipShared", "flipOthers", "flipLower", "flipWait"}

\* A thread that waits on resume_cond_ with nobody suspending it any more is
\* about to be notified, although four of the operations lower counts in one
\* critical section and broadcast in another, and a timed-out
\* SuspendThreadByThreadId does not broadcast at all.
ResumeNotLost ==
  \A t \in resumeWaiters : suspendCount[t] = 0 =>
    \E c \in Threads : pc[c] \in {"rcOthers", "rcLower", "stBroadcast", "scBroadcast"}

\* A thread that an operation still refers to has not been deleted.
ReferencedAttached ==
  \A c \in Threads : todo[c] \cup raised[c] \cup due[c] \subseteq list

\* Every operation ends: no cycle of threads waiting for each other to suspend,
\* and no missed notification, leaves one hanging.
OperationsTerminate ==
  \A c \in Threads : op[c] # "none" ~> op[c] = "none"

\* The comment in ModifySuspendCount: a refused request is retried, after letting
\* go of the suspend count lock "to avoid deadlock", until the target has passed
\* its barriers or run its flip function; so the retry ends.
RetryEnds ==
  \A c \in Threads : pc[c] \in {"saRetry", "rcRetry", "stRetry", "scRaise"} ~>
                     pc[c] \notin {"saRetry", "rcRetry", "stRetry", "scRaise"}

=============================================================================
