-------------------------- MODULE SuspensionProofs --------------------------
(***************************************************************************)
(* What the steps of the thread list keep, for any finite set of threads:  *)
(* the control, the suspend counts, the barriers, the threads that wait to *)
(* be resumed and the JNI critical sections.  ThreadListProofs concludes   *)
(* from it.                                                                *)
(*                                                                         *)
(* ControlInv says which labels a thread can be at in which state, with    *)
(* which locks and in which operation, and that only a runnable thread has *)
(* a checkpoint pending.  The first part shows that every family of steps  *)
(* keeps it, for the thread that takes the step: the transitions of a      *)
(* thread, SuspendAll and ResumeAll, FlipThreadRoots and JNI critical      *)
(* sections, RunCheckpoint, SuspendThreadByThreadId and                    *)
(* RequestSynchronousCheckpoint.                                           *)
(*                                                                         *)
(* SuspendCountExact is not inductive: that ResumeAll lowers the counts of *)
(* exactly the threads it raised depends on where each operation is in its *)
(* loops.  CountsInv adds to ControlInv whose counts each operation has    *)
(* raised at each of its labels (RaisedAt).  StopInv adds whose barriers   *)
(* are installed where (BarrierAt, PendingAt), and that a thread with a    *)
(* raised count has a barrier installed or has stopped (StoppedAt).        *)
(* ResumeInv adds that a waiter on resume_cond_ is in the wait loop, and   *)
(* CriticalInv that only one flip runs and where it excludes whom.         *)
(***************************************************************************)
EXTENDS ThreadList, TLAPS

\* The prover of every leaf that names none.
USE ZenonT(60)

-----------------------------------------------------------------------------
(* The inductive invariant                                                 *)

ContLabels == {"native", "toRunnable", "jniWait", "rcWait", "stHave", "scWait", "scSpin"}

\* The types of all variables but the counters.
ThreadType ==
  /\ state \in [Threads -> States]
  /\ flags \in [Threads -> SUBSET Flags]
  /\ barriers \in [Threads -> SUBSET Threads]
  /\ passing \in [Threads -> SUBSET Threads]
  /\ checkpoints \in [Threads -> Seq(Threads)]
  /\ flip \in [Threads -> BOOLEAN]
  /\ resumeWaiters \subseteq Threads

ListType ==
  /\ list \subseteq Threads
  /\ listLock \in Threads \cup {NoThread}
  /\ countLock \in Threads \cup {NoThread}
  /\ mutatorOwner \in Threads \cup {NoThread}
  /\ mutatorReaders \subseteq Threads
  /\ flipRunning \in BOOLEAN
  /\ flipWaiters \subseteq Threads

OpType ==
  /\ op \in [Threads -> OpNames \cup {"none"}]
  /\ cur \in [Threads -> Threads \cup {NoThread}]
  /\ todo \in [Threads -> SUBSET Threads]
  /\ raised \in [Threads -> SUBSET Threads]
  /\ due \in [Threads -> SUBSET Threads]
  /\ pc \in [Threads -> Labels]
  /\ cont \in [Threads -> ContLabels]

TypeInv == ThreadType /\ ListType /\ OpType

\* A thread is runnable at these labels ...
RunnableLabels == {"running", "toSuspended", "runFlip", "stLock", "stRetry", "stCheck",
                   "scLock", "scRaise", "scRun", "scBroadcast"}

\* ... and may be at these, as RunCheckpoint is also called by runnable threads.
CheckpointLabels == {"rcLock", "rcLoop", "rcRaise", "rcRetry", "rcOthers", "rcLower"}

StateAt(t) ==
  /\ pc[t] \in RunnableLabels => state[t] = "Runnable"
  /\ state[t] = "Runnable" => pc[t] \in RunnableLabels \cup CheckpointLabels

\* Who holds thread_list_lock_ and thread_suspend_count_lock_ between steps.
ListLockLabels ==
  {"saLoop", "saCheck", "saRetry", "rcLoop", "rcRaise", "rcRetry", "stRetry", "stCheck",
   "scRaise", "scBroadcast"}

CountLockLabels == {"saLoop", "saCheck", "rcLoop", "rcRaise", "stCheck"}

LockAt(t) ==
  /\ listLock = t <=> pc[t] \in ListLockLabels
  /\ countLock = t <=> pc[t] \in CountLockLabels
  /\ mutatorOwner = t <=> pc[t] = "saHeld"

\* Nobody shares the mutator lock while a thread holds it exclusively.
MutatorInv == mutatorOwner # NoThread => mutatorReaders = {}

\* On the way from runnable to suspended; only there cont matters.
LeavingLabels == {"toSuspended", "passLoop", "passSuspended"}

SuspendAllLabels == {"saLock", "saLoop", "saCheck", "saRetry", "saWait", "saExclusive", "saHeld"}

FlipLabels ==
  {"flipBegin", "flipResume", "flipEnd", "flipShared", "flipOthers", "flipLower", "flipWait"}

SynchronousLabels == {"scLock", "scRaise", "scWait", "scSpin", "scRun", "scBroadcast"}

\* On the way from suspended to runnable.
ResumingLabels == {"toRunnable", "resumeWait", "passRunnable", "runFlip"}

\* The operation a thread is in, at each label.
OpAt(t) ==
  /\ pc[t] \in {"detached", "native", "running", "jniWait"} => op[t] = "none"
  /\ pc[t] = "unregister" => op[t] = "Detach"
  /\ pc[t] \in SuspendAllLabels => op[t] \in {"SuspendAll", "FlipThreadRoots"}
  /\ pc[t] = "raLock" => op[t] = "SuspendAll"
  /\ pc[t] \in FlipLabels => op[t] = "FlipThreadRoots"
  /\ pc[t] \in CheckpointLabels \cup {"rcWait"} => op[t] = "RunCheckpoint"
  /\ pc[t] \in {"stLock", "stRetry", "stCheck", "stHave", "stBroadcast"} =>
       op[t] = "SuspendThreadByThreadId"
  /\ pc[t] \in SynchronousLabels => op[t] = "RequestSynchronousCheckpoint"
  /\ pc[t] \in ResumingLabels =>
       op[t] \in {"none", "SuspendThreadByThreadId", "RequestSynchronousCheckpoint"}
  /\ pc[t] \in LeavingLabels =>
       /\ cont[t] \in {"native", "jniWait"} => op[t] = "none"
       /\ cont[t] = "toRunnable" => op[t] \in {"none", "SuspendThreadByThreadId"}
       /\ cont[t] = "rcWait" => op[t] = "RunCheckpoint"
       /\ cont[t] = "stHave" => op[t] = "SuspendThreadByThreadId"
       /\ cont[t] \in {"scWait", "scSpin"} => op[t] = "RequestSynchronousCheckpoint"
  /\ pc[t] \notin LeavingLabels => cont[t] = "native"

\* An operation that is working on a thread knows which.
CurAt(t) ==
  /\ pc[t] \in {"saCheck", "saRetry", "rcRaise", "rcRetry", "rcLower", "scRaise"} =>
       cur[t] \in Threads
  /\ op[t] = "SuspendThreadByThreadId" /\ pc[t] # "stBroadcast" => cur[t] \in Threads
  /\ op[t] = "RequestSynchronousCheckpoint" => cur[t] \in Threads

LocalInv(t) == StateAt(t) /\ LockAt(t) /\ OpAt(t) /\ CurAt(t)

ControlInv ==
  /\ TypeInv
  /\ \A t \in Threads : LocalInv(t)
  /\ MutatorInv
  /\ CheckpointOnlyWhenRunnable

-----------------------------------------------------------------------------
(* A step of one thread                                                    *)

\* A step of t leaves the control of every other thread alone.
KeepsLock(u) ==
  /\ listLock' = u <=> listLock = u
  /\ countLock' = u <=> countLock = u
  /\ mutatorOwner' = u <=> mutatorOwner = u

Frame(t) ==
  /\ state' = [state EXCEPT ![t] = state'[t]]
  /\ pc' = [pc EXCEPT ![t] = pc'[t]]
  /\ cont' = [cont EXCEPT ![t] = cont'[t]]
  /\ op' = [op EXCEPT ![t] = op'[t]]
  /\ cur' = [cur EXCEPT ![t] = cur'[t]]
  /\ \A u \in Threads \ {t} : KeepsLock(u)

\* What such a step has to establish ...
ControlStep(t) ==
  /\ TypeInv' /\ CheckpointOnlyWhenRunnable'
  /\ Frame(t) /\ LocalInv(t)' /\ MutatorInv'

\* ... to keep the invariant.
LEMMA ControlKept ==
  ASSUME ControlInv, NEW t \in Threads, ControlStep(t)
  PROVE  ControlInv'
  <1>1. ASSUME NEW u \in Threads, u # t
        PROVE  LocalInv(u)'
    <2>1. LocalInv(u)
      BY SMT DEF ControlInv
    <2>2. /\ state'[u] = state[u] /\ pc'[u] = pc[u] /\ cont'[u] = cont[u]
          /\ op'[u] = op[u] /\ cur'[u] = cur[u]
          /\ KeepsLock(u)
      BY <1>1, SMT DEF ControlStep, Frame, ControlInv, TypeInv, ThreadType, OpType
    <2> QED
      BY <2>1, <2>2 DEF LocalInv, StateAt, LockAt, OpAt, CurAt, KeepsLock
  <1> QED
    BY <1>1, SMT DEF ControlInv, ControlStep

-----------------------------------------------------------------------------
(* Sequences                                                               *)

\* A queue that something is appended to is not empty.
LEMMA AppendIsNotEmpty ==
  ASSUME NEW s \in Seq(Threads), NEW t \in Threads
  PROVE  Append(s, t) # <<>>
  <1>1. Len(Append(s, t)) = Len(s) + 1 /\ Len(s) \in Nat
    BY SMT
  <1>2. Len(<<>>) = 0
    BY SMT
  <1> QED
    BY <1>1, <1>2, SMT

\* The rest of a queue is empty if it has one element.
LEMMA TailIsEmpty ==
  ASSUME NEW s \in Seq(Threads), s # <<>>
  PROVE  Tail(s) # <<>> <=> Len(s) # 1
  <1>1. Len(s) \in Nat /\ Len(s) # 0
    BY SMT
  <1>2. Tail(s) \in Seq(Threads) /\ Len(Tail(s)) = Len(s) - 1
    BY <1>1, SMT
  <1>3. \A r \in Seq(Threads) : r = <<>> <=> Len(r) = 0
    BY SMT
  <1>4. Tail(s) = <<>> <=> Len(Tail(s)) = 0
    BY <1>2, <1>3, Zenon
  <1>5. Len(s) - 1 = 0 <=> Len(s) = 1
    BY <1>1, SMT
  <1> QED
    BY <1>2, <1>4, <1>5, Zenon

-----------------------------------------------------------------------------
(* Types                                                                   *)

\* What ModifySuspendCountInternal(+1) leaves behind has the right type.
LEMMA RaiseType ==
  ASSUME TypeInv, NEW c \in Threads, NEW t \in Threads, NEW b \in BOOLEAN, Raise(c, t, b)
  PROVE  /\ flags' \in [Threads -> SUBSET Flags]
         /\ barriers' \in [Threads -> SUBSET Threads]
         /\ raised' \in [Threads -> SUBSET Threads]
  <1> USE DEF TypeInv, ThreadType, OpType, Raise
  <1>1. flags' \in [Threads -> SUBSET Flags]
    BY DEF Flags
  <1>2. barriers' \in [Threads -> SUBSET Threads]
    BY SMT
  <1>3. raised' \in [Threads -> SUBSET Threads]
    BY SMT
  <1> QED
    BY <1>1, <1>2, <1>3, SMT

\* So does what ModifySuspendCountInternal(-1) leaves behind.
LEMMA LowerType ==
  ASSUME TypeInv, NEW c \in Threads, NEW ts \in SUBSET Threads, Lower(c, ts)
  PROVE  /\ flags' \in [Threads -> SUBSET Flags]
         /\ raised' \in [Threads -> SUBSET Threads]
  BY SMT DEF TypeInv, ThreadType, OpType, Lower

-----------------------------------------------------------------------------
(* What an operation has raised                                            *)

\* Where SuspendAllInternal is in its loop, where its caller has raised every other
\* thread's count, and where FlipThreadRoots has lowered the runnable ones' again.
InLoop(c) == pc[c] \in {"saLoop", "saCheck", "saRetry"}
HasAll(c) == pc[c] \in {"saWait", "saExclusive", "saHeld", "raLock", "flipResume"}
HasTodo(c) == pc[c] \in {"flipEnd", "flipShared", "flipOthers", "flipLower"}

\* Whose counts an operation has raised, at each label.
RaisedAt(c) ==
  /\ c \notin raised[c] /\ raised[c] \subseteq list
  /\ c \notin todo[c] /\ todo[c] \subseteq list
  /\ c \in list <=> pc[c] # "detached"
  /\ InLoop(c) => raised[c] = (list \ {c}) \ todo[c]
  /\ pc[c] = "saCheck" => cur[c] \in raised[c]
  /\ pc[c] = "saRetry" => cur[c] \in todo[c]
  /\ HasAll(c) => raised[c] = list \ {c}
  /\ HasTodo(c) => raised[c] = todo[c]
  /\ pc[c] \in {"rcLoop", "rcRaise", "rcRetry"} => raised[c] \cap todo[c] = {}
  /\ pc[c] \in {"rcRaise", "rcRetry"} => cur[c] \in (list \ {c}) \ (raised[c] \cup todo[c])
  /\ pc[c] = "rcLower" => cur[c] \in raised[c]
  /\ op[c] = "SuspendThreadByThreadId" => raised[c] \subseteq {cur[c]} /\ cur[c] # c
  /\ pc[c] \in {"stCheck", "stHave"} \/ cont[c] = "stHave" => raised[c] = {cur[c]}
  /\ pc[c] = "stRetry" => raised[c] = {} /\ cur[c] \in list
  /\ \/ pc[c] \in {"scSpin", "scRun"} \/ cont[c] = "scSpin"
     \/ op[c] = "RequestSynchronousCheckpoint" /\ pc[c] \in ResumingLabels
     => raised[c] = {cur[c]}
  /\ pc[c] = "scRaise" => cur[c] \in list \ {c}
  /\ \/ op[c] \in {"none", "Detach"}
     \/ pc[c] \in {"saLock", "flipBegin", "flipWait", "rcLock", "rcWait", "stBroadcast",
                   "scLock", "scRaise", "scWait", "scBroadcast"}
     \/ cont[c] \in {"rcWait", "scWait"}
     => raised[c] = {}
  /\ todo[c] # {} => InLoop(c) \/ HasTodo(c) \/ pc[c] \in {"rcLoop", "rcRaise", "rcRetry"}

\* The callers in SuspendAllInternal or between it and ResumeAll.
Suspending(c) == InLoop(c) \/ HasAll(c)

\* A step leaves what the other threads' operations hold alone, ...
RaisedFrame(t) ==
  /\ list' = list
  /\ raised' = [raised EXCEPT ![t] = raised'[t]]
  /\ todo' = [todo EXCEPT ![t] = todo'[t]]

\* ... suspend_all_count_ follows its own, ...
AllStep(t) ==
  \/ suspendAllCount' = suspendAllCount /\ (Suspending(t)' <=> Suspending(t))
  \/ suspendAllCount' = suspendAllCount + 1 /\ ~Suspending(t) /\ Suspending(t)'
  \/ suspendAllCount' = suspendAllCount - 1 /\ Suspending(t) /\ ~Suspending(t)'

\* ... and it raises a count the operation has not raised, or lowers some that it
\* has, or changes none.
SameCounts ==
  /\ UNCHANGED <<suspendCount, raised>>
  /\ \A u \in Threads : "SuspendRequest" \in flags'[u] <=> "SuspendRequest" \in flags[u]

CountStep(t) ==
  \/ SameCounts
  \/ \E u \in Threads, b \in BOOLEAN : u \notin raised[t] /\ Raise(t, u, b)
  \/ \E ts \in SUBSET Threads : ts \subseteq raised[t] /\ Lower(t, ts)

\* What a step does not touch stays right.
LEMMA RaisedSame ==
  ASSUME NEW c \in Threads, RaisedAt(c),
         pc'[c] = pc[c], cont'[c] = cont[c], op'[c] = op[c], cur'[c] = cur[c],
         todo'[c] = todo[c], raised'[c] = raised[c], list' = list
  PROVE  RaisedAt(c)'
  BY SMT, ZenonT(60) DEF RaisedAt, InLoop, HasAll, HasTodo

\* In the loop of SuspendAllInternal every other thread is raised or still to do.
LEMMA RaisedInLoop ==
  ASSUME NEW c \in Threads, InLoop(c)', cont'[c] = "native",
         op'[c] \in {"SuspendAll", "FlipThreadRoots"}, c \in list', c \notin todo'[c],
         todo'[c] \subseteq list', raised'[c] = (list' \ {c}) \ todo'[c],
         pc'[c] = "saCheck" => cur'[c] \in raised'[c],
         pc'[c] = "saRetry" => cur'[c] \in todo'[c]
  PROVE  RaisedAt(c)'
  BY DEF RaisedAt, InLoop, HasAll, HasTodo

\* Steps that change no suspend count and no suspend request.
LEMMA CountSame ==
  ASSUME NEW t \in Threads, UNCHANGED <<suspendCount, raised>>,
         \A u \in Threads : "SuspendRequest" \in flags'[u] <=> "SuspendRequest" \in flags[u]
  PROVE  CountStep(t)
  BY Zenon DEF CountStep, SameCounts

\* ModifySuspendCountInternal(+1).
LEMMA CountRaise ==
  ASSUME NEW t \in Threads, NEW u \in Threads, NEW b \in BOOLEAN, u \notin raised[t],
         Raise(t, u, b)
  PROVE  CountStep(t)
  BY Zenon DEF CountStep

\* ModifySuspendCountInternal(-1).
LEMMA CountLower ==
  ASSUME NEW t \in Threads, NEW ts \in SUBSET Threads, ts \subseteq raised[t], Lower(t, ts)
  PROVE  CountStep(t)
  BY Zenon DEF CountStep

-----------------------------------------------------------------------------
(* Suspend barriers                                                        *)

\* The callers of SuspendAllInternal whose pending_threads is in use, and the
\* threads each has still to ask.
Waits(c) == InLoop(c) \/ pc[c] = "saWait"
Unasked(c) == IF InLoop(c) THEN todo[c] ELSE {}

\* The barriers installed in a thread, or claimed by it, are those of callers that
\* have raised its count and wait for it.
BarrierAt(t) ==
  /\ "ActiveSuspendBarrier" \in flags[t] <=> barriers[t] # {}
  /\ passing[t] # {} => pc[t] \in {"passSuspended", "passRunnable"}
  /\ barriers[t] \cap passing[t] = {}
  /\ \A c \in barriers[t] \cup passing[t] : Waits(c) /\ t \in raised[c]

\* A thread whose count a SuspendAllInternal has raised has its barrier installed or
\* has stopped, and so has the one thread another operation has got hold of.  The
\* barrier just installed is there until it has been looked at.
StoppedAt(c) ==
  /\ InLoop(c) \/ HasAll(c) \/ HasTodo(c) =>
       \A t \in raised[c] : c \in barriers[t] \/ state[t] # "Runnable"
  /\ \/ pc[c] \in {"rcLower", "stHave", "scRun"} \/ cont[c] = "stHave"
     \/ op[c] = "RequestSynchronousCheckpoint" /\ pc[c] \in ResumingLabels
     => state[cur[c]] # "Runnable"
  /\ pc[c] = "saCheck" => c \in barriers[cur[c]]

\* A step that leaves all barriers, and who waits for whom, alone.
SameBarriers(t) ==
  /\ UNCHANGED <<barriers, passing, pending>>
  /\ \A u \in Threads :
       "ActiveSuspendBarrier" \in flags'[u] <=> "ActiveSuspendBarrier" \in flags[u]
  /\ Waits(t)' <=> Waits(t)
  /\ Waits(t) => raised'[t] = raised[t]
  /\ Unasked(t)' = Unasked(t)
  /\ pc[t] \in {"passSuspended", "passRunnable"} => pc'[t] = pc[t]

\* A thread becomes runnable only with no flag set, and takes out of a thread no
\* barrier but its own, or all of them as it stops itself.
Claims(t, u) == u = t /\ state'[t] # "Runnable" /\ countLock = NoThread

StopsStay(t) ==
  /\ state'[t] = "Runnable" => state[t] = "Runnable" \/ flags[t] = {}
  /\ \A u \in Threads : barriers[u] \ {t} \subseteq barriers'[u] \/ Claims(t, u)

\* What a step does to the operation of the thread that takes it, and to what it has
\* raised and stopped.
OperationStep(t) ==
  /\ RaisedFrame(t) /\ AllStep(t) /\ CountStep(t) /\ StopsStay(t)
  /\ RaisedAt(t)' /\ StoppedAt(t)'

-----------------------------------------------------------------------------
(* Own transitions                                                         *)

TransitionStep(t) ==
  \/ LeaveRunnable(t) \/ EnterRunnable(t) \/ SpuriousResume(t) \/ FullSuspendCheck(t)
  \/ RunCheckpointFunction(t) \/ TransitionToSuspended(t) \/ PassLoopExit(t)
  \/ ClaimBarriers(t) \/ PassBarrier(t) \/ BecomeRunnable(t) \/ RunFlipFunction(t)
  \/ WaitForResume(t) \/ ResumeWaitExit(t)

\* A thread's own transitions keep the control invariant.
LEMMA TransitionKeepsControl ==
  ASSUME TypeInv, CheckpointOnlyWhenRunnable, MutatorInv, NEW t \in Threads,
         StateAt(t), LockAt(t), OpAt(t), CurAt(t), TransitionStep(t)
  PROVE  ControlStep(t)
  <1>1. TypeInv'
    <2> USE DEF TypeInv, ThreadType, ListType, OpType, Labels, ContLabels, States, Flags, OpNames,
           Goto, threadVars, listVars, lockVars, flipVars, opVars
    <2>1. CASE LeaveRunnable(t)
      BY <2>1, Zenon DEF LeaveRunnable
    <2>2. CASE EnterRunnable(t)
      BY <2>2, Zenon DEF EnterRunnable
    <2>3. CASE SpuriousResume(t)
      BY <2>3, Zenon DEF SpuriousResume
    <2>4. CASE FullSuspendCheck(t)
      BY <2>4, Zenon DEF FullSuspendCheck
    <2>5. CASE RunCheckpointFunction(t)
      <3>1. checkpoints[t] \in Seq(Threads) /\ checkpoints[t] # <<>>
        BY <2>5 DEF RunCheckpointFunction, CheckpointOnlyWhenRunnable
      <3>2. checkpoints' \in [Threads -> Seq(Threads)]
        BY <2>5, <3>1, SMT DEF RunCheckpointFunction
      <3>3. flags' \in [Threads -> SUBSET Flags]
        BY <2>5 DEF RunCheckpointFunction
      <3>4. due' \in [Threads -> SUBSET Threads]
        BY <2>5, Zenon DEF RunCheckpointFunction
      <3> QED
        BY <2>5, <3>2, <3>3, <3>4, Zenon DEF RunCheckpointFunction
    <2>6. CASE TransitionToSuspended(t)
      BY <2>6, Zenon DEF TransitionToSuspended
    <2>7. CASE PassLoopExit(t)
      BY <2>7, Zenon DEF PassLoopExit
    <2>8. CASE ClaimBarriers(t)
      BY <2>8 DEF ClaimBarriers
    <2>9. CASE BecomeRunnable(t)
      BY <2>9, Zenon DEF BecomeRunnable
    <2>10. CASE PassBarrier(t)
      <3>1. PICK c \in passing[t] : passing' = [passing EXCEPT ![t] = @ \ {c}]
        BY <2>10, Zenon DEF PassBarrier
      <3>2. pc' \in [Threads -> Labels]
        <4>1. \/ pc' = pc
              \/ pc' = [pc EXCEPT ![t] = "passLoop"]
              \/ pc' = [pc EXCEPT ![t] = "toRunnable"]
          BY <2>10 DEF PassBarrier
        <4>2. CASE pc' = pc
          BY <4>2
        <4>3. CASE pc' = [pc EXCEPT ![t] = "passLoop"]
          BY <4>3
        <4>4. CASE pc' = [pc EXCEPT ![t] = "toRunnable"]
          BY <4>4
        <4> QED
          BY <4>1, <4>2, <4>3, <4>4, Zenon
      <3> QED
        BY <2>10, <3>1, <3>2 DEF PassBarrier
    <2>11. CASE RunFlipFunction(t)
      BY <2>11, Zenon DEF RunFlipFunction, RunnableLabel, TakeFlipFunction
    <2>12. CASE WaitForResume(t)
      BY <2>12, Zenon DEF WaitForResume
    <2>13. CASE ResumeWaitExit(t)
      BY <2>13, Zenon DEF ResumeWaitExit
    <2> QED
      BY <2>1, <2>2, <2>3, <2>4, <2>5, <2>6, <2>7, <2>8, <2>10, <2>9, <2>11, <2>12, <2>13,
        Zenon DEF TransitionStep
  <1>2. CheckpointOnlyWhenRunnable'
    <2> /\ state \in [Threads -> States]
        /\ flags \in [Threads -> SUBSET Flags]
        /\ checkpoints \in [Threads -> Seq(Threads)]
        /\ todo \in [Threads -> SUBSET Threads]
        /\ pc \in [Threads -> Labels]
      BY SMT DEF TypeInv, ThreadType, OpType
    <2> USE DEF CheckpointOnlyWhenRunnable, threadVars
    <2>1. CASE LeaveRunnable(t) \/ EnterRunnable(t) \/ SpuriousResume(t) \/ FullSuspendCheck(t)
      BY <2>1, ZenonT(30) DEF LeaveRunnable, EnterRunnable, SpuriousResume, FullSuspendCheck
    <2>2. CASE RunCheckpointFunction(t)
      <3> DEFINE s == checkpoints[t]
      <3>1. s \in Seq(Threads) /\ s # <<>>
        BY <2>2 DEF RunCheckpointFunction
      <3>2. Tail(s) # <<>> <=> Len(s) # 1
        BY <3>1, TailIsEmpty, Zenon
      <3>3. /\ checkpoints' = [checkpoints EXCEPT ![t] = Tail(s)]
            /\ flags' = [flags EXCEPT ![t] = IF Len(s) = 1 THEN @ \ {"CheckpointRequest"} ELSE @]
            /\ state' = state
        BY <2>2, SMT DEF RunCheckpointFunction
      <3> HIDE DEF s
      <3> QED
        BY <2>2, <3>2, <3>3, SMTT(60) DEF RunCheckpointFunction
    <2>3. CASE TransitionToSuspended(t) \/ PassLoopExit(t)
      BY <2>3, ZenonT(30) DEF TransitionToSuspended, PassLoopExit
    <2>4. CASE ClaimBarriers(t)
      BY <2>4, Zenon DEF ClaimBarriers
    <2>5. CASE PassBarrier(t)
      BY <2>5, Zenon DEF PassBarrier
    <2>6. CASE BecomeRunnable(t) \/ RunFlipFunction(t) \/ WaitForResume(t) \/ ResumeWaitExit(t)
      BY <2>6, ZenonT(30) DEF BecomeRunnable, RunFlipFunction, RunnableLabel, WaitForResume,
        ResumeWaitExit
    <2> QED
      BY <2>1, <2>2, <2>3, <2>4, <2>5, <2>6, Zenon DEF TransitionStep
  <1>3. Frame(t)
    <2> /\ state \in [Threads -> States]
        /\ op \in [Threads -> OpNames \cup {"none"}]
        /\ cur \in [Threads -> Threads \cup {NoThread}]
        /\ pc \in [Threads -> Labels]
        /\ cont \in [Threads -> ContLabels]
      BY SMT DEF TypeInv, ThreadType, OpType
    <2> USE ThreadsAssumption
        DEF Frame, KeepsLock, LockAt, ListLockLabels, CountLockLabels, LocksFree, Goto, threadVars,
            lockVars, opVars
    <2>1. CASE LeaveRunnable(t) \/ EnterRunnable(t) \/ SpuriousResume(t) \/ FullSuspendCheck(t)
      BY <2>1, ZenonT(30) DEF LeaveRunnable, EnterRunnable, SpuriousResume, FullSuspendCheck
    <2>2. CASE \/ RunCheckpointFunction(t) \/ TransitionToSuspended(t) \/ PassLoopExit(t)
               \/ ClaimBarriers(t)
      BY <2>2, ZenonT(30) DEF RunCheckpointFunction, TransitionToSuspended, PassLoopExit,
        ClaimBarriers
    <2>3. CASE PassBarrier(t) \/ BecomeRunnable(t) \/ RunFlipFunction(t) \/ WaitForResume(t)
      BY <2>3, ZenonT(30) DEF PassBarrier, BecomeRunnable, RunFlipFunction, RunnableLabel,
        WaitForResume
    <2>4. CASE ResumeWaitExit(t)
      BY <2>4, Zenon DEF ResumeWaitExit
    <2> QED
      BY <2>1, <2>2, <2>3, <2>4, Zenon DEF TransitionStep
  <1>4. LocalInv(t)' /\ MutatorInv'
    <2> /\ state \in [Threads -> States]
        /\ op \in [Threads -> OpNames \cup {"none"}]
        /\ cur \in [Threads -> Threads \cup {NoThread}]
        /\ todo \in [Threads -> SUBSET Threads]
        /\ raised \in [Threads -> SUBSET Threads]
        /\ pc \in [Threads -> Labels]
        /\ cont \in [Threads -> ContLabels]
      BY SMT DEF TypeInv, ThreadType, OpType
    <2> USE ThreadsAssumption
        DEF LocalInv, StateAt, LockAt, OpAt, CurAt, MutatorInv, ListLockLabels, CountLockLabels,
            LocksFree, LeavingLabels, SuspendAllLabels, FlipLabels, CheckpointLabels,
            SynchronousLabels, ResumingLabels, RunnableLabels, ContLabels, Goto, threadVars,
            lockVars, opVars
    <2>1. CASE LeaveRunnable(t)
      BY <2>1, Zenon DEF LeaveRunnable
    <2>2. CASE EnterRunnable(t)
      BY <2>2, Zenon DEF EnterRunnable
    <2>3. CASE FullSuspendCheck(t)
      BY <2>3, Zenon DEF FullSuspendCheck
    <2>4. CASE RunCheckpointFunction(t)
      BY <2>4, Zenon DEF RunCheckpointFunction
    <2>5. CASE SpuriousResume(t) \/ PassBarrier(t)
      <3>1. CASE SpuriousResume(t)
        BY <3>1 DEF SpuriousResume
      <3>2. CASE PassBarrier(t)
        BY <3>2, SMT DEF PassBarrier
      <3> QED
        BY <2>5, <3>1, <3>2, Zenon
    <2>6. CASE TransitionToSuspended(t)
      BY <2>6, Zenon DEF TransitionToSuspended
    <2>7. CASE PassLoopExit(t)
      BY <2>7 DEF PassLoopExit
    <2>8. CASE ClaimBarriers(t)
      BY <2>8, Zenon DEF ClaimBarriers
    <2>9. CASE BecomeRunnable(t)
      BY <2>9, Zenon DEF BecomeRunnable
    <2>10. CASE RunFlipFunction(t)
      BY <2>10 DEF RunFlipFunction, RunnableLabel
    <2>11. CASE WaitForResume(t)
      BY <2>11, Zenon DEF WaitForResume
    <2>12. CASE ResumeWaitExit(t)
      BY <2>12, Zenon DEF ResumeWaitExit
    <2> QED
      BY <2>1, <2>2, <2>5, <2>3, <2>4, <2>6, <2>7, <2>8, <2>9, <2>10, <2>11, <2>12, Zenon DEF
        TransitionStep
  <1> QED
    BY <1>1, <1>2, <1>3, <1>4, Zenon DEF ControlStep

\* What a thread's own transitions do to the operations, counts and barriers: they
\* claim the thread's barriers and count them down.
LEMMA TransitionKeepsStops ==
  ASSUME TypeInv, NEW t \in Threads, StateAt(t), OpAt(t), CurAt(t), RaisedAt(t), StoppedAt(t),
         TransitionStep(t)
  PROVE  /\ OperationStep(t)
         /\ SameBarriers(t) \/ ClaimBarriers(t) \/ PassBarrier(t)
  <1>1. RaisedFrame(t) /\ AllStep(t)
    <2> /\ raised \in [Threads -> SUBSET Threads]
        /\ todo \in [Threads -> SUBSET Threads]
        /\ pc \in [Threads -> Labels]
        /\ cont \in [Threads -> ContLabels]
      BY SMT DEF TypeInv, OpType
    <2> USE DEF RaisedFrame, AllStep, Suspending, InLoop, HasAll, Goto, opVars, listVars
    <2>1. CASE LeaveRunnable(t) \/ EnterRunnable(t) \/ SpuriousResume(t) \/ FullSuspendCheck(t)
      BY <2>1, ZenonT(30) DEF LeaveRunnable, EnterRunnable, SpuriousResume, FullSuspendCheck
    <2>2. CASE RunCheckpointFunction(t) \/ TransitionToSuspended(t)
      BY <2>2, ZenonT(30) DEF RunCheckpointFunction, TransitionToSuspended
    <2>3. CASE ClaimBarriers(t) \/ PassBarrier(t)
      BY <2>3, ZenonT(30) DEF ClaimBarriers, PassBarrier
    <2>4. CASE PassLoopExit(t)
      BY <2>4, SMT DEF PassLoopExit, ContLabels
    <2>5. CASE BecomeRunnable(t) \/ RunFlipFunction(t) \/ WaitForResume(t) \/ ResumeWaitExit(t)
      BY <2>5, ZenonT(30) DEF BecomeRunnable, RunFlipFunction, RunnableLabel, WaitForResume,
        ResumeWaitExit
    <2> QED
      BY <2>1, <2>2, <2>4, <2>3, <2>5, Zenon DEF TransitionStep
  <1>2. RaisedAt(t)'
    <2> /\ list \subseteq Threads
        /\ op \in [Threads -> OpNames \cup {"none"}]
        /\ cur \in [Threads -> Threads \cup {NoThread}]
        /\ todo \in [Threads -> SUBSET Threads]
        /\ raised \in [Threads -> SUBSET Threads]
        /\ pc \in [Threads -> Labels]
        /\ cont \in [Threads -> ContLabels]
      BY SMT DEF TypeInv, OpType, ListType
    <2>0. ASSUME UNCHANGED <<list, op, cur, todo, raised, pc, cont>>
          PROVE  RaisedAt(t)'
      BY <2>0, RaisedSame
    <2> USE DEF RaisedAt, InLoop, HasAll, HasTodo, OpAt, LeavingLabels, SuspendAllLabels,
           FlipLabels, CheckpointLabels, SynchronousLabels, ResumingLabels, Goto, opVars, listVars
    <2>1. CASE LeaveRunnable(t)
      BY <2>1 DEF LeaveRunnable
    <2>2. CASE EnterRunnable(t)
      BY <2>2, Zenon DEF EnterRunnable
    <2>3. CASE FullSuspendCheck(t)
      BY <2>3, Zenon DEF FullSuspendCheck
    <2>4. CASE RunCheckpointFunction(t)
      BY <2>4 DEF RunCheckpointFunction
    <2>5. CASE SpuriousResume(t) \/ PassLoopExit(t) \/ PassBarrier(t)
      <3>1. CASE SpuriousResume(t)
        BY <2>0, <3>1 DEF SpuriousResume
      <3>2. CASE PassLoopExit(t)
        BY <3>2 DEF PassLoopExit, ContLabels
      <3>3. CASE PassBarrier(t)
        <4>1. /\ UNCHANGED <<list, op, cur, todo, raised, cont>>
              /\ \/ pc' = pc
                 \/ pc[t] = "passSuspended" /\ pc'[t] = "passLoop"
                 \/ pc[t] = "passRunnable" /\ pc'[t] = "toRunnable"
          BY <3>3 DEF PassBarrier
        <4>2. CASE pc' = pc
          BY <2>0, <4>1, <4>2
        <4>3. CASE pc' # pc
          BY <4>1, <4>3
        <4> QED
          BY <4>2, <4>3, Zenon
      <3> QED
        BY <2>5, <3>1, <3>2, <3>3, Zenon
    <2>6. CASE TransitionToSuspended(t)
      BY <2>6 DEF TransitionToSuspended
    <2>7. CASE ClaimBarriers(t)
      BY <2>7 DEF ClaimBarriers
    <2>8. CASE BecomeRunnable(t)
      BY <2>8 DEF BecomeRunnable
    <2>9. CASE RunFlipFunction(t)
      BY <2>9 DEF RunFlipFunction, RunnableLabel
    <2>10. CASE WaitForResume(t)
      BY <2>10 DEF WaitForResume
    <2>11. CASE ResumeWaitExit(t)
      BY <2>11 DEF ResumeWaitExit
    <2> QED
      BY <2>1, <2>2, <2>5, <2>3, <2>4, <2>6, <2>7, <2>8, <2>9, <2>10, <2>11, Zenon DEF
        TransitionStep
  <1>3. CountStep(t)
    <2> /\ flags \in [Threads -> SUBSET Flags]
        /\ list \subseteq Threads
        /\ op \in [Threads -> OpNames \cup {"none"}]
        /\ cur \in [Threads -> Threads \cup {NoThread}]
        /\ todo \in [Threads -> SUBSET Threads]
        /\ raised \in [Threads -> SUBSET Threads]
        /\ pc \in [Threads -> Labels]
        /\ cont \in [Threads -> ContLabels]
      BY SMT DEF TypeInv, ThreadType, ListType, OpType
    <2> USE DEF Goto, threadVars, opVars
    <2>1. CASE LeaveRunnable(t) \/ EnterRunnable(t) \/ SpuriousResume(t) \/ FullSuspendCheck(t)
      BY <2>1, CountSame, ZenonT(30) DEF LeaveRunnable, EnterRunnable, SpuriousResume,
        FullSuspendCheck
    <2>2. CASE RunCheckpointFunction(t)
      BY <2>2, CountSame, Zenon DEF RunCheckpointFunction
    <2>3. CASE TransitionToSuspended(t)
      BY <2>3, CountSame, Zenon DEF TransitionToSuspended
    <2>4. CASE PassLoopExit(t)
      BY <2>4, CountSame, Zenon DEF PassLoopExit
    <2>5. CASE ClaimBarriers(t)
      BY <2>5, CountSame, Zenon DEF ClaimBarriers
    <2>6. CASE PassBarrier(t) \/ BecomeRunnable(t) \/ RunFlipFunction(t) \/ WaitForResume(t)
      BY <2>6, CountSame, ZenonT(30) DEF PassBarrier, BecomeRunnable, RunFlipFunction,
        RunnableLabel, WaitForResume
    <2>7. CASE ResumeWaitExit(t)
      BY <2>7, CountSame, Zenon DEF ResumeWaitExit
    <2> QED
      BY <2>1, <2>2, <2>3, <2>4, <2>5, <2>6, <2>7, Zenon DEF TransitionStep
  <1>4. StopsStay(t)
    <2> /\ state \in [Threads -> States]
        /\ flags \in [Threads -> SUBSET Flags]
        /\ barriers \in [Threads -> SUBSET Threads]
        /\ pc \in [Threads -> Labels]
      BY SMT DEF TypeInv, ThreadType, OpType
    <2> USE DEF Goto, threadVars
    <2>1. CASE LeaveRunnable(t) \/ EnterRunnable(t) \/ SpuriousResume(t) \/ FullSuspendCheck(t)
      BY <2>1, Zenon DEF LeaveRunnable, EnterRunnable, SpuriousResume, FullSuspendCheck, StopsStay
    <2>2. CASE \/ RunCheckpointFunction(t) \/ TransitionToSuspended(t) \/ PassLoopExit(t)
               \/ ResumeWaitExit(t)
      BY <2>2, ZenonT(30) DEF RunCheckpointFunction, TransitionToSuspended, PassLoopExit,
        ContLabels, StopsStay, ResumeWaitExit
    <2>3. CASE ClaimBarriers(t)
      <3>1. state'[t] # "Runnable" /\ countLock = NoThread
        BY <2>3, SMT DEF ClaimBarriers, StateAt, RunnableLabels, CheckpointLabels
      <3>2. \A u \in Threads \ {t} : barriers'[u] = barriers[u]
        BY <2>3, SMT DEF ClaimBarriers
      <3> QED
        BY <2>3, <3>1, <3>2, Zenon DEF ClaimBarriers, StopsStay, Claims
    <2>4. CASE PassBarrier(t) \/ BecomeRunnable(t) \/ RunFlipFunction(t) \/ WaitForResume(t)
      BY <2>4, Zenon DEF PassBarrier, BecomeRunnable, RunFlipFunction,
        TakeFlipFunction, RunnableLabel, WaitForResume, StopsStay
    <2> QED
      BY <2>1, <2>2, <2>3, <2>4, Zenon DEF TransitionStep
  <1>5. StoppedAt(t)'
    <2> /\ state \in [Threads -> States]
        /\ flags \in [Threads -> SUBSET Flags]
        /\ barriers \in [Threads -> SUBSET Threads]
        /\ cur \in [Threads -> Threads \cup {NoThread}]
        /\ raised \in [Threads -> SUBSET Threads]
        /\ op \in [Threads -> OpNames \cup {"none"}]
        /\ pc \in [Threads -> Labels]
        /\ cont \in [Threads -> ContLabels]
      BY SMT DEF TypeInv, ThreadType, OpType
    <2> USE DEF InLoop, HasAll, HasTodo, Goto, threadVars, opVars
    <2> pc[t] \notin LeavingLabels => cont[t] = "native"
      BY DEF OpAt
    <2>1. CASE LeaveRunnable(t) \/ SpuriousResume(t) \/ FullSuspendCheck(t)
      BY <2>1 DEF LeaveRunnable, StoppedAt, LeavingLabels, ResumingLabels,
         SpuriousResume,
        FullSuspendCheck
    <2>2. CASE EnterRunnable(t)
      <3>1. op[t] = "none"
        BY <2>2 DEF EnterRunnable, OpAt
      <3> QED
        BY <2>2, <3>1 DEF EnterRunnable, StoppedAt, LeavingLabels, ResumingLabels
    <2>3. CASE RunCheckpointFunction(t)
      BY <2>3 DEF RunCheckpointFunction, StoppedAt, LeavingLabels, ResumingLabels
    <2>4. CASE TransitionToSuspended(t)
      BY <2>4, SMT DEF TransitionToSuspended, StoppedAt, LeavingLabels, ResumingLabels
    <2>5. CASE ClaimBarriers(t)
      BY <2>5 DEF ClaimBarriers, StoppedAt, LeavingLabels, ResumingLabels
    <2>6. CASE PassLoopExit(t)
      <3>1. /\ pc[t] = "passLoop" /\ pc'[t] = cont[t] /\ cont[t] \in ContLabels
            /\ cont'[t] = "native"
            /\ UNCHANGED <<state, op, cur>>
        BY <2>6 DEF PassLoopExit
      <3>2. cont[t] = "toRunnable" => op[t] # "RequestSynchronousCheckpoint"
        BY <3>1, SMT DEF OpAt, LeavingLabels
      <3>3. cont[t] = "stHave" => state[cur[t]] # "Runnable"
        BY SMT DEF StoppedAt
      <3> QED
        BY <3>1, <3>2, <3>3 DEF StoppedAt, ContLabels, ResumingLabels
    <2>7. CASE PassBarrier(t) \/ RunFlipFunction(t) \/ WaitForResume(t)
      BY <2>7 DEF PassBarrier, StoppedAt, LeavingLabels, ResumingLabels,
         RunFlipFunction,
        TakeFlipFunction, RunnableLabel, WaitForResume
    <2>8. CASE BecomeRunnable(t)
      <3>1. op[t] = "RequestSynchronousCheckpoint" => cur[t] # t /\ state[cur[t]] # "Runnable"
        BY <2>8 DEF BecomeRunnable, RaisedAt, StoppedAt, ResumingLabels
      <3> QED
        BY <2>8, <3>1, SMT DEF BecomeRunnable, StoppedAt, LeavingLabels, ResumingLabels
    <2>9. CASE ResumeWaitExit(t)
      BY <2>9 DEF ResumeWaitExit, StoppedAt, LeavingLabels, ResumingLabels
    <2> QED
      BY <2>1, <2>2, <2>3, <2>4, <2>6, <2>5, <2>7, <2>8, <2>9, Zenon DEF TransitionStep
  <1>6. SameBarriers(t) \/ ClaimBarriers(t) \/ PassBarrier(t)
    <2> /\ flags \in [Threads -> SUBSET Flags]
        /\ barriers \in [Threads -> SUBSET Threads]
        /\ todo \in [Threads -> SUBSET Threads]
        /\ raised \in [Threads -> SUBSET Threads]
        /\ pc \in [Threads -> Labels]
        /\ cont \in [Threads -> ContLabels]
      BY SMT DEF TypeInv, ThreadType, OpType
    <2> USE DEF Waits, Unasked, InLoop, Goto, threadVars, listVars, opVars
    <2>1. CASE LeaveRunnable(t) \/ EnterRunnable(t) \/ SpuriousResume(t) \/ FullSuspendCheck(t)
      BY <2>1, ZenonT(30) DEF LeaveRunnable, EnterRunnable, SpuriousResume, SameBarriers,
        FullSuspendCheck
    <2>2. CASE RunCheckpointFunction(t) \/ RunFlipFunction(t)
      <3>1. CASE RunCheckpointFunction(t)
        BY <3>1 DEF RunCheckpointFunction, SameBarriers
      <3>2. CASE RunFlipFunction(t)
        BY <3>2 DEF RunFlipFunction, SameBarriers, TakeFlipFunction, RunnableLabel
      <3> QED
        BY <2>2, <3>1, <3>2, Zenon
    <2>3. CASE TransitionToSuspended(t) \/ ClaimBarriers(t) \/ PassBarrier(t) \/ BecomeRunnable(t)
      BY <2>3, ZenonT(30) DEF TransitionToSuspended, SameBarriers, BecomeRunnable
    <2>4. CASE PassLoopExit(t)
      <3>1. cont[t] \in ContLabels /\ pc'[t] = cont[t] /\ pc[t] = "passLoop"
        BY <2>4, Zenon DEF PassLoopExit
      <3>2. ~InLoop(t) /\ ~Waits(t) /\ ~InLoop(t)' /\ ~Waits(t)'
        BY <3>1, SMT DEF ContLabels
      <3> QED
        BY <2>4, <3>1, <3>2, Zenon DEF PassLoopExit, SameBarriers
    <2>5. CASE WaitForResume(t) \/ ResumeWaitExit(t)
      BY <2>5, Zenon DEF WaitForResume, ResumeWaitExit, SameBarriers
    <2> QED
      BY <2>1, <2>2, <2>3, <2>4, <2>5, Zenon DEF TransitionStep
  <1> QED
    BY <1>1, <1>2, <1>3, <1>4, <1>5, <1>6, Zenon DEF OperationStep

-----------------------------------------------------------------------------
(* SuspendAll and ResumeAll                                                *)

SuspendAllStep(t) ==
  \/ CallSuspendAll(t) \/ SuspendAllBegin(t) \/ SuspendAllRaise(t) \/ SuspendAllRetry(t)
  \/ SuspendAllRaiseAgain(t) \/ SuspendAllCheck(t) \/ SuspendAllUnlock(t) \/ SuspendAllWait(t)
  \/ SuspendAllExclusive(t) \/ ResumeAllUnlock(t) \/ ResumeAll(t)

\* So do SuspendAll and ResumeAll, ...
LEMMA SuspendAllKeepsControl ==
  ASSUME TypeInv, CheckpointOnlyWhenRunnable, MutatorInv, NEW t \in Threads,
         StateAt(t), LockAt(t), OpAt(t), CurAt(t), SuspendAllStep(t)
  PROVE  ControlStep(t)
  <1>1. TypeInv'
    <2> USE DEF TypeInv, ThreadType, ListType, OpType, Labels, ContLabels, States, Flags, OpNames,
           Goto, threadVars, listVars, lockVars, flipVars, opVars
    <2>1. CASE CallSuspendAll(t)
      BY <2>1, Zenon DEF CallSuspendAll
    <2>2. CASE SuspendAllUnlock(t)
      BY <2>2, Zenon DEF SuspendAllUnlock
    <2>3. CASE SuspendAllWait(t)
      BY <2>3, Zenon DEF SuspendAllWait
    <2>4. CASE SuspendAllExclusive(t)
      BY <2>4, Zenon DEF SuspendAllExclusive
    <2>5. CASE SuspendAllBegin(t)
      BY <2>5 DEF SuspendAllBegin
    <2>6. CASE SuspendAllRaise(t)
      <3>1. PICK u \in todo[t] : /\ Raise(t, u, TRUE)
                                 /\ cur' = [cur EXCEPT ![t] = u]
                                 /\ todo' = [todo EXCEPT ![t] = @ \ {u}]
        BY <2>6, Zenon DEF SuspendAllRaise
      <3>2. u \in Threads
        BY <2>6 DEF OpType
      <3> QED
        BY <2>6, <3>1, <3>2, RaiseType DEF SuspendAllRaise
    <2>7. CASE SuspendAllRetry(t)
      <3>1. PICK u \in todo[t] : cur' = [cur EXCEPT ![t] = u]
        BY <2>7, Zenon DEF SuspendAllRetry
      <3>2. u \in Threads
        BY <2>7 DEF OpType
      <3> QED
        BY <2>7, <3>1, <3>2 DEF SuspendAllRetry
    <2>8. CASE SuspendAllRaiseAgain(t)
      <3>1. cur[t] \in Threads
        BY <2>8 DEF CurAt, SuspendAllRaiseAgain
      <3> QED
        BY <2>8, <3>1, RaiseType DEF SuspendAllRaiseAgain
    <2>9. CASE SuspendAllCheck(t)
      <3>1. cur[t] \in Threads
        BY <2>9 DEF CurAt, SuspendAllCheck
      <3>2. CASE IsSuspended(cur[t])
        <4>1. /\ barriers' = [barriers EXCEPT ![cur[t]] = @ \ {t}]
              /\ flags' = [flags EXCEPT ![cur[t]] =
                             IF barriers[cur[t]] \ {t} = {} THEN @ \ {"ActiveSuspendBarrier"} ELSE @]
          BY <2>9, <3>2 DEF SuspendAllCheck
        <4>2. barriers' \in [Threads -> SUBSET Threads]
          BY <3>1, <4>1
        <4>3. flags' \in [Threads -> SUBSET Flags]
          BY <3>1, <4>1
        <4> QED
          BY <2>9, <4>2, <4>3, Zenon DEF SuspendAllCheck
      <3>3. CASE ~IsSuspended(cur[t])
        BY <2>9, <3>3 DEF SuspendAllCheck
      <3> QED
        BY <3>2, <3>3
    <2>10. CASE ResumeAllUnlock(t)
      BY <2>10, Zenon DEF ResumeAllUnlock
    <2>11. CASE ResumeAll(t)
      <3>1. list \ {t} \in SUBSET Threads
        BY SMT
      <3> QED
        BY <2>11, <3>1, LowerType DEF ResumeAll
    <2> QED
      BY <2>1, <2>5, <2>6, <2>7, <2>8, <2>9, <2>2, <2>3, <2>4, <2>10, <2>11, Zenon DEF
        SuspendAllStep
  <1>2. CheckpointOnlyWhenRunnable'
    <2> /\ state \in [Threads -> States]
        /\ flags \in [Threads -> SUBSET Flags]
        /\ checkpoints \in [Threads -> Seq(Threads)]
        /\ todo \in [Threads -> SUBSET Threads]
        /\ pc \in [Threads -> Labels]
      BY DEF TypeInv, ThreadType, OpType
    <2> USE DEF CheckpointOnlyWhenRunnable, threadVars
    <2>1. CASE CallSuspendAll(t) \/ SuspendAllBegin(t)
      BY <2>1, ZenonT(30) DEF CallSuspendAll, SuspendAllBegin
    <2>2. CASE SuspendAllRetry(t)
      BY <2>2, Zenon DEF SuspendAllRetry
    <2>3. CASE SuspendAllRaiseAgain(t)
      BY <2>3, Zenon DEF SuspendAllRaiseAgain, Raise
    <2>4. CASE SuspendAllRaise(t)
      BY <2>4, SMT DEF SuspendAllRaise, Raise
    <2>5. CASE SuspendAllCheck(t)
      <3>1. \/ flags' = flags
            \/ flags' = [flags EXCEPT ![cur[t]] = @ \ {"ActiveSuspendBarrier"}]
        BY <2>5 DEF SuspendAllCheck
      <3>2. UNCHANGED <<state, checkpoints>>
        BY <2>5 DEF SuspendAllCheck
      <3>3. CASE flags' = flags
        BY <3>2, <3>3
      <3>4. CASE flags' = [flags EXCEPT ![cur[t]] = @ \ {"ActiveSuspendBarrier"}]
        BY <3>2, <3>4
      <3> QED
        BY <3>1, <3>3, <3>4, Zenon
    <2>6. CASE \/ SuspendAllUnlock(t) \/ SuspendAllWait(t) \/ SuspendAllExclusive(t)
               \/ ResumeAllUnlock(t)
      BY <2>6, ZenonT(30) DEF SuspendAllUnlock, SuspendAllWait, SuspendAllExclusive,
        ResumeAllUnlock
    <2>7. CASE ResumeAll(t)
      BY <2>7, Zenon DEF ResumeAll, Lower
    <2> QED
      BY <2>1, <2>4, <2>2, <2>3, <2>5, <2>6, <2>7, Zenon DEF SuspendAllStep
  <1>3. Frame(t)
    <2> /\ state \in [Threads -> States]
        /\ op \in [Threads -> OpNames \cup {"none"}]
        /\ cur \in [Threads -> Threads \cup {NoThread}]
        /\ pc \in [Threads -> Labels]
        /\ cont \in [Threads -> ContLabels]
      BY SMT DEF TypeInv, ThreadType, OpType
    <2> USE ThreadsAssumption
        DEF Frame, KeepsLock, LockAt, ListLockLabels, CountLockLabels, LocksFree, Goto, threadVars,
            lockVars, opVars
    <2>1. CASE CallSuspendAll(t) \/ SuspendAllBegin(t)
      BY <2>1, ZenonT(30) DEF CallSuspendAll, SuspendAllBegin
    <2>2. CASE SuspendAllRaise(t) \/ SuspendAllRetry(t)
      BY <2>2, ZenonT(30) DEF SuspendAllRaise, SuspendAllRetry
    <2>3. CASE \/ SuspendAllRaiseAgain(t) \/ SuspendAllCheck(t) \/ SuspendAllUnlock(t)
               \/ SuspendAllWait(t)
      BY <2>3, ZenonT(30) DEF SuspendAllRaiseAgain, SuspendAllCheck, SuspendAllUnlock,
        SuspendAllWait
    <2>4. CASE SuspendAllExclusive(t) \/ ResumeAllUnlock(t) \/ ResumeAll(t)
      BY <2>4, ZenonT(30) DEF SuspendAllExclusive, ResumeAllUnlock, ResumeAll
    <2> QED
      BY <2>1, <2>2, <2>3, <2>4, Zenon DEF SuspendAllStep
  <1>4. LocalInv(t)' /\ MutatorInv'
    <2> /\ state \in [Threads -> States]
        /\ op \in [Threads -> OpNames \cup {"none"}]
        /\ cur \in [Threads -> Threads \cup {NoThread}]
        /\ todo \in [Threads -> SUBSET Threads]
        /\ raised \in [Threads -> SUBSET Threads]
        /\ pc \in [Threads -> Labels]
        /\ cont \in [Threads -> ContLabels]
      BY SMT DEF TypeInv, ThreadType, OpType
    <2> USE ThreadsAssumption
        DEF LocalInv, StateAt, LockAt, OpAt, CurAt, MutatorInv, ListLockLabels, CountLockLabels,
            LocksFree, LeavingLabels, SuspendAllLabels, FlipLabels, CheckpointLabels,
            SynchronousLabels, ResumingLabels, RunnableLabels, ContLabels, Goto, threadVars,
            lockVars, opVars
    <2>1. CASE CallSuspendAll(t)
      BY <2>1, Zenon DEF CallSuspendAll
    <2>2. CASE SuspendAllBegin(t)
      BY <2>2, Zenon DEF SuspendAllBegin
    <2>3. CASE SuspendAllRaiseAgain(t)
      BY <2>3, Zenon DEF SuspendAllRaiseAgain
    <2>4. CASE SuspendAllCheck(t)
      BY <2>4 DEF SuspendAllCheck
    <2>5. CASE SuspendAllRaise(t)
      BY <2>5, SMT, ZenonT(60) DEF SuspendAllRaise
    <2>6. CASE SuspendAllRetry(t)
      BY <2>6 DEF SuspendAllRetry
    <2>7. CASE SuspendAllUnlock(t)
      BY <2>7, Zenon DEF SuspendAllUnlock
    <2>8. CASE SuspendAllWait(t)
      BY <2>8, Zenon DEF SuspendAllWait
    <2>9. CASE SuspendAllExclusive(t)
      BY <2>9, Zenon DEF SuspendAllExclusive
    <2>10. CASE ResumeAllUnlock(t)
      BY <2>10, Zenon DEF ResumeAllUnlock
    <2>11. CASE ResumeAll(t)
      BY <2>11, Zenon DEF ResumeAll
    <2> QED
      BY <2>1, <2>2, <2>5, <2>6, <2>3, <2>4, <2>7, <2>8, <2>9, <2>10, <2>11, Zenon DEF
        SuspendAllStep
  <1> QED
    BY <1>1, <1>2, <1>3, <1>4, Zenon DEF ControlStep

\* What SuspendAll and ResumeAll do to them: SuspendAllInternal sets up its barrier,
\* installs it thread by thread and waits for it.
LEMMA SuspendAllKeepsStops ==
  ASSUME TypeInv, NEW t \in Threads, StateAt(t), OpAt(t), CurAt(t), RaisedAt(t), StoppedAt(t),
         SuspendAllStep(t)
  PROVE  /\ OperationStep(t)
         /\ \/ SameBarriers(t) \/ SuspendAllBegin(t) \/ SuspendAllRaise(t)
            \/ SuspendAllRaiseAgain(t) \/ SuspendAllCheck(t) \/ SuspendAllWait(t)
  <1>1. RaisedFrame(t) /\ AllStep(t)
    <2> /\ raised \in [Threads -> SUBSET Threads]
        /\ todo \in [Threads -> SUBSET Threads]
        /\ pc \in [Threads -> Labels]
      BY DEF TypeInv, OpType
    <2> USE DEF RaisedFrame, AllStep, Suspending, InLoop, HasAll, Goto, opVars, listVars
    <2>1. CASE CallSuspendAll(t) \/ SuspendAllBegin(t) \/ SuspendAllRaise(t) \/ SuspendAllRetry(t)
      BY <2>1, ZenonT(30) DEF CallSuspendAll, SuspendAllBegin, SuspendAllRaise, Raise,
        SuspendAllRetry
    <2>2. CASE \/ SuspendAllRaiseAgain(t) \/ SuspendAllCheck(t) \/ SuspendAllUnlock(t)
               \/ SuspendAllWait(t)
      BY <2>2, ZenonT(30) DEF SuspendAllRaiseAgain, Raise, SuspendAllCheck, SuspendAllUnlock,
        SuspendAllWait
    <2>3. CASE SuspendAllExclusive(t) \/ ResumeAllUnlock(t) \/ ResumeAll(t)
      BY <2>3, ZenonT(30) DEF SuspendAllExclusive, ResumeAllUnlock, ResumeAll, Lower
    <2> QED
      BY <2>1, <2>2, <2>3, Zenon DEF SuspendAllStep
  <1>2. RaisedAt(t)'
    <2> /\ list \subseteq Threads
        /\ op \in [Threads -> OpNames \cup {"none"}]
        /\ cur \in [Threads -> Threads \cup {NoThread}]
        /\ todo \in [Threads -> SUBSET Threads]
        /\ raised \in [Threads -> SUBSET Threads]
        /\ pc \in [Threads -> Labels]
        /\ cont \in [Threads -> ContLabels]
      BY DEF TypeInv, OpType, ListType
    <2>0. ASSUME InLoop(t)
          PROVE  /\ cont[t] = "native" /\ op[t] \in {"SuspendAll", "FlipThreadRoots"}
                 /\ t \in list /\ t \notin todo[t] /\ todo[t] \subseteq list
                 /\ raised[t] = (list \ {t}) \ todo[t]
                 /\ pc[t] = "saRetry" => cur[t] \in todo[t]
      BY <2>0 DEF RaisedAt, InLoop, OpAt, SuspendAllLabels, LeavingLabels
    <2>5. CASE SuspendAllRaise(t)
      <3>1. /\ pc[t] = "saLoop" /\ pc'[t] = "saCheck" /\ UNCHANGED <<list, op, cont>>
        BY <2>5 DEF SuspendAllRaise, Goto, listVars
      <3>2. PICK u \in todo[t] : /\ cur' = [cur EXCEPT ![t] = u]
                                /\ todo' = [todo EXCEPT ![t] = @ \ {u}]
                                /\ raised' = [raised EXCEPT ![t] = @ \cup {u}]
        BY <2>5 DEF SuspendAllRaise, Raise
      <3>3. cur'[t] = u /\ todo'[t] = todo[t] \ {u} /\ raised'[t] = raised[t] \cup {u}
        BY <3>2
      <3>4. raised'[t] = (list \ {t}) \ todo'[t]
        BY <2>0, <3>1, <3>2, <3>3 DEF InLoop
      <3> QED
        BY <2>0, <3>1, <3>3, <3>4, RaisedInLoop DEF InLoop
    <2>6. CASE SuspendAllRetry(t)
      <3>1. /\ pc[t] = "saLoop" /\ pc'[t] = "saRetry" /\ cur'[t] \in todo[t]
            /\ UNCHANGED <<list, op, todo, raised, cont>>
        BY <2>6 DEF SuspendAllRetry, Goto, listVars
      <3> QED
        BY <2>0, <3>1, RaisedInLoop DEF InLoop
    <2>7. CASE SuspendAllRaiseAgain(t)
      <3>1. /\ pc[t] = "saRetry" /\ pc'[t] = "saCheck" /\ UNCHANGED <<list, op, cur, cont>>
            /\ todo' = [todo EXCEPT ![t] = @ \ {cur[t]}]
            /\ raised' = [raised EXCEPT ![t] = @ \cup {cur[t]}]
        BY <2>7 DEF SuspendAllRaiseAgain, Raise, Goto, listVars
      <3>2. todo'[t] = todo[t] \ {cur[t]} /\ raised'[t] = raised[t] \cup {cur[t]}
        BY <3>1
      <3>3. raised'[t] = (list \ {t}) \ todo'[t]
        BY <2>0, <3>1, <3>2 DEF InLoop
      <3> QED
        BY <2>0, <3>1, <3>2, <3>3, RaisedInLoop DEF InLoop
    <2> USE DEF RaisedAt, InLoop, HasAll, HasTodo, OpAt, LeavingLabels, SuspendAllLabels,
           FlipLabels, CheckpointLabels, SynchronousLabels, ResumingLabels, Goto, opVars, listVars
    <2>1. CASE CallSuspendAll(t)
      BY <2>1, Zenon DEF CallSuspendAll
    <2>2. CASE SuspendAllBegin(t)
      BY <2>2, Zenon DEF SuspendAllBegin, LocksFree
    <2>3. CASE SuspendAllCheck(t)
      BY <2>3, Zenon DEF SuspendAllCheck
    <2>4. CASE SuspendAllUnlock(t)
      BY <2>4 DEF SuspendAllUnlock
    <2>8. CASE SuspendAllWait(t)
      BY <2>8, Zenon DEF SuspendAllWait
    <2>9. CASE SuspendAllExclusive(t)
      BY <2>9, Zenon DEF SuspendAllExclusive
    <2>10. CASE ResumeAllUnlock(t)
      BY <2>10, Zenon DEF ResumeAllUnlock
    <2>11. CASE ResumeAll(t)
      BY <2>11, Zenon DEF ResumeAll, Lower, LocksFree
    <2> QED
      BY <2>1, <2>2, <2>5, <2>6, <2>7, <2>3, <2>4, <2>8, <2>9, <2>10, <2>11, Zenon DEF
        SuspendAllStep
  <1>3. CountStep(t)
    <2> /\ flags \in [Threads -> SUBSET Flags]
        /\ list \subseteq Threads
        /\ op \in [Threads -> OpNames \cup {"none"}]
        /\ cur \in [Threads -> Threads \cup {NoThread}]
        /\ todo \in [Threads -> SUBSET Threads]
        /\ raised \in [Threads -> SUBSET Threads]
        /\ pc \in [Threads -> Labels]
        /\ cont \in [Threads -> ContLabels]
      BY DEF TypeInv, ThreadType, ListType, OpType
    <2> USE DEF Goto, threadVars, opVars
    <2>1. CASE \/ CallSuspendAll(t) \/ SuspendAllBegin(t) \/ SuspendAllRetry(t)
               \/ SuspendAllUnlock(t)
      BY <2>1, CountSame, ZenonT(30) DEF CallSuspendAll, SuspendAllBegin, SuspendAllRetry,
        SuspendAllUnlock
    <2>2. CASE SuspendAllRaise(t)
      <3>1. PICK u \in todo[t] : Raise(t, u, TRUE)
        BY <2>2, Zenon DEF SuspendAllRaise
      <3>2. u \in Threads /\ u \notin raised[t]
        BY <2>2 DEF SuspendAllRaise, RaisedAt, InLoop
      <3> QED
        BY <3>1, <3>2, CountRaise, Zenon
    <2>3. CASE SuspendAllRaiseAgain(t)
      <3>1. cur[t] \in Threads /\ cur[t] \notin raised[t]
        BY <2>3 DEF SuspendAllRaiseAgain, RaisedAt, InLoop
      <3> QED
        BY <2>3, <3>1, CountRaise, Zenon DEF SuspendAllRaiseAgain
    <2>4. CASE SuspendAllCheck(t)
      <3>1. \/ flags' = flags
            \/ flags' = [flags EXCEPT ![cur[t]] = @ \ {"ActiveSuspendBarrier"}]
        BY <2>4 DEF SuspendAllCheck
      <3>2. \A u \in Threads : "SuspendRequest" \in flags'[u] <=> "SuspendRequest" \in flags[u]
        BY <3>1, SMT
      <3> QED
        BY <2>4, <3>2, CountSame, Zenon DEF SuspendAllCheck
    <2>5. CASE SuspendAllWait(t) \/ SuspendAllExclusive(t) \/ ResumeAllUnlock(t)
      BY <2>5, CountSame, ZenonT(30) DEF SuspendAllWait, SuspendAllExclusive, ResumeAllUnlock
    <2>6. CASE ResumeAll(t)
      <3>1. list \ {t} \in SUBSET Threads /\ list \ {t} \subseteq raised[t]
        BY <2>6 DEF ResumeAll, RaisedAt, HasAll
      <3> QED
        BY <2>6, <3>1, CountLower, Zenon DEF ResumeAll
    <2> QED
      BY <2>1, <2>2, <2>3, <2>4, <2>5, <2>6, Zenon DEF SuspendAllStep
  <1>4. StopsStay(t)
    <2> /\ state \in [Threads -> States]
        /\ flags \in [Threads -> SUBSET Flags]
        /\ barriers \in [Threads -> SUBSET Threads]
        /\ pc \in [Threads -> Labels]
      BY DEF TypeInv, ThreadType, OpType
    <2> USE DEF Goto, threadVars
    <2>1. CASE CallSuspendAll(t) \/ SuspendAllBegin(t) \/ SuspendAllRetry(t) \/ ResumeAll(t)
      BY <2>1, ZenonT(30) DEF CallSuspendAll, SuspendAllBegin, StopsStay, SuspendAllRetry,
        ResumeAll, Lower
    <2>2. CASE SuspendAllRaise(t)
      <3>1. PICK u \in todo[t] : barriers' = [barriers EXCEPT ![u] = @ \cup {t}]
        BY <2>2, Zenon DEF SuspendAllRaise, Raise
      <3> QED
        BY <2>2, <3>1 DEF SuspendAllRaise, StopsStay
    <2>3. CASE SuspendAllRaiseAgain(t)
      BY <2>3 DEF SuspendAllRaiseAgain, Raise, StopsStay
    <2>4. CASE SuspendAllCheck(t)
      <3>1. \A u \in Threads : barriers[u] \ {t} \subseteq barriers'[u]
        BY <2>4, SMT, ZenonT(60) DEF SuspendAllCheck
      <3> QED
        BY <2>4, <3>1, Zenon DEF SuspendAllCheck, StopsStay
    <2>5. CASE \/ SuspendAllUnlock(t) \/ SuspendAllWait(t) \/ SuspendAllExclusive(t)
               \/ ResumeAllUnlock(t)
      BY <2>5, Zenon DEF SuspendAllUnlock, SuspendAllWait, SuspendAllExclusive, ResumeAllUnlock,
        StopsStay
    <2> QED
      BY <2>1, <2>2, <2>3, <2>4, <2>5, Zenon DEF SuspendAllStep
  <1>5. StoppedAt(t)'
    <2> /\ state \in [Threads -> States]
        /\ flags \in [Threads -> SUBSET Flags]
        /\ barriers \in [Threads -> SUBSET Threads]
        /\ cur \in [Threads -> Threads \cup {NoThread}]
        /\ raised \in [Threads -> SUBSET Threads]
        /\ op \in [Threads -> OpNames \cup {"none"}]
        /\ pc \in [Threads -> Labels]
        /\ cont \in [Threads -> ContLabels]
      BY DEF TypeInv, ThreadType, OpType
    <2> USE DEF InLoop, HasAll, HasTodo, Goto, threadVars, opVars
    <2> pc[t] \notin LeavingLabels => cont[t] = "native"
      BY DEF OpAt
    <2>1. CASE CallSuspendAll(t)
      BY <2>1 DEF CallSuspendAll, StoppedAt, LeavingLabels, ResumingLabels
    <2>2. CASE SuspendAllRetry(t)
      BY <2>2 DEF SuspendAllRetry, StoppedAt, LeavingLabels, ResumingLabels
    <2>3. CASE SuspendAllUnlock(t)
      BY <2>3 DEF SuspendAllUnlock, StoppedAt, LeavingLabels, ResumingLabels
    <2>4. CASE SuspendAllBegin(t)
      <3>1. raised[t] = {}
        BY <2>4 DEF SuspendAllBegin, RaisedAt
      <3> QED
        BY <2>4, <3>1 DEF SuspendAllBegin, StoppedAt, LeavingLabels, ResumingLabels
    <2>5. CASE SuspendAllRaise(t)
      <3>1. PICK u \in todo[t] : Raise(t, u, TRUE) /\ cur' = [cur EXCEPT ![t] = u]
        BY <2>5 DEF SuspendAllRaise
      <3> u \in Threads
        BY DEF TypeInv, OpType
      <3>2. /\ pc[t] = "saLoop" /\ pc'[t] = "saCheck"
            /\ UNCHANGED <<state, op, cont>>
        BY <2>5 DEF SuspendAllRaise
      <3>3. \A v \in raised'[t] : t \in barriers'[v] \/ state'[v] # "Runnable"
        BY <3>1, <3>2 DEF Raise, StoppedAt
      <3>4. cur'[t] = u /\ t \in barriers'[u]
        BY <3>1 DEF Raise
      <3> QED
        BY <3>2, <3>3, <3>4, Zenon DEF StoppedAt, OpAt, SuspendAllLabels, LeavingLabels,
           ResumingLabels
    <2>6. CASE SuspendAllRaiseAgain(t)
      <3>1. /\ pc[t] = "saRetry" /\ pc'[t] = "saCheck" /\ cur[t] \in Threads
            /\ UNCHANGED <<state, op, cont>>
        BY <2>6 DEF SuspendAllRaiseAgain, CurAt
      <3>2. \A v \in raised'[t] : t \in barriers'[v] \/ state'[v] # "Runnable"
        BY <2>6, <3>1 DEF SuspendAllRaiseAgain, Raise, StoppedAt
      <3>3. t \in barriers'[cur'[t]]
        BY <2>6, <3>1 DEF SuspendAllRaiseAgain, Raise
      <3> QED
        BY <3>1, <3>2, <3>3, Zenon DEF StoppedAt, OpAt, SuspendAllLabels, LeavingLabels,
           ResumingLabels
    <2>7. CASE SuspendAllCheck(t)
      <3>1. /\ pc[t] = "saCheck" /\ pc'[t] = "saLoop"
            /\ UNCHANGED <<state, op, cont, raised>>
            /\ \/ barriers' = barriers
               \/ barriers' = [barriers EXCEPT ![cur[t]] = @ \ {t}] /\ state[cur[t]] # "Runnable"
        BY <2>7 DEF SuspendAllCheck, IsSuspended
      <3>2. \A v \in raised[t] : t \in barriers'[v] \/ state'[v] # "Runnable"
        BY <3>1 DEF StoppedAt
      <3> QED
        BY <3>1, <3>2, Zenon DEF StoppedAt, OpAt, SuspendAllLabels, LeavingLabels, ResumingLabels
    <2>8. CASE SuspendAllWait(t) \/ SuspendAllExclusive(t) \/ ResumeAllUnlock(t)
      BY <2>8 DEF SuspendAllWait, StoppedAt, LeavingLabels, ResumingLabels,
        SuspendAllExclusive, ResumeAllUnlock
    <2>9. CASE ResumeAll(t)
      BY <2>9 DEF ResumeAll, Lower, StoppedAt, LeavingLabels, ResumingLabels
    <2> QED
      BY <2>1, <2>4, <2>5, <2>2, <2>6, <2>7, <2>3, <2>8, <2>9, Zenon DEF SuspendAllStep
  <1>6. \/ SameBarriers(t) \/ SuspendAllBegin(t) \/ SuspendAllRaise(t)
        \/ SuspendAllRaiseAgain(t) \/ SuspendAllCheck(t) \/ SuspendAllWait(t)
    <2> /\ flags \in [Threads -> SUBSET Flags]
        /\ barriers \in [Threads -> SUBSET Threads]
        /\ todo \in [Threads -> SUBSET Threads]
        /\ raised \in [Threads -> SUBSET Threads]
        /\ pc \in [Threads -> Labels]
      BY SMT DEF TypeInv, ThreadType, OpType
    <2> USE DEF Waits, Unasked, InLoop, Goto, threadVars, listVars, opVars
    <2>1. CASE CallSuspendAll(t) \/ SuspendAllBegin(t) \/ SuspendAllRaise(t) \/ SuspendAllRetry(t)
      BY <2>1, ZenonT(30) DEF CallSuspendAll, SameBarriers, SuspendAllRetry
    <2>2. CASE \/ SuspendAllRaiseAgain(t) \/ SuspendAllCheck(t) \/ SuspendAllUnlock(t)
               \/ SuspendAllWait(t)
      BY <2>2, ZenonT(30) DEF SuspendAllUnlock, SameBarriers
    <2>3. CASE SuspendAllExclusive(t) \/ ResumeAllUnlock(t)
      BY <2>3, Zenon DEF SuspendAllExclusive, ResumeAllUnlock, SameBarriers
    <2>4. CASE ResumeAll(t)
      BY <2>4 DEF ResumeAll, Lower, SameBarriers
    <2> QED
      BY <2>1, <2>2, <2>3, <2>4, Zenon DEF SuspendAllStep
  <1> QED
    BY <1>1, <1>2, <1>3, <1>4, <1>5, <1>6, Zenon DEF OperationStep

-----------------------------------------------------------------------------
(* FlipThreadRoots and JNI critical sections                               *)

FlipStep(t) ==
  \/ IncrementDisableThreadFlip(t) \/ CallFlipThreadRoots(t) \/ JniCriticalWait(t)
  \/ JniCriticalEnter(t) \/ DecrementDisableThreadFlip(t) \/ ThreadFlipBeginWait(t)
  \/ ThreadFlipBegin(t) \/ FlipCallback(t) \/ FlipResume(t) \/ ThreadFlipEnd(t)
  \/ FlipSharedLock(t) \/ FlipOther(t) \/ FlipSelf(t) \/ FlipLower(t) \/ FlipDone(t)

\* ... FlipThreadRoots and JNI critical sections.
LEMMA FlipKeepsControl ==
  ASSUME TypeInv, CheckpointOnlyWhenRunnable, MutatorInv, NEW t \in Threads,
         StateAt(t), LockAt(t), OpAt(t), CurAt(t), FlipStep(t)
  PROVE  ControlStep(t)
  <1>1. TypeInv'
    <2> USE DEF TypeInv, ThreadType, ListType, OpType, Labels, ContLabels, States, Flags, OpNames,
           Goto, threadVars, listVars, lockVars, flipVars, opVars
    <2>1. CASE IncrementDisableThreadFlip(t)
      <3>1. \/ pc' = pc /\ cont' = cont
            \/ /\ pc' = [pc EXCEPT ![t] = "toSuspended"]
               /\ cont' = [cont EXCEPT ![t] = "jniWait"]
        BY <2>1 DEF IncrementDisableThreadFlip
      <3>2. pc' \in [Threads -> Labels]
          <4>1. CASE pc' = pc
            BY <4>1
          <4>2. CASE pc' = [pc EXCEPT ![t] = "toSuspended"]
            BY <4>2
          <4> QED
            BY <3>1, <4>1, <4>2, Zenon
      <3>3. cont' \in [Threads -> ContLabels]
          <4>1. CASE cont' = cont
            BY <4>1
          <4>2. CASE cont' = [cont EXCEPT ![t] = "jniWait"]
            BY <4>2, SMT
          <4> QED
            BY <3>1, <4>1, <4>2, Zenon
      <3> QED
        BY <2>1, <3>2, <3>3 DEF IncrementDisableThreadFlip
    <2>2. CASE CallFlipThreadRoots(t)
      BY <2>2, Zenon DEF CallFlipThreadRoots
    <2>3. CASE JniCriticalWait(t)
      BY <2>3, Zenon DEF JniCriticalWait
    <2>4. CASE JniCriticalEnter(t)
      BY <2>4, Zenon DEF JniCriticalEnter
    <2>5. CASE DecrementDisableThreadFlip(t)
      BY <2>5, Zenon DEF DecrementDisableThreadFlip
    <2>6. CASE ThreadFlipBeginWait(t)
      BY <2>6, Zenon DEF ThreadFlipBeginWait
    <2>7. CASE ThreadFlipBegin(t)
      BY <2>7, Zenon DEF ThreadFlipBegin
    <2>8. CASE FlipCallback(t)
      BY <2>8, Zenon DEF FlipCallback
    <2>9. CASE ThreadFlipEnd(t)
      BY <2>9 DEF ThreadFlipEnd
    <2>10. CASE FlipResume(t)
      <3>1. ResumedEarly(t) \in SUBSET Threads
        BY <2>10 DEF ResumedEarly
      <3>2. flip' \in [Threads -> BOOLEAN]
        BY <2>10 DEF FlipResume
      <3>3. todo' \in [Threads -> SUBSET Threads] /\ due' \in [Threads -> SUBSET Threads]
        BY <2>10 DEF FlipResume
      <3> QED
        BY <2>10, <3>1, <3>2, <3>3, LowerType DEF FlipResume
    <2>11. CASE FlipSharedLock(t)
      BY <2>11, Zenon DEF FlipSharedLock
    <2>12. CASE FlipSelf(t)
      BY <2>12, Zenon DEF FlipSelf, TakeFlipFunction
    <2>13. CASE FlipLower(t)
      BY <2>13, Zenon DEF FlipLower, Lower
    <2>14. CASE FlipDone(t)
      BY <2>14 DEF FlipDone
    <2>15. CASE FlipOther(t)
      <3>1. PICK u \in todo[t] : TakeFlipFunction(u)
        BY <2>15 DEF FlipOther
      <3>2. flip' \in [Threads -> BOOLEAN] /\ due' \in [Threads -> SUBSET Threads]
        BY <2>15, <3>1 DEF TakeFlipFunction
      <3> QED
        BY <2>15, <3>2 DEF FlipOther
    <2> QED
      BY <2>1, <2>2, <2>3, <2>4, <2>5, <2>6, <2>7, <2>8, <2>10, <2>9, <2>11, <2>15, <2>12,
        <2>13, <2>14 DEF FlipStep
  <1>2. CheckpointOnlyWhenRunnable'
    <2> /\ state \in [Threads -> States]
        /\ flags \in [Threads -> SUBSET Flags]
        /\ checkpoints \in [Threads -> Seq(Threads)]
        /\ todo \in [Threads -> SUBSET Threads]
        /\ pc \in [Threads -> Labels]
      BY SMT DEF TypeInv, ThreadType, OpType
    <2> USE DEF CheckpointOnlyWhenRunnable, threadVars
    <2>1. CASE \/ IncrementDisableThreadFlip(t) \/ CallFlipThreadRoots(t) \/ JniCriticalWait(t)
               \/ JniCriticalEnter(t)
      BY <2>1, ZenonT(30) DEF IncrementDisableThreadFlip, CallFlipThreadRoots,
        JniCriticalWait, JniCriticalEnter
    <2>2. CASE \/ DecrementDisableThreadFlip(t) \/ ThreadFlipBeginWait(t) \/ ThreadFlipBegin(t)
               \/ FlipCallback(t)
      BY <2>2, ZenonT(30) DEF DecrementDisableThreadFlip, ThreadFlipBeginWait,
        ThreadFlipBegin, FlipCallback
    <2>3. CASE FlipResume(t)
      BY <2>3, Zenon DEF FlipResume, Lower
    <2>4. CASE ThreadFlipEnd(t)
      BY <2>4, Zenon DEF ThreadFlipEnd
    <2>5. CASE FlipSharedLock(t) \/ FlipOther(t)
      BY <2>5, ZenonT(30) DEF FlipSharedLock, FlipOther
    <2>6. CASE FlipSelf(t)
      BY <2>6, Zenon DEF FlipSelf
    <2>7. CASE FlipLower(t)
      BY <2>7, Zenon DEF FlipLower, Lower
    <2>8. CASE FlipDone(t)
      BY <2>8, Zenon DEF FlipDone
    <2> QED
      BY <2>1, <2>2, <2>3, <2>4, <2>5, <2>6, <2>7, <2>8, Zenon DEF FlipStep
  <1>3. Frame(t)
    <2> /\ state \in [Threads -> States]
        /\ op \in [Threads -> OpNames \cup {"none"}]
        /\ cur \in [Threads -> Threads \cup {NoThread}]
        /\ pc \in [Threads -> Labels]
        /\ cont \in [Threads -> ContLabels]
      BY SMT DEF TypeInv, ThreadType, OpType
    <2> USE ThreadsAssumption
        DEF Frame, KeepsLock, LockAt, ListLockLabels, CountLockLabels, LocksFree, Goto, threadVars,
            lockVars, opVars
    <2>1. CASE \/ IncrementDisableThreadFlip(t) \/ CallFlipThreadRoots(t) \/ JniCriticalWait(t)
               \/ JniCriticalEnter(t)
      BY <2>1, ZenonT(30) DEF IncrementDisableThreadFlip, CallFlipThreadRoots,
        JniCriticalWait, JniCriticalEnter
    <2>2. CASE \/ DecrementDisableThreadFlip(t) \/ ThreadFlipBeginWait(t) \/ ThreadFlipBegin(t)
               \/ FlipCallback(t)
      BY <2>2, ZenonT(30) DEF DecrementDisableThreadFlip, ThreadFlipBeginWait,
        ThreadFlipBegin, FlipCallback
    <2>3. CASE FlipResume(t) \/ ThreadFlipEnd(t) \/ FlipSharedLock(t) \/ FlipOther(t)
      BY <2>3, ZenonT(30) DEF FlipResume, ThreadFlipEnd, FlipSharedLock, FlipOther
    <2>4. CASE FlipSelf(t) \/ FlipLower(t)
      BY <2>4, ZenonT(30) DEF FlipSelf, FlipLower
    <2>5. CASE FlipDone(t)
      BY <2>5, Zenon DEF FlipDone
    <2> QED
      BY <2>1, <2>2, <2>3, <2>4, <2>5, Zenon DEF FlipStep
  <1>4. LocalInv(t)' /\ MutatorInv'
    <2> /\ state \in [Threads -> States]
        /\ op \in [Threads -> OpNames \cup {"none"}]
        /\ cur \in [Threads -> Threads \cup {NoThread}]
        /\ todo \in [Threads -> SUBSET Threads]
        /\ raised \in [Threads -> SUBSET Threads]
        /\ pc \in [Threads -> Labels]
        /\ cont \in [Threads -> ContLabels]
      BY SMT DEF TypeInv, ThreadType, OpType
    <2> USE ThreadsAssumption
        DEF LocalInv, StateAt, LockAt, OpAt, CurAt, MutatorInv, ListLockLabels, CountLockLabels,
            LocksFree, LeavingLabels, SuspendAllLabels, FlipLabels, CheckpointLabels,
            SynchronousLabels, ResumingLabels, RunnableLabels, ContLabels, Goto, threadVars,
            lockVars, opVars
    <2>1. CASE IncrementDisableThreadFlip(t)
      <3>1. /\ pc[t] = "running"
            /\ UNCHANGED <<state, listLock, countLock, mutatorOwner, mutatorReaders, op, cur>>
            /\ \/ UNCHANGED <<pc, cont>>
               \/ /\ pc' = [pc EXCEPT ![t] = "toSuspended"]
                  /\ cont' = [cont EXCEPT ![t] = "jniWait"]
        BY <2>1, Zenon DEF IncrementDisableThreadFlip
      <3> QED
        BY <3>1
    <2>2. CASE CallFlipThreadRoots(t)
      BY <2>2, Zenon DEF CallFlipThreadRoots
    <2>3. CASE JniCriticalWait(t)
      BY <2>3, Zenon DEF JniCriticalWait
    <2>4. CASE JniCriticalEnter(t)
      BY <2>4, Zenon DEF JniCriticalEnter
    <2>5. CASE DecrementDisableThreadFlip(t)
      BY <2>5, Zenon DEF DecrementDisableThreadFlip
    <2>6. CASE ThreadFlipBeginWait(t)
      BY <2>6, Zenon DEF ThreadFlipBeginWait
    <2>7. CASE ThreadFlipBegin(t)
      BY <2>7, Zenon DEF ThreadFlipBegin
    <2>8. CASE FlipCallback(t)
      BY <2>8, Zenon DEF FlipCallback
    <2>9. CASE FlipResume(t)
      BY <2>9, Zenon DEF FlipResume
    <2>10. CASE ThreadFlipEnd(t)
      BY <2>10, Zenon DEF ThreadFlipEnd
    <2>11. CASE FlipSharedLock(t)
      BY <2>11, Zenon DEF FlipSharedLock
    <2>12. CASE FlipOther(t)
      BY <2>12, Zenon DEF FlipOther
    <2>13. CASE FlipSelf(t)
      BY <2>13, Zenon DEF FlipSelf
    <2>14. CASE FlipLower(t)
      BY <2>14, Zenon DEF FlipLower
    <2>15. CASE FlipDone(t)
      BY <2>15, Zenon DEF FlipDone
    <2> QED
      BY <2>1, <2>2, <2>3, <2>4, <2>5, <2>6, <2>7, <2>8, <2>9, <2>10, <2>11, <2>12, <2>13,
        <2>14, <2>15 DEF FlipStep
  <1> QED
    BY <1>1, <1>2, <1>3, <1>4, Zenon DEF ControlStep

\* What FlipThreadRoots and JNI critical sections do to them: no barrier changes.
LEMMA FlipKeepsStops ==
  ASSUME TypeInv, NEW t \in Threads, StateAt(t), OpAt(t), CurAt(t), RaisedAt(t), StoppedAt(t),
         FlipStep(t)
  PROVE  /\ OperationStep(t)
         /\ SameBarriers(t)
  <1>1. RaisedFrame(t) /\ AllStep(t)
    <2> /\ raised \in [Threads -> SUBSET Threads]
        /\ todo \in [Threads -> SUBSET Threads]
        /\ pc \in [Threads -> Labels]
      BY SMT DEF TypeInv, OpType
    <2> USE DEF RaisedFrame, AllStep, Suspending, InLoop, HasAll, Goto, opVars, listVars
    <2>1. CASE \/ IncrementDisableThreadFlip(t) \/ CallFlipThreadRoots(t) \/ JniCriticalWait(t)
               \/ JniCriticalEnter(t)
      BY <2>1, ZenonT(30) DEF IncrementDisableThreadFlip, CallFlipThreadRoots,
        JniCriticalWait, JniCriticalEnter
    <2>2. CASE \/ DecrementDisableThreadFlip(t) \/ ThreadFlipBeginWait(t) \/ ThreadFlipBegin(t)
               \/ FlipCallback(t)
      BY <2>2, ZenonT(30) DEF DecrementDisableThreadFlip, ThreadFlipBeginWait,
        ThreadFlipBegin, FlipCallback
    <2>3. CASE FlipResume(t) \/ ThreadFlipEnd(t) \/ FlipSharedLock(t) \/ FlipOther(t)
      BY <2>3, ZenonT(30) DEF FlipResume, Lower, ThreadFlipEnd, FlipSharedLock, FlipOther
    <2>4. CASE FlipSelf(t) \/ FlipLower(t) \/ FlipDone(t)
      BY <2>4, ZenonT(30) DEF FlipSelf, FlipLower, Lower, FlipDone
    <2> QED
      BY <2>1, <2>2, <2>3, <2>4, Zenon DEF FlipStep
  <1>2. RaisedAt(t)'
    <2> /\ list \subseteq Threads
        /\ op \in [Threads -> OpNames \cup {"none"}]
        /\ cur \in [Threads -> Threads \cup {NoThread}]
        /\ todo \in [Threads -> SUBSET Threads]
        /\ raised \in [Threads -> SUBSET Threads]
        /\ pc \in [Threads -> Labels]
        /\ cont \in [Threads -> ContLabels]
      BY SMT DEF TypeInv, OpType, ListType
    <2>0. ASSUME UNCHANGED <<list, op, cur, todo, raised, pc, cont>>
          PROVE  RaisedAt(t)'
      BY <2>0, RaisedSame
    <2> USE DEF RaisedAt, InLoop, HasAll, HasTodo, OpAt, LeavingLabels, SuspendAllLabels,
           FlipLabels, CheckpointLabels, SynchronousLabels, ResumingLabels, Goto, opVars, listVars
    <2>1. CASE IncrementDisableThreadFlip(t)
      <3>1. /\ pc[t] = "running" /\ UNCHANGED <<list, op, cur, todo, raised>>
            /\ \/ UNCHANGED <<pc, cont>>
               \/ /\ pc' = [pc EXCEPT ![t] = "toSuspended"]
                  /\ cont' = [cont EXCEPT ![t] = "jniWait"]
        BY <2>1, Zenon DEF IncrementDisableThreadFlip
      <3>2. CASE UNCHANGED <<pc, cont>>
        BY <2>0, <3>1, <3>2
      <3>3. CASE /\ pc' = [pc EXCEPT ![t] = "toSuspended"]
                 /\ cont' = [cont EXCEPT ![t] = "jniWait"]
        BY <3>1, <3>3
      <3> QED
        BY <3>1, <3>2, <3>3, Zenon
    <2>2. CASE CallFlipThreadRoots(t)
      BY <2>2, Zenon DEF CallFlipThreadRoots
    <2>3. CASE JniCriticalWait(t)
      BY <2>3, Zenon DEF JniCriticalWait
    <2>4. CASE JniCriticalEnter(t)
      BY <2>4, Zenon DEF JniCriticalEnter
    <2>5. CASE DecrementDisableThreadFlip(t)
      BY <2>5, Zenon DEF DecrementDisableThreadFlip
    <2>6. CASE ThreadFlipBeginWait(t)
      BY <2>6, Zenon DEF ThreadFlipBeginWait
    <2>7. CASE ThreadFlipBegin(t)
      BY <2>7, Zenon DEF ThreadFlipBegin
    <2>8. CASE FlipCallback(t)
      BY <2>8, Zenon DEF FlipCallback
    <2>9. CASE FlipResume(t)
      BY <2>9, Zenon DEF FlipResume, Lower, LocksFree, ResumedEarly
    <2>10. CASE ThreadFlipEnd(t)
      BY <2>10, Zenon DEF ThreadFlipEnd
    <2>11. CASE FlipSharedLock(t)
      BY <2>11, Zenon DEF FlipSharedLock
    <2>12. CASE FlipOther(t)
      BY <2>12, Zenon DEF FlipOther
    <2>13. CASE FlipSelf(t)
      BY <2>13, Zenon DEF FlipSelf
    <2>14. CASE FlipLower(t)
      BY <2>14, Zenon DEF FlipLower, Lower
    <2>15. CASE FlipDone(t)
      BY <2>15, Zenon DEF FlipDone
    <2> QED
      BY <2>1, <2>2, <2>3, <2>4, <2>5, <2>6, <2>7, <2>8, <2>9, <2>10, <2>11, <2>12, <2>13,
        <2>14, <2>15 DEF FlipStep
  <1>3. CountStep(t)
    <2> /\ flags \in [Threads -> SUBSET Flags]
        /\ list \subseteq Threads
        /\ op \in [Threads -> OpNames \cup {"none"}]
        /\ cur \in [Threads -> Threads \cup {NoThread}]
        /\ todo \in [Threads -> SUBSET Threads]
        /\ raised \in [Threads -> SUBSET Threads]
        /\ pc \in [Threads -> Labels]
        /\ cont \in [Threads -> ContLabels]
      BY DEF TypeInv, ThreadType, ListType, OpType
    <2> USE DEF Goto, threadVars, opVars
    <2>1. CASE \/ IncrementDisableThreadFlip(t) \/ CallFlipThreadRoots(t) \/ JniCriticalWait(t)
               \/ JniCriticalEnter(t)
      BY <2>1, CountSame, ZenonT(30) DEF IncrementDisableThreadFlip, CallFlipThreadRoots,
        JniCriticalWait, JniCriticalEnter
    <2>2. CASE \/ DecrementDisableThreadFlip(t) \/ ThreadFlipBeginWait(t) \/ ThreadFlipBegin(t)
               \/ FlipCallback(t)
      BY <2>2, CountSame, ZenonT(30) DEF DecrementDisableThreadFlip, ThreadFlipBeginWait,
        ThreadFlipBegin, FlipCallback
    <2>3. CASE FlipResume(t)
      <3>1. ResumedEarly(t) \in SUBSET Threads /\ ResumedEarly(t) \subseteq raised[t]
        BY <2>3, Zenon DEF FlipResume, RaisedAt, HasAll, ResumedEarly
      <3> QED
        BY <2>3, <3>1, CountLower, Zenon DEF FlipResume
    <2>4. CASE ThreadFlipEnd(t) \/ FlipSharedLock(t) \/ FlipOther(t) \/ FlipSelf(t)
      BY <2>4, CountSame, ZenonT(30) DEF ThreadFlipEnd, FlipSharedLock, FlipOther, FlipSelf
    <2>5. CASE FlipLower(t)
      <3>1. todo[t] \in SUBSET Threads /\ todo[t] \subseteq raised[t]
        BY <2>5 DEF FlipLower, RaisedAt, HasTodo
      <3> QED
        BY <2>5, <3>1, CountLower DEF FlipLower
    <2>6. CASE FlipDone(t)
      BY <2>6, CountSame, Zenon DEF FlipDone
    <2> QED
      BY <2>1, <2>2, <2>3, <2>4, <2>5, <2>6, Zenon DEF FlipStep
  <1>4. StopsStay(t)
    <2> /\ state \in [Threads -> States]
        /\ flags \in [Threads -> SUBSET Flags]
        /\ barriers \in [Threads -> SUBSET Threads]
        /\ pc \in [Threads -> Labels]
      BY SMT DEF TypeInv, ThreadType, OpType
    <2> USE DEF Goto, threadVars
    <2>1. CASE \/ IncrementDisableThreadFlip(t) \/ CallFlipThreadRoots(t) \/ JniCriticalWait(t)
               \/ JniCriticalEnter(t)
      BY <2>1, Zenon DEF IncrementDisableThreadFlip, CallFlipThreadRoots, JniCriticalWait,
        JniCriticalEnter, StopsStay
    <2>2. CASE \/ DecrementDisableThreadFlip(t) \/ ThreadFlipBeginWait(t) \/ ThreadFlipBegin(t)
               \/ FlipCallback(t)
      BY <2>2, Zenon DEF DecrementDisableThreadFlip, ThreadFlipBeginWait, ThreadFlipBegin,
        FlipCallback, StopsStay
    <2>3. CASE FlipResume(t) \/ ThreadFlipEnd(t) \/ FlipSharedLock(t) \/ FlipOther(t)
      BY <2>3, Zenon DEF FlipResume, Lower, ThreadFlipEnd, FlipSharedLock, FlipOther,
        TakeFlipFunction, StopsStay
    <2>4. CASE FlipSelf(t) \/ FlipLower(t) \/ FlipDone(t)
      BY <2>4, Zenon DEF FlipSelf, TakeFlipFunction, FlipLower, Lower, FlipDone, StopsStay
    <2> QED
      BY <2>1, <2>2, <2>3, <2>4, Zenon DEF FlipStep
  <1>5. StoppedAt(t)'
    <2> /\ state \in [Threads -> States]
        /\ flags \in [Threads -> SUBSET Flags]
        /\ barriers \in [Threads -> SUBSET Threads]
        /\ cur \in [Threads -> Threads \cup {NoThread}]
        /\ raised \in [Threads -> SUBSET Threads]
        /\ op \in [Threads -> OpNames \cup {"none"}]
        /\ pc \in [Threads -> Labels]
        /\ cont \in [Threads -> ContLabels]
      BY SMT DEF TypeInv, ThreadType, OpType
    <2> USE DEF InLoop, HasAll, HasTodo, Goto, threadVars, opVars
    <2> pc[t] \notin LeavingLabels => cont[t] = "native"
      BY DEF OpAt
    <2>1. CASE IncrementDisableThreadFlip(t) \/ CallFlipThreadRoots(t) \/ JniCriticalWait(t)
      BY <2>1, SMTT(60), ZenonT(60) DEF IncrementDisableThreadFlip, StoppedAt, LeavingLabels,
         ResumingLabels,
        CallFlipThreadRoots, JniCriticalWait
    <2>2. CASE JniCriticalEnter(t)
      <3>1. op[t] = "none"
        BY <2>2 DEF JniCriticalEnter, OpAt
      <3> QED
        BY <2>2, <3>1 DEF JniCriticalEnter, StoppedAt, LeavingLabels, ResumingLabels
    <2>3. CASE DecrementDisableThreadFlip(t) \/ ThreadFlipBeginWait(t) \/ ThreadFlipBegin(t)
      BY <2>3 DEF DecrementDisableThreadFlip, StoppedAt, LeavingLabels,
        ResumingLabels, ThreadFlipBeginWait, ThreadFlipBegin
    <2>4. CASE FlipCallback(t) \/ FlipResume(t) \/ ThreadFlipEnd(t)
      <3>1. /\ pc[t] \in {"saHeld", "flipResume", "flipEnd"}
            /\ pc'[t] \in {"flipResume", "flipEnd", "flipShared"}
            /\ UNCHANGED <<state, barriers, op, cur, cont>> /\ raised'[t] \subseteq raised[t]
        <4>1. CASE FlipCallback(t)
          BY <4>1, SMTT(60) DEF FlipCallback
        <4>2. CASE FlipResume(t)
          BY <4>2, SMTT(60) DEF FlipResume, Lower
        <4>3. CASE ThreadFlipEnd(t)
          BY <4>3, SMT DEF ThreadFlipEnd
        <4> QED
          BY <2>4, <4>1, <4>2, <4>3, Zenon
      <3> QED
        BY <3>1 DEF StoppedAt, LeavingLabels, ResumingLabels
    <2>5. CASE FlipSharedLock(t) \/ FlipOther(t) \/ FlipSelf(t)
      BY <2>5 DEF FlipSharedLock, StoppedAt, LeavingLabels, ResumingLabels, FlipOther,
        TakeFlipFunction, FlipSelf
    <2>6. CASE FlipLower(t) \/ FlipDone(t)
      BY <2>6 DEF FlipLower, Lower, StoppedAt, LeavingLabels, ResumingLabels, FlipDone
    <2> QED
      BY <2>1, <2>2, <2>3, <2>4, <2>5, <2>6 DEF FlipStep
  <1>6. SameBarriers(t)
    <2> /\ flags \in [Threads -> SUBSET Flags]
        /\ barriers \in [Threads -> SUBSET Threads]
        /\ todo \in [Threads -> SUBSET Threads]
        /\ raised \in [Threads -> SUBSET Threads]
        /\ pc \in [Threads -> Labels]
      BY DEF TypeInv, ThreadType, OpType
    <2> USE DEF Waits, Unasked, InLoop, Goto, threadVars, listVars, opVars
    <2>1. CASE \/ IncrementDisableThreadFlip(t) \/ CallFlipThreadRoots(t) \/ JniCriticalWait(t)
               \/ FlipSelf(t)
      BY <2>1, ZenonT(30) DEF IncrementDisableThreadFlip, CallFlipThreadRoots,
        JniCriticalWait, SameBarriers, FlipSelf, TakeFlipFunction
    <2>2. CASE \/ JniCriticalEnter(t) \/ DecrementDisableThreadFlip(t) \/ ThreadFlipBeginWait(t)
               \/ FlipDone(t)
      BY <2>2, ZenonT(30) DEF JniCriticalEnter, DecrementDisableThreadFlip,
        ThreadFlipBeginWait, SameBarriers, FlipDone
    <2>3. CASE ThreadFlipBegin(t) \/ FlipCallback(t)
      BY <2>3 DEF ThreadFlipBegin, FlipCallback, SameBarriers
    <2>4. CASE FlipResume(t) \/ FlipLower(t)
      <3>1. CASE FlipResume(t)
        BY <3>1 DEF FlipResume, Lower, SameBarriers
      <3>2. CASE FlipLower(t)
        BY <3>2 DEF FlipLower, Lower, SameBarriers
      <3> QED
        BY <2>4, <3>1, <3>2, Zenon
    <2>5. CASE ThreadFlipEnd(t) \/ FlipSharedLock(t) \/ FlipOther(t)
      BY <2>5, Zenon DEF ThreadFlipEnd, FlipSharedLock, FlipOther, TakeFlipFunction, SameBarriers
    <2> QED
      BY <2>1, <2>2, <2>3, <2>4, <2>5, Zenon DEF FlipStep
  <1> QED
    BY <1>1, <1>2, <1>3, <1>4, <1>5, <1>6, Zenon DEF OperationStep

-----------------------------------------------------------------------------
(* RunCheckpoint                                                           *)

RunCheckpointStep(t) ==
  \/ CallRunCheckpoint(t) \/ RunCheckpointBegin(t) \/ RequestCheckpoint(t)
  \/ RequestCheckpointFails(t) \/ KeepSuspended(t) \/ KeepSuspendedRetry(t)
  \/ RunCheckpointOnSelf(t) \/ RunCheckpointOnOther(t) \/ RunCheckpointLower(t)
  \/ RunCheckpointBroadcast(t) \/ RunCheckpointDone(t)

\* Every step of RunCheckpoint keeps the control invariant.
LEMMA RunCheckpointKeepsControl ==
  ASSUME TypeInv, CheckpointOnlyWhenRunnable, MutatorInv, NEW t \in Threads,
         StateAt(t), LockAt(t), OpAt(t), CurAt(t), RunCheckpointStep(t)
  PROVE  ControlStep(t)
  <1>1. TypeInv'
    <2> USE DEF TypeInv, ThreadType, ListType, OpType, Labels, ContLabels, States, Flags, OpNames,
           Goto, threadVars, listVars, lockVars, flipVars, opVars
    <2>1. CASE CallRunCheckpoint(t)
      BY <2>1, Zenon DEF CallRunCheckpoint
    <2>2. CASE RunCheckpointBegin(t)
      BY <2>2, Zenon DEF RunCheckpointBegin
    <2>3. CASE KeepSuspendedRetry(t)
      BY <2>3, Zenon DEF KeepSuspendedRetry
    <2>4. CASE RunCheckpointOnSelf(t)
      BY <2>4, Zenon DEF RunCheckpointOnSelf
    <2>5. CASE RequestCheckpoint(t)
      <3>1. PICK u \in todo[t] :
           /\ flags' = [flags EXCEPT ![u] = @ \cup {"CheckpointRequest"}]
           /\ checkpoints' = [checkpoints EXCEPT ![u] = Append(@, t)]
           /\ todo' = [todo EXCEPT ![t] = @ \ {u}]
        BY <2>5, Zenon DEF RequestCheckpoint
      <3>2. u \in Threads
        BY <2>5 DEF OpType
      <3>3. checkpoints' \in [Threads -> Seq(Threads)]
        BY <3>1, <3>2, SMTT(60)
      <3> QED
        BY <2>5, <3>1, <3>2, <3>3 DEF RequestCheckpoint
    <2>6. CASE RequestCheckpointFails(t)
      <3>1. PICK u \in todo[t] :
           /\ cur' = [cur EXCEPT ![t] = u]
           /\ todo' = [todo EXCEPT ![t] = @ \ {u}]
        BY <2>6, Zenon DEF RequestCheckpointFails
      <3>2. u \in Threads
        BY <2>6 DEF OpType
      <3> QED
        BY <2>6, <3>1, <3>2 DEF RequestCheckpointFails
    <2>7. CASE KeepSuspended(t)
      <3>1. cur[t] \in Threads
        BY <2>7 DEF CurAt, KeepSuspended
      <3> QED
        BY <2>7, <3>1, RaiseType, Zenon DEF KeepSuspended
    <2>8. CASE RunCheckpointOnOther(t)
      <3>1. PICK u \in raised[t] : /\ due' = [due EXCEPT ![t] = @ \ {u}]
                                   /\ cur' = [cur EXCEPT ![t] = u]
        BY <2>8, Zenon DEF RunCheckpointOnOther
      <3> QED
        BY <2>8, <3>1 DEF RunCheckpointOnOther
    <2>9. CASE RunCheckpointLower(t)
      BY <2>9 DEF RunCheckpointLower, Lower
    <2>10. CASE RunCheckpointDone(t)
      BY <2>10, Zenon DEF RunCheckpointDone
    <2>11. CASE RunCheckpointBroadcast(t)
      <3>1. \/ pc' = [pc EXCEPT ![t] = "toSuspended"] /\ cont' = [cont EXCEPT ![t] = "rcWait"]
            \/ pc' = [pc EXCEPT ![t] = "rcWait"] /\ cont' = cont
        BY <2>11 DEF RunCheckpointBroadcast
      <3>2. pc' \in [Threads -> Labels]
          <4>1. CASE pc' = [pc EXCEPT ![t] = "toSuspended"]
            BY <4>1
          <4>2. CASE pc' = [pc EXCEPT ![t] = "rcWait"]
            BY <4>2
          <4> QED
            BY <3>1, <4>1, <4>2, Zenon
      <3>3. cont' \in [Threads -> ContLabels]
          <4>1. CASE cont' = [cont EXCEPT ![t] = "rcWait"]
            BY <4>1
          <4>2. CASE cont' = cont
            BY <4>2
          <4> QED
            BY <3>1, <4>1, <4>2, Zenon
      <3> QED
        BY <2>11, <3>2, <3>3 DEF RunCheckpointBroadcast
    <2> QED
      BY <2>1, <2>2, <2>5, <2>6, <2>7, <2>3, <2>4, <2>8, <2>9, <2>11, <2>10, Zenon DEF
        RunCheckpointStep
  <1>2. CheckpointOnlyWhenRunnable'
    <2> /\ state \in [Threads -> States]
        /\ flags \in [Threads -> SUBSET Flags]
        /\ checkpoints \in [Threads -> Seq(Threads)]
        /\ todo \in [Threads -> SUBSET Threads]
        /\ pc \in [Threads -> Labels]
      BY SMT DEF TypeInv, ThreadType, OpType
    <2> USE DEF CheckpointOnlyWhenRunnable, threadVars
    <2>1. CASE CallRunCheckpoint(t) \/ RunCheckpointBegin(t)
      BY <2>1, ZenonT(30) DEF CallRunCheckpoint, RunCheckpointBegin
    <2>2. CASE RequestCheckpointFails(t)
      BY <2>2, Zenon DEF RequestCheckpointFails
    <2>3. CASE KeepSuspended(t)
      BY <2>3, Zenon DEF KeepSuspended, Raise
    <2>4. CASE RequestCheckpoint(t)
      <3>1. PICK u \in todo[t] :
              /\ state[u] = "Runnable"
              /\ flags' = [flags EXCEPT ![u] = @ \cup {"CheckpointRequest"}]
              /\ checkpoints' = [checkpoints EXCEPT ![u] = Append(@, t)]
        BY <2>4, Zenon DEF RequestCheckpoint
      <3>2. Append(checkpoints[u], t) # <<>>
        BY <3>1, AppendIsNotEmpty
      <3>3. state' = state
        BY <2>4 DEF RequestCheckpoint
      <3> QED
        BY <3>1, <3>2, <3>3
    <2>5. CASE KeepSuspendedRetry(t) \/ RunCheckpointOnSelf(t)
      BY <2>5, ZenonT(30) DEF KeepSuspendedRetry, RunCheckpointOnSelf
    <2>6. CASE RunCheckpointOnOther(t)
      BY <2>6, Zenon DEF RunCheckpointOnOther
    <2>7. CASE RunCheckpointLower(t)
      BY <2>7, Zenon DEF RunCheckpointLower, Lower
    <2>8. CASE RunCheckpointBroadcast(t) \/ RunCheckpointDone(t)
      BY <2>8, ZenonT(30) DEF RunCheckpointBroadcast, RunCheckpointDone
    <2> QED
      BY <2>1, <2>4, <2>2, <2>3, <2>5, <2>6, <2>7, <2>8, Zenon DEF RunCheckpointStep
  <1>3. Frame(t)
    <2> /\ state \in [Threads -> States]
        /\ op \in [Threads -> OpNames \cup {"none"}]
        /\ cur \in [Threads -> Threads \cup {NoThread}]
        /\ pc \in [Threads -> Labels]
        /\ cont \in [Threads -> ContLabels]
      BY SMT DEF TypeInv, ThreadType, OpType
    <2> USE ThreadsAssumption
        DEF Frame, KeepsLock, LockAt, ListLockLabels, CountLockLabels, LocksFree, Goto, threadVars,
            lockVars, opVars
    <2>1. CASE \/ CallRunCheckpoint(t) \/ RunCheckpointBegin(t) \/ RequestCheckpoint(t)
               \/ RequestCheckpointFails(t)
      BY <2>1, ZenonT(30) DEF CallRunCheckpoint, RunCheckpointBegin, RequestCheckpoint,
        RequestCheckpointFails
    <2>2. CASE KeepSuspended(t)
      BY <2>2, Zenon DEF KeepSuspended
    <2>3. CASE KeepSuspendedRetry(t)
      BY <2>3, Zenon DEF KeepSuspendedRetry
    <2>4. CASE RunCheckpointOnSelf(t) \/ RunCheckpointOnOther(t)
      BY <2>4, ZenonT(30) DEF RunCheckpointOnSelf, RunCheckpointOnOther
    <2>5. CASE RunCheckpointLower(t)
      BY <2>5, Zenon DEF RunCheckpointLower
    <2>6. CASE RunCheckpointBroadcast(t)
      BY <2>6, Zenon DEF RunCheckpointBroadcast
    <2>7. CASE RunCheckpointDone(t)
      BY <2>7, Zenon DEF RunCheckpointDone
    <2> QED
      BY <2>1, <2>2, <2>3, <2>4, <2>5, <2>6, <2>7, Zenon DEF RunCheckpointStep
  <1>4. LocalInv(t)' /\ MutatorInv'
    <2> /\ state \in [Threads -> States]
        /\ op \in [Threads -> OpNames \cup {"none"}]
        /\ cur \in [Threads -> Threads \cup {NoThread}]
        /\ todo \in [Threads -> SUBSET Threads]
        /\ raised \in [Threads -> SUBSET Threads]
        /\ pc \in [Threads -> Labels]
        /\ cont \in [Threads -> ContLabels]
      BY SMT DEF TypeInv, ThreadType, OpType
    <2> USE ThreadsAssumption
        DEF LocalInv, StateAt, LockAt, OpAt, CurAt, MutatorInv, ListLockLabels, CountLockLabels,
            LocksFree, LeavingLabels, SuspendAllLabels, FlipLabels, CheckpointLabels,
            SynchronousLabels, ResumingLabels, RunnableLabels, ContLabels, Goto, threadVars,
            lockVars, opVars
    <2>1. CASE CallRunCheckpoint(t)
      BY <2>1, Zenon DEF CallRunCheckpoint
    <2>2. CASE RunCheckpointBegin(t)
      BY <2>2, Zenon DEF RunCheckpointBegin
    <2>3. CASE RequestCheckpoint(t)
      BY <2>3, Zenon DEF RequestCheckpoint
    <2>4. CASE KeepSuspended(t)
      BY <2>4, Zenon DEF KeepSuspended
    <2>5. CASE RequestCheckpointFails(t) \/ RunCheckpointOnOther(t) \/ RunCheckpointBroadcast(t)
      <3>1. CASE RequestCheckpointFails(t)
        BY <3>1, SMTT(60) DEF RequestCheckpointFails
      <3>2. CASE RunCheckpointOnOther(t)
        BY <3>2, SMTT(60) DEF RunCheckpointOnOther
      <3>3. CASE RunCheckpointBroadcast(t)
        BY <3>3, SMT DEF RunCheckpointBroadcast
      <3> QED
        BY <2>5, <3>1, <3>2, <3>3, Zenon
    <2>6. CASE KeepSuspendedRetry(t)
      BY <2>6, Zenon DEF KeepSuspendedRetry
    <2>7. CASE RunCheckpointOnSelf(t)
      BY <2>7, Zenon DEF RunCheckpointOnSelf
    <2>8. CASE RunCheckpointLower(t)
      BY <2>8, Zenon DEF RunCheckpointLower
    <2>9. CASE RunCheckpointDone(t)
      BY <2>9, Zenon DEF RunCheckpointDone
    <2> QED
      BY <2>1, <2>2, <2>3, <2>5, <2>4, <2>6, <2>7, <2>8, <2>9 DEF RunCheckpointStep
  <1> QED
    BY <1>1, <1>2, <1>3, <1>4, Zenon DEF ControlStep

\* What RunCheckpoint does to the operations and counts: no barrier changes.
LEMMA RunCheckpointKeepsStops ==
  ASSUME TypeInv, NEW t \in Threads, StateAt(t), OpAt(t), CurAt(t), RaisedAt(t), StoppedAt(t),
         RunCheckpointStep(t)
  PROVE  /\ OperationStep(t)
         /\ SameBarriers(t)
  <1>1. RaisedFrame(t) /\ AllStep(t)
    <2> /\ raised \in [Threads -> SUBSET Threads]
        /\ todo \in [Threads -> SUBSET Threads]
        /\ pc \in [Threads -> Labels]
      BY SMT DEF TypeInv, OpType
    <2> USE DEF RaisedFrame, AllStep, Suspending, InLoop, HasAll, Goto, opVars, listVars
    <2>1. CASE \/ CallRunCheckpoint(t) \/ RunCheckpointBegin(t) \/ RequestCheckpoint(t)
               \/ RequestCheckpointFails(t)
      BY <2>1, ZenonT(30) DEF CallRunCheckpoint, RunCheckpointBegin, RequestCheckpoint,
        RequestCheckpointFails
    <2>2. CASE \/ KeepSuspended(t) \/ KeepSuspendedRetry(t) \/ RunCheckpointOnSelf(t)
               \/ RunCheckpointOnOther(t)
      BY <2>2, ZenonT(30) DEF KeepSuspended, Raise, KeepSuspendedRetry, RunCheckpointOnSelf,
        RunCheckpointOnOther
    <2>3. CASE RunCheckpointLower(t) \/ RunCheckpointBroadcast(t) \/ RunCheckpointDone(t)
      BY <2>3, ZenonT(30) DEF RunCheckpointLower, Lower, RunCheckpointBroadcast,
        RunCheckpointDone
    <2> QED
      BY <2>1, <2>2, <2>3, Zenon DEF RunCheckpointStep
  <1>2. RaisedAt(t)'
    <2> /\ list \subseteq Threads
        /\ op \in [Threads -> OpNames \cup {"none"}]
        /\ cur \in [Threads -> Threads \cup {NoThread}]
        /\ todo \in [Threads -> SUBSET Threads]
        /\ raised \in [Threads -> SUBSET Threads]
        /\ pc \in [Threads -> Labels]
        /\ cont \in [Threads -> ContLabels]
      BY SMT DEF TypeInv, OpType, ListType
    <2> USE DEF RaisedAt, InLoop, HasAll, HasTodo, OpAt, LeavingLabels, SuspendAllLabels,
           FlipLabels, CheckpointLabels, SynchronousLabels, ResumingLabels, Goto, opVars, listVars
    <2>1. CASE CallRunCheckpoint(t)
      BY <2>1, Zenon DEF CallRunCheckpoint
    <2>2. CASE RunCheckpointBegin(t)
      BY <2>2 DEF RunCheckpointBegin, LocksFree
    <2>3. CASE KeepSuspended(t)
      BY <2>3 DEF KeepSuspended, Raise
    <2>4. CASE KeepSuspendedRetry(t)
      BY <2>4, Zenon DEF KeepSuspendedRetry
    <2>5. CASE RequestCheckpoint(t) \/ RequestCheckpointFails(t) \/ RunCheckpointBroadcast(t)
      <3>1. CASE RequestCheckpoint(t)
        BY <3>1, SMT DEF RequestCheckpoint
      <3>2. CASE RequestCheckpointFails(t)
        BY <3>2, SMTT(60) DEF RequestCheckpointFails
      <3>3. CASE RunCheckpointBroadcast(t)
        BY <3>3, SMT DEF RunCheckpointBroadcast
      <3> QED
        BY <2>5, <3>1, <3>2, <3>3, Zenon
    <2>6. CASE RunCheckpointOnSelf(t)
      BY <2>6, Zenon DEF RunCheckpointOnSelf
    <2>7. CASE RunCheckpointOnOther(t)
      BY <2>7 DEF RunCheckpointOnOther
    <2>8. CASE RunCheckpointLower(t)
      BY <2>8, Zenon DEF RunCheckpointLower, Lower
    <2>9. CASE RunCheckpointDone(t)
      BY <2>9, Zenon DEF RunCheckpointDone
    <2> QED
      BY <2>1, <2>2, <2>5, <2>3, <2>4, <2>6, <2>7, <2>8, <2>9 DEF RunCheckpointStep
  <1>3. CountStep(t)
    <2> /\ flags \in [Threads -> SUBSET Flags]
        /\ list \subseteq Threads
        /\ op \in [Threads -> OpNames \cup {"none"}]
        /\ cur \in [Threads -> Threads \cup {NoThread}]
        /\ todo \in [Threads -> SUBSET Threads]
        /\ raised \in [Threads -> SUBSET Threads]
        /\ pc \in [Threads -> Labels]
        /\ cont \in [Threads -> ContLabels]
      BY SMT DEF TypeInv, ThreadType, ListType, OpType
    <2> USE DEF Goto, threadVars, opVars
    <2>1. CASE \/ CallRunCheckpoint(t) \/ RunCheckpointBegin(t) \/ RequestCheckpointFails(t)
               \/ KeepSuspendedRetry(t)
      BY <2>1, CountSame, ZenonT(30) DEF CallRunCheckpoint, RunCheckpointBegin,
        RequestCheckpointFails, KeepSuspendedRetry
    <2>2. CASE RequestCheckpoint(t)
      <3>1. PICK u \in todo[t] : flags' = [flags EXCEPT ![u] = @ \cup {"CheckpointRequest"}]
        BY <2>2, Zenon DEF RequestCheckpoint
      <3>2. \A w \in Threads : "SuspendRequest" \in flags'[w] <=> "SuspendRequest" \in flags[w]
        BY <3>1, SMT
      <3> QED
        BY <2>2, <3>2, CountSame, Zenon DEF RequestCheckpoint
    <2>3. CASE KeepSuspended(t)
      <3>1. cur[t] \in Threads /\ cur[t] \notin raised[t]
        BY <2>3 DEF KeepSuspended, RaisedAt
      <3> QED
        BY <2>3, <3>1, CountRaise, Zenon DEF KeepSuspended
    <2>4. CASE \/ RunCheckpointOnSelf(t) \/ RunCheckpointOnOther(t) \/ RunCheckpointBroadcast(t)
               \/ RunCheckpointDone(t)
      BY <2>4, CountSame, ZenonT(30) DEF RunCheckpointOnSelf, RunCheckpointOnOther,
        RunCheckpointBroadcast, RunCheckpointDone
    <2>5. CASE RunCheckpointLower(t)
      <3>1. {cur[t]} \in SUBSET Threads /\ {cur[t]} \subseteq raised[t]
        BY <2>5 DEF RunCheckpointLower, RaisedAt
      <3> QED
        BY <2>5, <3>1, CountLower, Zenon DEF RunCheckpointLower
    <2> QED
      BY <2>1, <2>2, <2>3, <2>4, <2>5, Zenon DEF RunCheckpointStep
  <1>4. StopsStay(t)
    <2> /\ state \in [Threads -> States]
        /\ flags \in [Threads -> SUBSET Flags]
        /\ barriers \in [Threads -> SUBSET Threads]
        /\ pc \in [Threads -> Labels]
      BY SMT DEF TypeInv, ThreadType, OpType
    <2> USE DEF Goto, threadVars
    <2>1. CASE \/ CallRunCheckpoint(t) \/ RunCheckpointBegin(t) \/ RequestCheckpoint(t)
               \/ RequestCheckpointFails(t)
      BY <2>1, Zenon DEF CallRunCheckpoint, RunCheckpointBegin, RequestCheckpoint,
        RequestCheckpointFails, StopsStay
    <2>2. CASE KeepSuspended(t)
      BY <2>2, SMT DEF KeepSuspended, Raise, StopsStay
    <2>3. CASE \/ KeepSuspendedRetry(t) \/ RunCheckpointOnSelf(t) \/ RunCheckpointOnOther(t)
               \/ RunCheckpointLower(t)
      BY <2>3, Zenon DEF KeepSuspendedRetry, RunCheckpointOnSelf, RunCheckpointOnOther,
        RunCheckpointLower, Lower, StopsStay
    <2>4. CASE RunCheckpointBroadcast(t) \/ RunCheckpointDone(t)
      BY <2>4, Zenon DEF RunCheckpointBroadcast, RunCheckpointDone, StopsStay
    <2> QED
      BY <2>1, <2>2, <2>3, <2>4, Zenon DEF RunCheckpointStep
  <1>5. StoppedAt(t)'
    <2> /\ state \in [Threads -> States]
        /\ flags \in [Threads -> SUBSET Flags]
        /\ barriers \in [Threads -> SUBSET Threads]
        /\ cur \in [Threads -> Threads \cup {NoThread}]
        /\ raised \in [Threads -> SUBSET Threads]
        /\ op \in [Threads -> OpNames \cup {"none"}]
        /\ pc \in [Threads -> Labels]
        /\ cont \in [Threads -> ContLabels]
      BY SMT DEF TypeInv, ThreadType, OpType
    <2> USE DEF InLoop, HasAll, HasTodo, Goto, threadVars, opVars
    <2> pc[t] \notin LeavingLabels => cont[t] = "native"
      BY DEF OpAt
    <2>1. CASE CallRunCheckpoint(t) \/ RunCheckpointBegin(t) \/ RequestCheckpoint(t)
      BY <2>1 DEF CallRunCheckpoint, StoppedAt, LeavingLabels, ResumingLabels,
        RunCheckpointBegin, RequestCheckpoint
    <2>2. CASE RequestCheckpointFails(t)
      BY <2>2 DEF RequestCheckpointFails, StoppedAt, LeavingLabels, ResumingLabels
    <2>3. CASE KeepSuspended(t)
      BY <2>3 DEF KeepSuspended, Raise, StoppedAt, LeavingLabels, ResumingLabels
    <2>4. CASE KeepSuspendedRetry(t)
      BY <2>4 DEF KeepSuspendedRetry, StoppedAt, LeavingLabels, ResumingLabels
    <2>5. CASE RunCheckpointOnSelf(t) \/ RunCheckpointLower(t) \/ RunCheckpointBroadcast(t)
      <3>1. /\ pc[t] \in {"rcLoop", "rcLower", "rcOthers"}
            /\ pc'[t] \in {"rcOthers", "toSuspended", "rcWait"}
            /\ cont'[t] = cont[t] \/ cont'[t] = "rcWait"
        BY <2>5 DEF RunCheckpointOnSelf, RunCheckpointLower, RunCheckpointBroadcast
      <3> QED
        BY <3>1 DEF StoppedAt, LeavingLabels, ResumingLabels
    <2>6. CASE RunCheckpointOnOther(t)
      <3>1. PICK u \in raised[t] : state[u] # "Runnable" /\ cur' = [cur EXCEPT ![t] = u]
        BY <2>6 DEF RunCheckpointOnOther, IsSuspended
      <3> QED
        BY <2>6, <3>1 DEF RunCheckpointOnOther, StoppedAt
    <2>7. CASE RunCheckpointDone(t)
      BY <2>7, SMT DEF RunCheckpointDone, StoppedAt, LeavingLabels, ResumingLabels
    <2> QED
      BY <2>1, <2>2, <2>3, <2>4, <2>5, <2>6, <2>7 DEF RunCheckpointStep
  <1>6. SameBarriers(t)
    <2> /\ flags \in [Threads -> SUBSET Flags]
        /\ barriers \in [Threads -> SUBSET Threads]
        /\ todo \in [Threads -> SUBSET Threads]
        /\ raised \in [Threads -> SUBSET Threads]
        /\ pc \in [Threads -> Labels]
      BY SMT DEF TypeInv, ThreadType, OpType
    <2> USE DEF Waits, Unasked, InLoop, Goto, threadVars, listVars, opVars
    <2>1. CASE CallRunCheckpoint(t) \/ RunCheckpointBegin(t) \/ RequestCheckpointFails(t)
      BY <2>1, ZenonT(30) DEF CallRunCheckpoint, RunCheckpointBegin, SameBarriers,
        RequestCheckpointFails
    <2>2. CASE RequestCheckpoint(t)
      BY <2>2, SMT DEF RequestCheckpoint, SameBarriers
    <2>3. CASE KeepSuspended(t)
      BY <2>3 DEF KeepSuspended, Raise, SameBarriers
    <2>4. CASE RunCheckpointLower(t)
      BY <2>4, SMT DEF RunCheckpointLower, Lower, SameBarriers
    <2>5. CASE KeepSuspendedRetry(t) \/ RunCheckpointOnSelf(t) \/ RunCheckpointOnOther(t)
      BY <2>5, Zenon DEF KeepSuspendedRetry, RunCheckpointOnSelf, RunCheckpointOnOther,
         SameBarriers
    <2>6. CASE RunCheckpointBroadcast(t) \/ RunCheckpointDone(t)
      BY <2>6, Zenon DEF RunCheckpointBroadcast, RunCheckpointDone, SameBarriers
    <2> QED
      BY <2>1, <2>2, <2>3, <2>5, <2>4, <2>6, Zenon DEF RunCheckpointStep
  <1> QED
    BY <1>1, <1>2, <1>3, <1>4, <1>5, <1>6, Zenon DEF OperationStep

-----------------------------------------------------------------------------
(* SuspendThreadByThreadId and Resume                                      *)

SuspendThreadStep(t) ==
  \/ CallSuspendThread(t) \/ SuspendTimeout(t) \/ NoSuchThread(t) \/ BackOff(t)
  \/ RequestSuspend(t) \/ RequestSuspendRetry(t) \/ SuspendThreadAgain(t) \/ CheckSuspended(t)
  \/ Resume(t) \/ ResumeBroadcast(t)

\* Every step of SuspendThreadByThreadId and Resume keeps it.
LEMMA SuspendThreadKeepsControl ==
  ASSUME TypeInv, CheckpointOnlyWhenRunnable, MutatorInv, NEW t \in Threads,
         StateAt(t), LockAt(t), OpAt(t), CurAt(t), SuspendThreadStep(t)
  PROVE  ControlStep(t)
  <1>1. TypeInv'
    <2> USE DEF TypeInv, ThreadType, ListType, OpType, Labels, ContLabels, States, Flags, OpNames,
           Goto, threadVars, listVars, lockVars, flipVars, opVars
    <2>1. CASE CallSuspendThread(t)
      <3>1. PICK u \in Threads \ {t} : cur' = [cur EXCEPT ![t] = u]
        BY <2>1, Zenon DEF CallSuspendThread
      <3> QED
        BY <2>1, <3>1 DEF CallSuspendThread
    <2>2. CASE SuspendTimeout(t)
      BY <2>2, Zenon DEF SuspendTimeout, Lower
    <2>3. CASE NoSuchThread(t)
      BY <2>3, Zenon DEF NoSuchThread
    <2>4. CASE BackOff(t)
      BY <2>4, Zenon DEF BackOff
    <2>5. CASE RequestSuspendRetry(t)
      BY <2>5, Zenon DEF RequestSuspendRetry
    <2>6. CASE RequestSuspend(t)
      <3>1. cur[t] \in Threads
        BY <2>6 DEF RequestSuspend
      <3> QED
        BY <2>6, <3>1, RaiseType, Zenon DEF RequestSuspend
    <2>7. CASE SuspendThreadAgain(t)
      BY <2>7, Zenon DEF SuspendThreadAgain
    <2>8. CASE CheckSuspended(t)
      BY <2>8, Zenon DEF CheckSuspended
    <2>9. CASE ResumeBroadcast(t)
      BY <2>9 DEF ResumeBroadcast
    <2>10. CASE Resume(t)
      <3>1. {cur[t]} \in SUBSET Threads
        BY <2>10 DEF Resume
      <3> QED
        BY <2>10, <3>1, LowerType, SMTT(60) DEF Resume
    <2> QED
      BY <2>1, <2>2, <2>3, <2>4, <2>6, <2>5, <2>7, <2>8, <2>10, <2>9 DEF
        SuspendThreadStep
  <1>2. CheckpointOnlyWhenRunnable'
    <2> /\ state \in [Threads -> States]
        /\ flags \in [Threads -> SUBSET Flags]
        /\ checkpoints \in [Threads -> Seq(Threads)]
        /\ todo \in [Threads -> SUBSET Threads]
        /\ pc \in [Threads -> Labels]
      BY SMT DEF TypeInv, ThreadType, OpType
    <2> USE DEF CheckpointOnlyWhenRunnable, threadVars
    <2>1. CASE CallSuspendThread(t)
      BY <2>1, Zenon DEF CallSuspendThread
    <2>2. CASE SuspendTimeout(t)
      BY <2>2, Zenon DEF SuspendTimeout, Lower
    <2>3. CASE NoSuchThread(t) \/ BackOff(t)
      BY <2>3, ZenonT(30) DEF NoSuchThread, BackOff
    <2>4. CASE RequestSuspend(t)
      BY <2>4, Zenon DEF RequestSuspend, Raise
    <2>5. CASE RequestSuspendRetry(t)
      BY <2>5, Zenon DEF RequestSuspendRetry
    <2>6. CASE SuspendThreadAgain(t) \/ CheckSuspended(t)
      BY <2>6, ZenonT(30) DEF SuspendThreadAgain, CheckSuspended
    <2>7. CASE Resume(t)
      BY <2>7, Zenon DEF Resume, Lower
    <2>8. CASE ResumeBroadcast(t)
      BY <2>8, Zenon DEF ResumeBroadcast
    <2> QED
      BY <2>1, <2>2, <2>3, <2>4, <2>5, <2>6, <2>7, <2>8, Zenon DEF SuspendThreadStep
  <1>3. Frame(t)
    <2> /\ state \in [Threads -> States]
        /\ op \in [Threads -> OpNames \cup {"none"}]
        /\ cur \in [Threads -> Threads \cup {NoThread}]
        /\ pc \in [Threads -> Labels]
        /\ cont \in [Threads -> ContLabels]
      BY SMT DEF TypeInv, ThreadType, OpType
    <2> USE ThreadsAssumption
        DEF Frame, KeepsLock, LockAt, ListLockLabels, CountLockLabels, LocksFree, Goto, threadVars,
            lockVars, opVars
    <2>1. CASE CallSuspendThread(t)
      BY <2>1, Zenon DEF CallSuspendThread
    <2>2. CASE SuspendTimeout(t)
      BY <2>2, Zenon DEF SuspendTimeout
    <2>3. CASE NoSuchThread(t)
      BY <2>3, Zenon DEF NoSuchThread
    <2>4. CASE BackOff(t)
      BY <2>4, Zenon DEF BackOff
    <2>5. CASE RequestSuspend(t) \/ RequestSuspendRetry(t)
      BY <2>5, ZenonT(30) DEF RequestSuspend, RequestSuspendRetry
    <2>6. CASE SuspendThreadAgain(t)
      BY <2>6, Zenon DEF SuspendThreadAgain
    <2>7. CASE CheckSuspended(t)
      BY <2>7, Zenon DEF CheckSuspended
    <2>8. CASE Resume(t) \/ ResumeBroadcast(t)
      BY <2>8, ZenonT(30) DEF Resume, ResumeBroadcast
    <2> QED
      BY <2>1, <2>2, <2>3, <2>4, <2>5, <2>6, <2>7, <2>8 DEF SuspendThreadStep
  <1>4. LocalInv(t)' /\ MutatorInv'
    <2> /\ state \in [Threads -> States]
        /\ op \in [Threads -> OpNames \cup {"none"}]
        /\ cur \in [Threads -> Threads \cup {NoThread}]
        /\ todo \in [Threads -> SUBSET Threads]
        /\ raised \in [Threads -> SUBSET Threads]
        /\ pc \in [Threads -> Labels]
        /\ cont \in [Threads -> ContLabels]
      BY SMT DEF TypeInv, ThreadType, OpType
    <2> USE ThreadsAssumption
        DEF LocalInv, StateAt, LockAt, OpAt, CurAt, MutatorInv, ListLockLabels, CountLockLabels,
            LocksFree, LeavingLabels, SuspendAllLabels, FlipLabels, CheckpointLabels,
            SynchronousLabels, ResumingLabels, RunnableLabels, ContLabels, Goto, threadVars,
            lockVars, opVars
    <2>1. CASE CallSuspendThread(t)
      BY <2>1 DEF CallSuspendThread
    <2>2. CASE SuspendTimeout(t)
      BY <2>2 DEF SuspendTimeout
    <2>3. CASE NoSuchThread(t)
      BY <2>3, Zenon DEF NoSuchThread
    <2>4. CASE BackOff(t)
      BY <2>4, Zenon DEF BackOff
    <2>5. CASE RequestSuspend(t)
      BY <2>5, Zenon DEF RequestSuspend
    <2>6. CASE RequestSuspendRetry(t)
      BY <2>6, Zenon DEF RequestSuspendRetry
    <2>7. CASE SuspendThreadAgain(t)
      BY <2>7, Zenon DEF SuspendThreadAgain
    <2>8. CASE CheckSuspended(t)
      BY <2>8, Zenon DEF CheckSuspended
    <2>9. CASE Resume(t)
      BY <2>9, Zenon DEF Resume
    <2>10. CASE ResumeBroadcast(t)
      BY <2>10, Zenon DEF ResumeBroadcast
    <2> QED
      BY <2>1, <2>2, <2>3, <2>4, <2>5, <2>6, <2>7, <2>8, <2>9, <2>10, Zenon DEF
        SuspendThreadStep
  <1> QED
    BY <1>1, <1>2, <1>3, <1>4, Zenon DEF ControlStep

\* What SuspendThreadByThreadId and Resume do to them: no barrier changes.
LEMMA SuspendThreadKeepsStops ==
  ASSUME TypeInv, NEW t \in Threads, StateAt(t), OpAt(t), CurAt(t), RaisedAt(t), StoppedAt(t),
         SuspendThreadStep(t)
  PROVE  /\ OperationStep(t)
         /\ SameBarriers(t)
  <1>1. RaisedFrame(t) /\ AllStep(t)
    <2> /\ raised \in [Threads -> SUBSET Threads]
        /\ todo \in [Threads -> SUBSET Threads]
        /\ pc \in [Threads -> Labels]
      BY SMT DEF TypeInv, OpType
    <2> USE DEF RaisedFrame, AllStep, Suspending, InLoop, HasAll, Goto, opVars, listVars
    <2>1. CASE CallSuspendThread(t) \/ SuspendTimeout(t) \/ NoSuchThread(t) \/ BackOff(t)
      BY <2>1, ZenonT(30) DEF CallSuspendThread, SuspendTimeout, Lower, NoSuchThread, BackOff
    <2>2. CASE \/ RequestSuspend(t) \/ RequestSuspendRetry(t) \/ SuspendThreadAgain(t)
               \/ CheckSuspended(t)
      BY <2>2, ZenonT(30) DEF RequestSuspend, Raise, RequestSuspendRetry, SuspendThreadAgain,
        CheckSuspended
    <2>3. CASE Resume(t) \/ ResumeBroadcast(t)
      BY <2>3, ZenonT(30) DEF Resume, Lower, ResumeBroadcast
    <2> QED
      BY <2>1, <2>2, <2>3, Zenon DEF SuspendThreadStep
  <1>2. RaisedAt(t)'
    <2> /\ list \subseteq Threads
        /\ op \in [Threads -> OpNames \cup {"none"}]
        /\ cur \in [Threads -> Threads \cup {NoThread}]
        /\ todo \in [Threads -> SUBSET Threads]
        /\ raised \in [Threads -> SUBSET Threads]
        /\ pc \in [Threads -> Labels]
        /\ cont \in [Threads -> ContLabels]
      BY SMT DEF TypeInv, OpType, ListType
    <2> USE DEF RaisedAt, InLoop, HasAll, HasTodo, OpAt, LeavingLabels, SuspendAllLabels,
           FlipLabels, CheckpointLabels, SynchronousLabels, ResumingLabels, Goto, opVars, listVars
    <2>1. CASE CallSuspendThread(t)
      BY <2>1 DEF CallSuspendThread
    <2>2. CASE SuspendTimeout(t)
      BY <2>2, Zenon DEF SuspendTimeout, Lower
    <2>3. CASE BackOff(t)
      BY <2>3, Zenon DEF BackOff, LocksFree
    <2>4. CASE RequestSuspend(t)
      BY <2>4 DEF RequestSuspend, Raise, LocksFree
    <2>5. CASE NoSuchThread(t) \/ SuspendThreadAgain(t)
      <3>1. CASE NoSuchThread(t)
        BY <3>1, SMTT(60) DEF NoSuchThread, LocksFree
      <3>2. CASE SuspendThreadAgain(t)
        BY <3>2, SMT DEF SuspendThreadAgain, LocksFree
      <3> QED
        BY <2>5, <3>1, <3>2, Zenon
    <2>6. CASE RequestSuspendRetry(t)
      BY <2>6 DEF RequestSuspendRetry, LocksFree
    <2>7. CASE CheckSuspended(t)
      BY <2>7 DEF CheckSuspended
    <2>8. CASE ResumeBroadcast(t)
      BY <2>8 DEF ResumeBroadcast
    <2>9. CASE Resume(t)
      <3>1. /\ raised' = [raised EXCEPT ![t] = @ \ {cur[t]}]
            /\ cur' = [cur EXCEPT ![t] = NoThread]
            /\ pc[t] = "stHave" /\ pc' = [pc EXCEPT ![t] = "stBroadcast"]
            /\ UNCHANGED <<list, op, todo, cont>>
        BY <2>9, Zenon DEF Resume, Lower
      <3> QED
        BY <3>1, ThreadsAssumption
    <2> QED
      BY <2>1, <2>2, <2>5, <2>3, <2>4, <2>6, <2>7, <2>9, <2>8 DEF SuspendThreadStep
  <1>3. CountStep(t)
    <2> /\ flags \in [Threads -> SUBSET Flags]
        /\ list \subseteq Threads
        /\ op \in [Threads -> OpNames \cup {"none"}]
        /\ cur \in [Threads -> Threads \cup {NoThread}]
        /\ todo \in [Threads -> SUBSET Threads]
        /\ raised \in [Threads -> SUBSET Threads]
        /\ pc \in [Threads -> Labels]
        /\ cont \in [Threads -> ContLabels]
      BY SMT DEF TypeInv, ThreadType, ListType, OpType
    <2> USE DEF Goto, threadVars, opVars
    <2>1. CASE CallSuspendThread(t) \/ NoSuchThread(t) \/ BackOff(t) \/ RequestSuspendRetry(t)
      BY <2>1, CountSame, ZenonT(30) DEF CallSuspendThread, NoSuchThread, BackOff,
        RequestSuspendRetry
    <2>2. CASE SuspendTimeout(t)
      <3>1. {cur[t]} \in SUBSET Threads /\ {cur[t]} \subseteq raised[t]
        BY <2>2 DEF SuspendTimeout, RaisedAt
      <3> QED
        BY <2>2, <3>1, CountLower DEF SuspendTimeout
    <2>3. CASE RequestSuspend(t)
      <3>1. cur[t] \in Threads /\ cur[t] \notin raised[t]
        BY <2>3 DEF RequestSuspend
      <3> QED
        BY <2>3, <3>1, CountRaise, Zenon DEF RequestSuspend
    <2>4. CASE SuspendThreadAgain(t) \/ CheckSuspended(t) \/ ResumeBroadcast(t)
      BY <2>4, CountSame, ZenonT(30) DEF SuspendThreadAgain, CheckSuspended, ResumeBroadcast
    <2>5. CASE Resume(t)
      <3>1. {cur[t]} \in SUBSET Threads /\ {cur[t]} \subseteq raised[t]
        BY <2>5 DEF Resume, RaisedAt
      <3> QED
        BY <2>5, <3>1, CountLower DEF Resume
    <2> QED
      BY <2>1, <2>2, <2>3, <2>4, <2>5, Zenon DEF SuspendThreadStep
  <1>4. StopsStay(t)
    <2> /\ state \in [Threads -> States]
        /\ flags \in [Threads -> SUBSET Flags]
        /\ barriers \in [Threads -> SUBSET Threads]
        /\ pc \in [Threads -> Labels]
      BY SMT DEF TypeInv, ThreadType, OpType
    <2> USE DEF Goto, threadVars
    <2>1. CASE CallSuspendThread(t) \/ SuspendTimeout(t) \/ NoSuchThread(t) \/ BackOff(t)
      BY <2>1 DEF CallSuspendThread, SuspendTimeout, Lower, NoSuchThread, BackOff,
         StopsStay
    <2>2. CASE RequestSuspend(t)
      BY <2>2 DEF RequestSuspend, Raise, StopsStay
    <2>3. CASE RequestSuspendRetry(t) \/ SuspendThreadAgain(t) \/ CheckSuspended(t) \/ Resume(t)
      BY <2>3, Zenon DEF RequestSuspendRetry, SuspendThreadAgain, CheckSuspended, Resume, Lower,
        StopsStay
    <2>4. CASE ResumeBroadcast(t)
      BY <2>4, Zenon DEF ResumeBroadcast, StopsStay
    <2> QED
      BY <2>1, <2>2, <2>3, <2>4, Zenon DEF SuspendThreadStep
  <1>5. StoppedAt(t)'
    <2> /\ state \in [Threads -> States]
        /\ flags \in [Threads -> SUBSET Flags]
        /\ barriers \in [Threads -> SUBSET Threads]
        /\ cur \in [Threads -> Threads \cup {NoThread}]
        /\ raised \in [Threads -> SUBSET Threads]
        /\ op \in [Threads -> OpNames \cup {"none"}]
        /\ pc \in [Threads -> Labels]
        /\ cont \in [Threads -> ContLabels]
      BY SMT DEF TypeInv, ThreadType, OpType
    <2> USE DEF InLoop, HasAll, HasTodo, Goto, threadVars, opVars
    <2> pc[t] \notin LeavingLabels => cont[t] = "native"
      BY SMTT(60) DEF OpAt
    <2>1. CASE CallSuspendThread(t) \/ SuspendTimeout(t) \/ NoSuchThread(t)
      BY <2>1, SMTT(60), ZenonT(60) DEF CallSuspendThread, StoppedAt, LeavingLabels, ResumingLabels,
         SuspendTimeout,
        Lower, NoSuchThread
    <2>2. CASE BackOff(t)
      BY <2>2 DEF BackOff, StoppedAt, LeavingLabels, ResumingLabels
    <2>3. CASE RequestSuspend(t)
      BY <2>3 DEF RequestSuspend, Raise, StoppedAt, LeavingLabels, ResumingLabels
    <2>4. CASE RequestSuspendRetry(t)
      BY <2>4 DEF RequestSuspendRetry, StoppedAt, LeavingLabels, ResumingLabels
    <2>5. CASE SuspendThreadAgain(t) \/ Resume(t) \/ ResumeBroadcast(t)
      BY <2>5 DEF SuspendThreadAgain, StoppedAt, LeavingLabels, ResumingLabels,
         Resume, Lower,
        ResumeBroadcast
    <2>6. CASE CheckSuspended(t)
      <3>1. cont'[t] = "stHave" => state[cur[t]] # "Runnable"
        BY <2>6 DEF CheckSuspended, IsSuspended
      <3>2. /\ pc[t] = "stCheck" /\ pc'[t] = "toSuspended"
            /\ cont'[t] \in {"stHave", "toRunnable"}
            /\ UNCHANGED <<state, op, cur>>
        BY <2>6 DEF CheckSuspended
      <3> QED
        BY <3>1, <3>2, Zenon DEF StoppedAt, ResumingLabels
    <2> QED
      BY <2>1, <2>2, <2>3, <2>4, <2>5, <2>6 DEF SuspendThreadStep
  <1>6. SameBarriers(t)
    <2> /\ flags \in [Threads -> SUBSET Flags]
        /\ barriers \in [Threads -> SUBSET Threads]
        /\ todo \in [Threads -> SUBSET Threads]
        /\ raised \in [Threads -> SUBSET Threads]
        /\ pc \in [Threads -> Labels]
      BY SMT DEF TypeInv, ThreadType, OpType
    <2> USE DEF Waits, Unasked, InLoop, Goto, threadVars, listVars, opVars
    <2>1. CASE CallSuspendThread(t) \/ NoSuchThread(t) \/ BackOff(t) \/ ResumeBroadcast(t)
      BY <2>1, ZenonT(30) DEF CallSuspendThread, SameBarriers, NoSuchThread, BackOff,
        ResumeBroadcast
    <2>2. CASE SuspendTimeout(t)
      BY <2>2 DEF SuspendTimeout, Lower, SameBarriers
    <2>3. CASE RequestSuspend(t)
      BY <2>3 DEF RequestSuspend, Raise, SameBarriers
    <2>4. CASE Resume(t)
      BY <2>4 DEF Resume, Lower, SameBarriers
    <2>5. CASE RequestSuspendRetry(t) \/ SuspendThreadAgain(t) \/ CheckSuspended(t)
      BY <2>5, Zenon DEF RequestSuspendRetry, SuspendThreadAgain, CheckSuspended, SameBarriers
    <2> QED
      BY <2>1, <2>2, <2>3, <2>5, <2>4, Zenon DEF SuspendThreadStep
  <1> QED
    BY <1>1, <1>2, <1>3, <1>4, <1>5, <1>6, Zenon DEF OperationStep

-----------------------------------------------------------------------------
(* RequestSynchronousCheckpoint                                            *)

SynchronousStep(t) ==
  \/ CallSynchronousCheckpoint(t) \/ SynchronousReturn(t) \/ SynchronousRequest(t)
  \/ SynchronousDone(t) \/ SynchronousRequestFails(t) \/ SynchronousRaise(t)
  \/ SynchronousSuspended(t) \/ SynchronousRun(t) \/ SynchronousBroadcast(t)

\* Every step of RequestSynchronousCheckpoint keeps it.
LEMMA SynchronousKeepsControl ==
  ASSUME TypeInv, CheckpointOnlyWhenRunnable, MutatorInv, NEW t \in Threads,
         StateAt(t), LockAt(t), OpAt(t), CurAt(t), SynchronousStep(t)
  PROVE  ControlStep(t)
  <1>1. TypeInv'
    <2> USE DEF TypeInv, ThreadType, ListType, OpType, Labels, ContLabels, States, Flags, OpNames,
           Goto, threadVars, listVars, lockVars, flipVars, opVars
    <2>1. CASE CallSynchronousCheckpoint(t)
      <3>1. PICK u \in Threads : cur' = [cur EXCEPT ![t] = u]
        BY <2>1, Zenon DEF CallSynchronousCheckpoint
      <3> QED
        BY <2>1, <3>1 DEF CallSynchronousCheckpoint
    <2>2. CASE SynchronousReturn(t)
      BY <2>2, Zenon DEF SynchronousReturn
    <2>3. CASE SynchronousDone(t)
      BY <2>3, Zenon DEF SynchronousDone
    <2>4. CASE SynchronousRequestFails(t)
      BY <2>4, Zenon DEF SynchronousRequestFails
    <2>5. CASE SynchronousSuspended(t)
      BY <2>5, Zenon DEF SynchronousSuspended
    <2>6. CASE SynchronousRequest(t)
      <3>1. cur[t] \in Threads
        BY <2>6 DEF SynchronousRequest
      <3>2. checkpoints' \in [Threads -> Seq(Threads)]
        BY <2>6, <3>1, SMTT(60) DEF SynchronousRequest
      <3>3. flags' \in [Threads -> SUBSET Flags]
        BY <2>6, <3>1, SMTT(60) DEF SynchronousRequest
      <3>4. due' \in [Threads -> SUBSET Threads]
        BY <2>6, <3>1, SMTT(60), ZenonT(60) DEF SynchronousRequest
      <3> QED
        BY <2>6, <3>2, <3>3, <3>4 DEF SynchronousRequest
    <2>7. CASE SynchronousRaise(t)
      <3>1. cur[t] \in Threads
        BY <2>7 DEF CurAt, SynchronousRaise
      <3> QED
        BY <2>7, <3>1, RaiseType DEF SynchronousRaise
    <2>8. CASE SynchronousRun(t)
      BY <2>8 DEF SynchronousRun, Lower
    <2>9. CASE SynchronousBroadcast(t)
      BY <2>9 DEF SynchronousBroadcast
    <2> QED
      BY <2>1, <2>2, <2>6, <2>3, <2>4, <2>7, <2>5, <2>8, <2>9 DEF SynchronousStep
  <1>2. CheckpointOnlyWhenRunnable'
    <2> /\ state \in [Threads -> States]
        /\ flags \in [Threads -> SUBSET Flags]
        /\ checkpoints \in [Threads -> Seq(Threads)]
        /\ todo \in [Threads -> SUBSET Threads]
        /\ pc \in [Threads -> Labels]
      BY SMT DEF TypeInv, ThreadType, OpType
    <2> USE DEF CheckpointOnlyWhenRunnable, threadVars
    <2>1. CASE \/ CallSynchronousCheckpoint(t) \/ SynchronousReturn(t) \/ SynchronousDone(t)
               \/ SynchronousRequestFails(t)
      BY <2>1, ZenonT(30) DEF CallSynchronousCheckpoint, SynchronousReturn, SynchronousDone,
        SynchronousRequestFails
    <2>2. CASE SynchronousRequest(t)
      <3> DEFINE u == cur[t]
      <3>1. /\ u \in Threads /\ state[u] = "Runnable" /\ state' = state
            /\ flags' = [flags EXCEPT ![u] = @ \cup {"CheckpointRequest"}]
            /\ checkpoints' = [checkpoints EXCEPT ![u] = Append(@, t)]
        BY <2>2, Zenon DEF SynchronousRequest, TypeInv, ListType
      <3> HIDE DEF u
      <3>2. Append(checkpoints[u], t) # <<>>
        BY <3>1, AppendIsNotEmpty
      <3> QED
        BY <3>1, <3>2
    <2>3. CASE SynchronousRaise(t)
      BY <2>3, Zenon DEF SynchronousRaise, Raise
    <2>4. CASE SynchronousSuspended(t)
      BY <2>4, Zenon DEF SynchronousSuspended
    <2>5. CASE SynchronousRun(t)
      BY <2>5, Zenon DEF SynchronousRun, Lower
    <2>6. CASE SynchronousBroadcast(t)
      BY <2>6, Zenon DEF SynchronousBroadcast
    <2> QED
      BY <2>1, <2>2, <2>3, <2>4, <2>5, <2>6, Zenon DEF SynchronousStep
  <1>3. Frame(t)
    <2> /\ state \in [Threads -> States]
        /\ op \in [Threads -> OpNames \cup {"none"}]
        /\ cur \in [Threads -> Threads \cup {NoThread}]
        /\ pc \in [Threads -> Labels]
        /\ cont \in [Threads -> ContLabels]
      BY SMT DEF TypeInv, ThreadType, OpType
    <2> USE ThreadsAssumption
        DEF Frame, KeepsLock, LockAt, ListLockLabels, CountLockLabels, LocksFree, Goto, threadVars,
            lockVars, opVars
    <2>1. CASE CallSynchronousCheckpoint(t) \/ SynchronousReturn(t)
      BY <2>1, ZenonT(30) DEF CallSynchronousCheckpoint, SynchronousReturn
    <2>2. CASE SynchronousRequest(t)
      BY <2>2, Zenon DEF SynchronousRequest
    <2>3. CASE SynchronousDone(t)
      BY <2>3, Zenon DEF SynchronousDone
    <2>4. CASE SynchronousRequestFails(t) \/ SynchronousSuspended(t) \/ SynchronousRun(t)
      BY <2>4, ZenonT(30) DEF SynchronousRequestFails, SynchronousSuspended, SynchronousRun
    <2>5. CASE SynchronousRaise(t)
      <3>1. listLock = t
        BY <2>5 DEF SynchronousRaise
      <3> QED
        BY <2>5, <3>1, Zenon DEF SynchronousRaise
    <2>6. CASE SynchronousBroadcast(t)
      <3>1. listLock = t
        BY <2>6 DEF SynchronousBroadcast
      <3> QED
        BY <2>6, <3>1, Zenon DEF SynchronousBroadcast
    <2> QED
      BY <2>1, <2>2, <2>3, <2>4, <2>5, <2>6, Zenon DEF SynchronousStep
  <1>4. LocalInv(t)' /\ MutatorInv'
    <2> /\ state \in [Threads -> States]
        /\ op \in [Threads -> OpNames \cup {"none"}]
        /\ cur \in [Threads -> Threads \cup {NoThread}]
        /\ todo \in [Threads -> SUBSET Threads]
        /\ raised \in [Threads -> SUBSET Threads]
        /\ pc \in [Threads -> Labels]
        /\ cont \in [Threads -> ContLabels]
      BY SMT DEF TypeInv, ThreadType, OpType
    <2> USE ThreadsAssumption
        DEF LocalInv, StateAt, LockAt, OpAt, CurAt, MutatorInv, ListLockLabels, CountLockLabels,
            LocksFree, LeavingLabels, SuspendAllLabels, FlipLabels, CheckpointLabels,
            SynchronousLabels, ResumingLabels, RunnableLabels, ContLabels, Goto, threadVars,
            lockVars, opVars
    <2>1. CASE CallSynchronousCheckpoint(t)
      BY <2>1, Zenon DEF CallSynchronousCheckpoint
    <2>2. CASE SynchronousReturn(t)
      BY <2>2, Zenon DEF SynchronousReturn
    <2>3. CASE SynchronousRequest(t)
      BY <2>3, Zenon DEF SynchronousRequest
    <2>4. CASE SynchronousDone(t)
      BY <2>4, Zenon DEF SynchronousDone
    <2>5. CASE SynchronousRequestFails(t)
      BY <2>5, Zenon DEF SynchronousRequestFails
    <2>6. CASE SynchronousRaise(t)
      BY <2>6, Zenon DEF SynchronousRaise
    <2>7. CASE SynchronousSuspended(t)
      BY <2>7, Zenon DEF SynchronousSuspended
    <2>8. CASE SynchronousRun(t)
      BY <2>8, Zenon DEF SynchronousRun
    <2>9. CASE SynchronousBroadcast(t)
      BY <2>9, Zenon DEF SynchronousBroadcast
    <2> QED
      BY <2>1, <2>2, <2>3, <2>4, <2>5, <2>6, <2>7, <2>8, <2>9, Zenon DEF SynchronousStep
  <1> QED
    BY <1>1, <1>2, <1>3, <1>4, Zenon DEF ControlStep

\* What RequestSynchronousCheckpoint does to them: no barrier changes.
LEMMA SynchronousKeepsStops ==
  ASSUME TypeInv, NEW t \in Threads, StateAt(t), OpAt(t), CurAt(t), RaisedAt(t), StoppedAt(t),
         SynchronousStep(t)
  PROVE  /\ OperationStep(t)
         /\ SameBarriers(t)
  <1>1. RaisedFrame(t) /\ AllStep(t)
    <2> /\ raised \in [Threads -> SUBSET Threads]
        /\ todo \in [Threads -> SUBSET Threads]
        /\ pc \in [Threads -> Labels]
      BY SMT DEF TypeInv, OpType
    <2> USE DEF RaisedFrame, AllStep, Suspending, InLoop, HasAll, Goto, opVars, listVars
    <2>1. CASE \/ CallSynchronousCheckpoint(t) \/ SynchronousReturn(t) \/ SynchronousRequest(t)
               \/ SynchronousDone(t)
      BY <2>1, ZenonT(30) DEF CallSynchronousCheckpoint, SynchronousReturn,
        SynchronousRequest, SynchronousDone
    <2>2. CASE \/ SynchronousRequestFails(t) \/ SynchronousRaise(t) \/ SynchronousSuspended(t)
               \/ SynchronousRun(t)
      BY <2>2, ZenonT(30) DEF SynchronousRequestFails, SynchronousRaise, Raise,
        SynchronousSuspended, SynchronousRun, Lower
    <2>3. CASE SynchronousBroadcast(t)
      BY <2>3, Zenon DEF SynchronousBroadcast
    <2> QED
      BY <2>1, <2>2, <2>3, Zenon DEF SynchronousStep
  <1>2. RaisedAt(t)'
    <2> /\ list \subseteq Threads
        /\ op \in [Threads -> OpNames \cup {"none"}]
        /\ cur \in [Threads -> Threads \cup {NoThread}]
        /\ todo \in [Threads -> SUBSET Threads]
        /\ raised \in [Threads -> SUBSET Threads]
        /\ pc \in [Threads -> Labels]
        /\ cont \in [Threads -> ContLabels]
      BY SMT DEF TypeInv, OpType, ListType
    <2> USE DEF RaisedAt, InLoop, HasAll, HasTodo, OpAt, LeavingLabels, SuspendAllLabels,
           FlipLabels, CheckpointLabels, SynchronousLabels, ResumingLabels, Goto, opVars, listVars
    <2>1. CASE CallSynchronousCheckpoint(t)
      BY <2>1 DEF CallSynchronousCheckpoint
    <2>2. CASE SynchronousReturn(t)
      BY <2>2, Zenon DEF SynchronousReturn
    <2>3. CASE SynchronousRequest(t)
      BY <2>3, Zenon DEF SynchronousRequest
    <2>4. CASE SynchronousDone(t)
      BY <2>4, Zenon DEF SynchronousDone
    <2>5. CASE SynchronousRequestFails(t)
      BY <2>5, Zenon DEF SynchronousRequestFails
    <2>6. CASE SynchronousRaise(t)
      BY <2>6, Zenon DEF SynchronousRaise, Raise
    <2>7. CASE SynchronousSuspended(t)
      BY <2>7, Zenon DEF SynchronousSuspended
    <2>8. CASE SynchronousRun(t)
      BY <2>8, Zenon DEF SynchronousRun, Lower
    <2>9. CASE SynchronousBroadcast(t)
      BY <2>9, Zenon DEF SynchronousBroadcast
    <2> QED
      BY <2>1, <2>2, <2>3, <2>4, <2>5, <2>6, <2>7, <2>8, <2>9 DEF SynchronousStep
  <1>3. CountStep(t)
    <2> /\ flags \in [Threads -> SUBSET Flags]
        /\ list \subseteq Threads
        /\ op \in [Threads -> OpNames \cup {"none"}]
        /\ cur \in [Threads -> Threads \cup {NoThread}]
        /\ todo \in [Threads -> SUBSET Threads]
        /\ raised \in [Threads -> SUBSET Threads]
        /\ pc \in [Threads -> Labels]
        /\ cont \in [Threads -> ContLabels]
      BY SMT DEF TypeInv, ThreadType, ListType, OpType
    <2> USE DEF Goto, threadVars, opVars
    <2>1. CASE \/ CallSynchronousCheckpoint(t) \/ SynchronousReturn(t) \/ SynchronousDone(t)
               \/ SynchronousRequestFails(t)
      BY <2>1, CountSame, ZenonT(30) DEF CallSynchronousCheckpoint, SynchronousReturn,
        SynchronousDone, SynchronousRequestFails
    <2>2. CASE SynchronousRequest(t)
      <3>1. flags' = [flags EXCEPT ![cur[t]] = @ \cup {"CheckpointRequest"}]
        BY <2>2, Zenon DEF SynchronousRequest
      <3>2. \A w \in Threads : "SuspendRequest" \in flags'[w] <=> "SuspendRequest" \in flags[w]
        BY <3>1, SMTT(60)
      <3> QED
        BY <2>2, <3>2, CountSame, Zenon DEF SynchronousRequest
    <2>3. CASE SynchronousRaise(t)
      <3>1. cur[t] \in Threads /\ cur[t] \notin raised[t]
        BY <2>3 DEF SynchronousRaise, RaisedAt
      <3> QED
        BY <2>3, <3>1, CountRaise DEF SynchronousRaise
    <2>4. CASE SynchronousSuspended(t) \/ SynchronousBroadcast(t)
      BY <2>4, CountSame, ZenonT(30) DEF SynchronousSuspended, SynchronousBroadcast
    <2>5. CASE SynchronousRun(t)
      <3>1. {cur[t]} \in SUBSET Threads /\ {cur[t]} \subseteq raised[t]
        BY <2>5 DEF SynchronousRun, RaisedAt
      <3> QED
        BY <2>5, <3>1, CountLower DEF SynchronousRun
    <2> QED
      BY <2>1, <2>2, <2>3, <2>4, <2>5, Zenon DEF SynchronousStep
  <1>4. StopsStay(t)
    <2> /\ state \in [Threads -> States]
        /\ flags \in [Threads -> SUBSET Flags]
        /\ barriers \in [Threads -> SUBSET Threads]
        /\ pc \in [Threads -> Labels]
      BY SMT DEF TypeInv, ThreadType, OpType
    <2> USE DEF Goto, threadVars
    <2>1. CASE \/ CallSynchronousCheckpoint(t) \/ SynchronousReturn(t) \/ SynchronousRequest(t)
               \/ SynchronousDone(t)
      BY <2>1, Zenon DEF CallSynchronousCheckpoint, SynchronousReturn, SynchronousRequest,
        SynchronousDone, StopsStay
    <2>2. CASE \/ SynchronousRequestFails(t) \/ SynchronousSuspended(t) \/ SynchronousRun(t)
               \/ SynchronousBroadcast(t)
      BY <2>2, ZenonT(30) DEF SynchronousRequestFails, StopsStay, SynchronousSuspended,
        SynchronousRun, Lower, SynchronousBroadcast
    <2>3. CASE SynchronousRaise(t)
      BY <2>3 DEF SynchronousRaise, Raise, StopsStay
    <2> QED
      BY <2>1, <2>2, <2>3, Zenon DEF SynchronousStep
  <1>5. StoppedAt(t)'
    <2> /\ state \in [Threads -> States]
        /\ flags \in [Threads -> SUBSET Flags]
        /\ barriers \in [Threads -> SUBSET Threads]
        /\ cur \in [Threads -> Threads \cup {NoThread}]
        /\ raised \in [Threads -> SUBSET Threads]
        /\ op \in [Threads -> OpNames \cup {"none"}]
        /\ pc \in [Threads -> Labels]
        /\ cont \in [Threads -> ContLabels]
      BY SMT DEF TypeInv, ThreadType, OpType
    <2> USE DEF InLoop, HasAll, HasTodo, Goto, threadVars, opVars
    <2> pc[t] \notin LeavingLabels => cont[t] = "native"
      BY SMT DEF OpAt
    <2>1. CASE CallSynchronousCheckpoint(t) \/ SynchronousReturn(t) \/ SynchronousRequest(t)
      <3>1. CASE CallSynchronousCheckpoint(t)
        BY <3>1 DEF CallSynchronousCheckpoint, StoppedAt, LeavingLabels,
           ResumingLabels
      <3>2. CASE SynchronousReturn(t)
        BY <3>2 DEF SynchronousReturn, StoppedAt, LeavingLabels, ResumingLabels
      <3>3. CASE SynchronousRequest(t)
        BY <3>3 DEF SynchronousRequest, StoppedAt, LeavingLabels, ResumingLabels
      <3> QED
        BY <2>1, <3>1, <3>2, <3>3, Zenon
    <2>2. CASE SynchronousDone(t) \/ SynchronousRequestFails(t)
      BY <2>2 DEF SynchronousDone, StoppedAt, LeavingLabels, ResumingLabels,
        SynchronousRequestFails
    <2>3. CASE SynchronousRaise(t)
      BY <2>3 DEF SynchronousRaise, Raise, StoppedAt, LeavingLabels, ResumingLabels
    <2>4. CASE SynchronousSuspended(t) \/ SynchronousRun(t) \/ SynchronousBroadcast(t)
      BY <2>4 DEF SynchronousSuspended, StoppedAt, LeavingLabels, ResumingLabels,
        SynchronousRun, Lower, SynchronousBroadcast
    <2> QED
      BY <2>1, <2>2, <2>3, <2>4 DEF SynchronousStep
  <1>6. SameBarriers(t)
    <2> /\ flags \in [Threads -> SUBSET Flags]
        /\ barriers \in [Threads -> SUBSET Threads]
        /\ todo \in [Threads -> SUBSET Threads]
        /\ raised \in [Threads -> SUBSET Threads]
        /\ pc \in [Threads -> Labels]
      BY SMT DEF TypeInv, ThreadType, OpType
    <2> USE DEF Waits, Unasked, InLoop, Goto, threadVars, listVars, opVars
    <2>1. CASE \/ CallSynchronousCheckpoint(t) \/ SynchronousReturn(t) \/ SynchronousDone(t)
               \/ SynchronousRequestFails(t)
      BY <2>1, ZenonT(30) DEF CallSynchronousCheckpoint, SynchronousReturn, SameBarriers,
        SynchronousDone, SynchronousRequestFails
    <2>2. CASE SynchronousRequest(t)
      BY <2>2 DEF SynchronousRequest, SameBarriers
    <2>3. CASE SynchronousRaise(t)
      BY <2>3 DEF SynchronousRaise, Raise, SameBarriers
    <2>4. CASE SynchronousRun(t)
      BY <2>4 DEF SynchronousRun, Lower, SameBarriers
    <2>5. CASE SynchronousSuspended(t) \/ SynchronousBroadcast(t)
      BY <2>5, ZenonT(30) DEF SynchronousSuspended, SameBarriers, SynchronousBroadcast
    <2> QED
      BY <2>1, <2>2, <2>3, <2>5, <2>4, Zenon DEF SynchronousStep
  <1> QED
    BY <1>1, <1>2, <1>3, <1>4, <1>5, <1>6, Zenon DEF OperationStep

-----------------------------------------------------------------------------
(* Attaching and detaching                                                 *)

AttachStep(t) ==
  \/ Register(t) \/ CallUnregister(t) \/ Unregister(t)

\* Every step of Register and Unregister keeps the control of the runtime: the types,
\* the checkpoint flags, and labels that fit the states, locks and operations.
LEMMA AttachKeepsControl ==
  ASSUME TypeInv, CheckpointOnlyWhenRunnable, MutatorInv, NEW t \in Threads, StateAt(t), LockAt(t),
         OpAt(t), CurAt(t), AttachStep(t)
  PROVE  ControlStep(t)
  <1>1. TypeInv'
    <2> USE DEF TypeInv, ThreadType, ListType, OpType, Labels, ContLabels, States, Flags, OpNames,
           Goto, threadVars, listVars, lockVars, flipVars, opVars
    <2>1. CASE Register(t)
      BY <2>1 DEF Register
    <2>2. CASE CallUnregister(t)
      BY <2>2, Zenon DEF CallUnregister
    <2>3. CASE Unregister(t)
      BY <2>3, Zenon DEF Unregister
    <2> QED
      BY <2>1, <2>2, <2>3, Zenon DEF AttachStep
  <1>2. CheckpointOnlyWhenRunnable'
    <2> /\ state \in [Threads -> States]
        /\ flags \in [Threads -> SUBSET Flags]
        /\ checkpoints \in [Threads -> Seq(Threads)]
        /\ todo \in [Threads -> SUBSET Threads]
        /\ pc \in [Threads -> Labels]
      BY DEF TypeInv, ThreadType, OpType
    <2> USE DEF CheckpointOnlyWhenRunnable, threadVars
    <2>1. CASE Register(t)
      BY <2>1, Zenon DEF Register, StateAt, RunnableLabels, CheckpointLabels
    <2>2. CASE CallUnregister(t)
      BY <2>2, Zenon DEF CallUnregister
    <2>3. CASE Unregister(t)
      BY <2>3, Zenon DEF Unregister, StateAt, RunnableLabels, CheckpointLabels
    <2> QED
      BY <2>1, <2>2, <2>3, Zenon DEF AttachStep
  <1>3. Frame(t)
    <2> /\ state \in [Threads -> States]
        /\ op \in [Threads -> OpNames \cup {"none"}]
        /\ cur \in [Threads -> Threads \cup {NoThread}]
        /\ pc \in [Threads -> Labels]
        /\ cont \in [Threads -> ContLabels]
      BY DEF TypeInv, ThreadType, OpType
    <2> USE ThreadsAssumption
        DEF Frame, KeepsLock, LockAt, ListLockLabels, CountLockLabels, LocksFree, Goto, threadVars,
            lockVars, opVars
    <2>1. CASE Register(t)
      BY <2>1, Zenon DEF Register
    <2>2. CASE CallUnregister(t)
      BY <2>2, Zenon DEF CallUnregister
    <2>3. CASE Unregister(t)
      BY <2>3, Zenon DEF Unregister
    <2> QED
      BY <2>1, <2>2, <2>3, Zenon DEF AttachStep
  <1>4. LocalInv(t)' /\ MutatorInv'
    <2> /\ state \in [Threads -> States]
        /\ op \in [Threads -> OpNames \cup {"none"}]
        /\ cur \in [Threads -> Threads \cup {NoThread}]
        /\ todo \in [Threads -> SUBSET Threads]
        /\ raised \in [Threads -> SUBSET Threads]
        /\ pc \in [Threads -> Labels]
        /\ cont \in [Threads -> ContLabels]
      BY DEF TypeInv, ThreadType, OpType
    <2> USE ThreadsAssumption
        DEF LocalInv, StateAt, LockAt, OpAt, CurAt, MutatorInv, ListLockLabels, CountLockLabels,
            LocksFree, LeavingLabels, SuspendAllLabels, FlipLabels, CheckpointLabels,
            SynchronousLabels, ResumingLabels, RunnableLabels, ContLabels, Goto, threadVars,
            lockVars, opVars
    <2>1. CASE Register(t)
      BY <2>1, Zenon DEF Register
    <2>2. CASE CallUnregister(t)
      BY <2>2, Zenon DEF CallUnregister
    <2>3. CASE Unregister(t)
      BY <2>3, Zenon DEF Unregister
    <2> QED
      BY <2>1, <2>2, <2>3, Zenon DEF AttachStep
  <1> QED
    BY <1>1, <1>2, <1>3, <1>4 DEF ControlStep

-----------------------------------------------------------------------------
(* Control of the whole                                                    *)

\* The runtime starts with every attached thread in native code, holding nothing.
LEMMA InitControl == Init => ControlInv
  <1> SUFFICES ASSUME Init PROVE ControlInv
    OBVIOUS
  <1>1. list \subseteq Threads
    BY DEF Init
  <1>2. TypeInv
    <2>1. ThreadType
      BY SMT DEF Init, ThreadType, States
    <2>2. ListType
      BY <1>1, Zenon DEF Init, ListType
    <2>3. OpType
      BY DEF Init, OpType, OpNames, Labels, ContLabels
    <2> QED
      BY <2>1, <2>2, <2>3 DEF TypeInv
  <1>3. ASSUME NEW t \in Threads PROVE LocalInv(t)
    <2>1. /\ state[t] = "Suspended" /\ op[t] = "none" /\ cont[t] = "native"
          /\ pc[t] \in {"native", "detached"}
          /\ listLock = NoThread /\ countLock = NoThread /\ mutatorOwner = NoThread
      BY DEF Init
    <2> QED
      BY <2>1, ThreadsAssumption DEF LocalInv, StateAt, LockAt, OpAt, CurAt,
         RunnableLabels,
         CheckpointLabels, SynchronousLabels, ResumingLabels, ListLockLabels, CountLockLabels,
         LeavingLabels, SuspendAllLabels, FlipLabels
  <1>4. MutatorInv /\ CheckpointOnlyWhenRunnable
    BY DEF Init, MutatorInv, CheckpointOnlyWhenRunnable
  <1> QED
    BY <1>2, <1>3, <1>4 DEF ControlInv

\* Every step is a step of one thread in one of the operations.
LEMMA StepOfThread ==
  ASSUME Next
  PROVE  \E t \in Threads :
           \/ TransitionStep(t) \/ SuspendAllStep(t) \/ FlipStep(t) \/ RunCheckpointStep(t)
           \/ SuspendThreadStep(t) \/ SynchronousStep(t) \/ AttachStep(t)
  <1>1. PICK t \in Threads : Choice(t) \/ Progress(t)
    BY DEF Next
  <1> QED
    BY <1>1, Zenon DEF Choice, Progress, TransitionStep, SuspendAllStep, FlipStep,
       RunCheckpointStep, SuspendThreadStep, SynchronousStep, AttachStep

\* Every step keeps the invariant.
LEMMA NextControl == ControlInv /\ [Next]_vars => ControlInv'
  <1> SUFFICES ASSUME ControlInv, [Next]_vars PROVE ControlInv'
    OBVIOUS
  <1>1. CASE UNCHANGED vars
    <2>1. UNCHANGED <<threadVars, listVars, lockVars, flipVars, opVars, pc, cont>>
      BY <1>1 DEF vars
    <2>2. TypeInv'
      BY <2>1 DEF ControlInv, TypeInv, ThreadType, ListType, OpType, threadVars,
         listVars,
         lockVars, flipVars, opVars
    <2>3. ASSUME NEW t \in Threads PROVE LocalInv(t)'
      <3>1. LocalInv(t)
        BY DEF ControlInv
      <3> QED
        BY <2>1, <3>1 DEF LocalInv, StateAt, LockAt, OpAt, CurAt, threadVars,
           lockVars, opVars
    <2>4. MutatorInv' /\ CheckpointOnlyWhenRunnable'
      BY <2>1 DEF ControlInv, MutatorInv, CheckpointOnlyWhenRunnable, threadVars, lockVars
    <2> QED
      BY <2>2, <2>3, <2>4 DEF ControlInv
  <1>2. CASE Next
    <2>2. PICK t \in Threads :
            \/ TransitionStep(t) \/ SuspendAllStep(t) \/ FlipStep(t) \/ RunCheckpointStep(t)
            \/ SuspendThreadStep(t) \/ SynchronousStep(t) \/ AttachStep(t)
      BY <1>2, StepOfThread, Zenon
    <2>3. /\ TypeInv /\ CheckpointOnlyWhenRunnable /\ MutatorInv
          /\ StateAt(t) /\ LockAt(t) /\ OpAt(t) /\ CurAt(t)
      BY DEF ControlInv, LocalInv
    <2>4. ControlStep(t)
      BY <2>2, <2>3, TransitionKeepsControl, SuspendAllKeepsControl, FlipKeepsControl,
         RunCheckpointKeepsControl, SuspendThreadKeepsControl, SynchronousKeepsControl,
         AttachKeepsControl, Zenon
    <2> QED
      BY <2>4, ControlKept
  <1> QED
    BY <1>1, <1>2

\* The control of every operation of the thread list is as the invariant says: the
\* two locks and the mutator lock are held exactly at the labels given, and a thread
\* in native code, waiting, or in SuspendAll or FlipThreadRoots is not runnable.
THEOREM Control == Spec => []ControlInv
  BY InitControl, NextControl, PTL DEF Spec

-----------------------------------------------------------------------------
(* The suspend counts                                                      *)

\* The threads that have raised a thread's count.
Raisers(t) == {c \in Threads : t \in raised[c]}

CountInv ==
  /\ suspendCount \in [Threads -> Nat]
  /\ \A t \in Threads :
       /\ "SuspendRequest" \in flags[t] <=> suspendCount[t] > 0
       /\ suspendCount[t] = Cardinality(Raisers(t))

AllInv == suspendAllCount = Cardinality(SuspendingAll)

CountsInv ==
  /\ ControlInv
  /\ \A c \in Threads : RaisedAt(c)
  /\ CountInv
  /\ AllInv

-----------------------------------------------------------------------------
(* Counting                                                                *)

\* Threads are counted one by one.  The lemmas assume it, and ThreadsAreCounted
\* shows it for a finite set of threads.
Counting ==
  /\ Cardinality({}) = 0
  /\ \A S \in SUBSET Threads :
       /\ Cardinality(S) \in Nat /\ (Cardinality(S) = 0 => S = {})
       /\ \A t \in Threads \ S : Cardinality(S \cup {t}) = Cardinality(S) + 1
       /\ \A t \in S : Cardinality(S \ {t}) = Cardinality(S) - 1 /\ Cardinality(S) > 0

\* One more thread.
LEMMA CountAdd ==
  ASSUME Counting, NEW S \in SUBSET Threads, NEW t \in Threads, t \notin S
  PROVE  Cardinality(S \cup {t}) = Cardinality(S) + 1
  BY Zenon DEF Counting

\* One thread less.
LEMMA CountRemove ==
  ASSUME Counting, NEW S \in SUBSET Threads, NEW t \in S
  PROVE  Cardinality(S \ {t}) = Cardinality(S) - 1 /\ Cardinality(S) > 0
  BY Zenon DEF Counting

\* Steps that change no suspend count and no suspend request keep the counts right.
LEMMA CountsSame ==
  ASSUME CountInv, SameCounts
  PROVE  CountInv'
  BY DEF CountInv, Raisers, SameCounts

\* ModifySuspendCountInternal(+1) keeps the counts right if the caller has not
\* raised this one already.
LEMMA RaiseCounts ==
  ASSUME Counting, TypeInv, CountInv, NEW c \in Threads, NEW t \in Threads, NEW b \in BOOLEAN,
         t \notin raised[c], Raise(c, t, b)
  PROVE  CountInv'
  <1> /\ flags \in [Threads -> SUBSET Flags]
      /\ raised \in [Threads -> SUBSET Threads]
      /\ suspendCount \in [Threads -> Nat]
    BY DEF TypeInv, ThreadType, OpType, CountInv
  <1>1. suspendCount' = [suspendCount EXCEPT ![t] = @ + 1]
    BY DEF Raise
  <1>2. "SuspendRequest" \in flags'[t] /\ \A u \in Threads \ {t} : flags'[u] = flags[u]
    BY DEF Raise
  <1>3. /\ Raisers(t)' = Raisers(t) \cup {c} /\ c \notin Raisers(t)
        /\ \A u \in Threads \ {t} : Raisers(u)' = Raisers(u)
    BY DEF Raise, Raisers
  <1>4. Cardinality(Raisers(t)') = Cardinality(Raisers(t)) + 1
    BY <1>3, CountAdd, Zenon DEF Raisers
  <1>5. suspendCount' \in [Threads -> Nat]
    BY <1>1, SMTT(60)
  <1>6. suspendCount'[t] = Cardinality(Raisers(t)') /\ suspendCount'[t] > 0
    BY <1>1, <1>4, SMTT(60) DEF CountInv
  <1>7. ASSUME NEW u \in Threads, u # t
        PROVE  /\ "SuspendRequest" \in flags'[u] <=> suspendCount'[u] > 0
               /\ suspendCount'[u] = Cardinality(Raisers(u)')
    BY <1>1, <1>2, <1>3, <1>7 DEF CountInv
  <1> QED
    BY <1>2, <1>5, <1>6, <1>7 DEF CountInv

\* ModifySuspendCountInternal(-1) keeps the counts right if the caller has raised
\* them.
LEMMA LowerCounts ==
  ASSUME Counting, TypeInv, CountInv, NEW c \in Threads, NEW ts \in SUBSET Threads,
         ts \subseteq raised[c], Lower(c, ts)
  PROVE  CountInv'
  <1> /\ flags \in [Threads -> SUBSET Flags]
      /\ raised \in [Threads -> SUBSET Threads]
      /\ suspendCount \in [Threads -> Nat]
    BY DEF TypeInv, ThreadType, OpType, CountInv
  <1>1. \A u \in ts : /\ Cardinality(Raisers(u)') = Cardinality(Raisers(u)) - 1
                      /\ Cardinality(Raisers(u)) > 0
    <2> TAKE u \in ts
    <2>1. c \in Raisers(u) /\ Raisers(u)' = Raisers(u) \ {c}
      BY DEF Lower, Raisers
    <2> QED
      BY <2>1, CountRemove, Zenon DEF Raisers
  <1>2. \A u \in Threads \ ts : Raisers(u)' = Raisers(u)
    BY DEF Lower, Raisers
  <1>3. suspendCount' =
          [u \in Threads |-> IF u \in ts THEN suspendCount[u] - 1 ELSE suspendCount[u]]
    BY DEF Lower
  <1>4. \A u \in Threads : "SuspendRequest" \in flags'[u] <=>
           "SuspendRequest" \in flags[u] /\ ~(u \in ts /\ suspendCount[u] = 1)
    BY DEF Lower
  <1>5. \A u \in ts : suspendCount[u] = Cardinality(Raisers(u))
    BY DEF CountInv
  <1>6. suspendCount' \in [Threads -> Nat]
    BY <1>1, <1>3, <1>5, SMTT(60)
  <1>7. \A u \in Threads : suspendCount'[u] = Cardinality(Raisers(u)')
    BY <1>1, <1>2, <1>3, <1>5 DEF CountInv
  <1>8. \A u \in Threads : "SuspendRequest" \in flags'[u] <=> suspendCount'[u] > 0
    BY <1>1, <1>3, <1>4, <1>5, SMTT(60) DEF CountInv
  <1> QED
    BY <1>6, <1>7, <1>8 DEF CountInv

\* A thread whose suspend request is not set is in nobody's set.
LEMMA RaisersNone ==
  ASSUME Counting, CountInv, NEW t \in Threads, "SuspendRequest" \notin flags[t]
  PROVE  \A c \in Threads : t \notin raised[c]
  <1>1. suspendCount[t] = Cardinality(Raisers(t)) /\ suspendCount[t] = 0
    BY SMT DEF CountInv
  <1>2. Raisers(t) = {}
    BY <1>1, Zenon DEF Counting, Raisers
  <1> QED
    BY <1>2 DEF Raisers

-----------------------------------------------------------------------------
(* A step of one thread                                                    *)

\* The labels say who is in SuspendAllInternal.
LEMMA SuspendingLabels ==
  ASSUME ControlInv
  PROVE  SuspendingAll = {c \in Threads : Suspending(c)}
  <1>1. ASSUME NEW c \in Threads
        PROVE  c \in SuspendingAll <=> Suspending(c)
    <2>1. OpAt(c)
      BY DEF ControlInv, LocalInv
    <2> QED
      BY <2>1 DEF SuspendingAll, Suspending, InLoop, HasAll, OpAt, SuspendAllLabels,
         FlipLabels
  <1> QED
    BY <1>1 DEF SuspendingAll

\* suspend_all_count_ stays right.
LEMMA AllKept ==
  ASSUME Counting, ControlInv, ControlInv', AllInv, NEW t \in Threads, Frame(t), AllStep(t)
  PROVE  AllInv'
  <1> DEFINE S == {c \in Threads : Suspending(c)}
  <1>1. S = SuspendingAll /\ S' = SuspendingAll'
    <2>1. ASSUME NEW c \in Threads
          PROVE  (c \in SuspendingAll <=> Suspending(c))'
      <3>1. OpAt(c)'
        BY DEF ControlInv, LocalInv
      <3> QED
        BY <3>1 DEF SuspendingAll, Suspending, InLoop, HasAll, OpAt, SuspendAllLabels, FlipLabels
    <2> QED
      BY <2>1, SuspendingLabels DEF SuspendingAll
  <1>2. \A u \in Threads \ {t} : Suspending(u)' <=> Suspending(u)
    BY DEF Frame, ControlInv, TypeInv, OpType, Suspending, InLoop, HasAll
  <1>3. CASE suspendAllCount' = suspendAllCount /\ (Suspending(t)' <=> Suspending(t))
    <2>1. S' = S
      BY <1>2, <1>3
    <2> QED
      BY <1>1, <1>3, <2>1 DEF AllInv
  <1>4. CASE suspendAllCount' = suspendAllCount + 1 /\ ~Suspending(t) /\ Suspending(t)'
    <2>1. S' = S \cup {t} /\ t \notin S /\ S \in SUBSET Threads
      BY <1>2, <1>4
    <2>2. Cardinality(S') = Cardinality(S) + 1
      BY <2>1, Zenon DEF Counting
    <2> QED
      BY <1>1, <1>4, <2>2 DEF AllInv
  <1>5. CASE suspendAllCount' = suspendAllCount - 1 /\ Suspending(t) /\ ~Suspending(t)'
    <2>1. S' = S \ {t} /\ t \in S /\ S \in SUBSET Threads
      BY <1>2, <1>5
    <2>2. Cardinality(S') = Cardinality(S) - 1
      BY <2>1, Zenon DEF Counting
    <2> QED
      BY <1>1, <1>5, <2>2, Zenon DEF AllInv
  <1> QED
    BY <1>3, <1>4, <1>5, Zenon DEF AllStep

\* What a step other than an attach or a detach has to establish.
LEMMA CountsKept ==
  ASSUME Counting, CountsInv, ControlInv', NEW t \in Threads, Frame(t), RaisedFrame(t), AllStep(t),
         RaisedAt(t)', CountStep(t)
  PROVE  CountsInv'
  <1>1. ASSUME NEW u \in Threads, u # t
        PROVE  RaisedAt(u)'
    <2>1. RaisedAt(u)
      BY DEF CountsInv
    <2>2. /\ pc'[u] = pc[u] /\ cont'[u] = cont[u] /\ op'[u] = op[u] /\ cur'[u] = cur[u]
          /\ todo'[u] = todo[u] /\ raised'[u] = raised[u] /\ list' = list
      BY <1>1, SMTT(60), ZenonT(60) DEF Frame, RaisedFrame, CountsInv, ControlInv, TypeInv, OpType
    <2> QED
      BY <2>1, <2>2, RaisedSame, Zenon
  <1>2. AllInv'
    BY AllKept DEF CountsInv
  <1>3. CountInv'
    BY CountsSame, RaiseCounts, LowerCounts, Zenon DEF CountsInv, ControlInv, CountStep
  <1> QED
    BY <1>1, <1>2, <1>3 DEF CountsInv

-----------------------------------------------------------------------------
(* Register and Unregister                                                 *)

\* A thread is registered while no suspend-all is under way or after they have all
\* seen the whole list, and then counts as suspended by each.
LEMMA RegisterRaised ==
  ASSUME CountsInv, NEW t \in Threads, Register(t), NEW c \in Threads
  PROVE  RaisedAt(c)'
  <1> /\ list \subseteq Threads
      /\ raised \in [Threads -> SUBSET Threads]
      /\ todo \in [Threads -> SUBSET Threads]
      /\ pc \in [Threads -> Labels]
    BY DEF CountsInv, ControlInv, TypeInv, ListType, OpType
  <1>1. RaisedAt(c) /\ OpAt(c) /\ LockAt(c) /\ OpAt(t) /\ RaisedAt(t)
    BY DEF CountsInv, ControlInv, LocalInv
  <1>2. /\ pc[t] = "detached" /\ pc' = [pc EXCEPT ![t] = "native"] /\ list' = list \cup {t}
        /\ raised'[c] = IF c \in SuspendingAll THEN raised[c] \cup {t} ELSE raised[c]
        /\ cont' = cont /\ op' = op /\ cur' = cur /\ todo' = todo
        /\ listLock = NoThread
    BY DEF Register, Goto, LocksFree
  <1>3. c \in SuspendingAll <=> Suspending(c)
    BY SuspendingLabels DEF CountsInv
  <1>4. CASE c = t
    <2>1. op[t] = "none" /\ raised[t] = {} /\ todo[t] = {} /\ ~Suspending(t)
      BY <1>1, <1>2, Zenon DEF OpAt, RaisedAt, InLoop, HasTodo, HasAll, Suspending
    <2>2. cont[t] = "native" /\ pc'[t] = "native" /\ raised'[t] = {}
      BY <1>1, <1>2, <1>3, <1>4, <2>1 DEF OpAt, LeavingLabels
    <2> QED
      BY <1>2, <1>4, <2>1, <2>2 DEF RaisedAt, InLoop, HasAll, HasTodo
  <1>5. CASE c # t
    <2>1. pc'[c] = pc[c] /\ pc[c] \notin ListLockLabels
      BY <1>1, <1>2, <1>5, ThreadsAssumption DEF LockAt
    <2>2. ~InLoop(c) /\ pc[c] \notin {"rcLoop", "rcRaise", "rcRetry", "stRetry", "scRaise"}
      BY <2>1 DEF InLoop, ListLockLabels
    <2>3. CASE HasAll(c)
      <3>1. raised'[c] = raised[c] \cup {t} /\ op[c] \in {"SuspendAll", "FlipThreadRoots"}
        BY <1>1, <1>2, <1>3, <2>3 DEF Suspending, HasAll, OpAt, SuspendAllLabels,
           FlipLabels
      <3>2. cont[c] = "native" /\ todo[c] = {} /\ raised[c] = list \ {c}
        BY <1>1, <2>2, <2>3, Zenon DEF HasAll, HasTodo, OpAt, LeavingLabels, RaisedAt
      <3>3. pc[c] \in {"saWait", "saExclusive", "saHeld", "raLock", "flipResume"}
        BY <2>3 DEF HasAll
      <3>4. c \in list
        BY <1>1, <3>3, Zenon DEF RaisedAt
      <3>5. c \notin raised'[c] /\ raised'[c] = list' \ {c}
        BY <1>2, <1>5, <3>1, <3>2
      <3> QED
        BY <1>2, <1>5, <2>1, <3>1, <3>2, <3>3, <3>4, <3>5 DEF RaisedAt, InLoop,
           HasAll, HasTodo
    <2>4. CASE ~HasAll(c)
      <3>1. raised'[c] = raised[c]
        BY <1>2, <1>3, <2>2, <2>4 DEF Suspending
      <3> QED
        BY <1>1, <1>2, <1>5, <2>1, <2>2, <2>4, <3>1 DEF RaisedAt, InLoop, HasAll,
           HasTodo
    <2> QED
      BY <2>3, <2>4
  <1> QED
    BY <1>4, <1>5

\* Its suspend count is the number of suspend-alls in progress.
LEMMA RegisterCounts ==
  ASSUME Counting, CountsInv, NEW t \in Threads, Register(t)
  PROVE  CountInv'
  <1> /\ flags \in [Threads -> SUBSET Flags]
      /\ suspendCount \in [Threads -> Nat]
      /\ raised \in [Threads -> SUBSET Threads]
    BY DEF CountsInv, ControlInv, TypeInv, ThreadType, OpType, CountInv
  <1>1. t \notin list /\ \A c \in Threads : t \notin raised[c]
    <2>1. \A c \in Threads : RaisedAt(c)
      BY DEF CountsInv
    <2>2. t \notin list
      BY <2>1 DEF RaisedAt, Register
    <2> QED
      BY <2>1, <2>2 DEF RaisedAt
  <1>2. Raisers(t)' = SuspendingAll /\ \A u \in Threads \ {t} : Raisers(u)' = Raisers(u)
    BY <1>1 DEF Raisers, Register, SuspendingAll
  <1>3. suspendAllCount = Cardinality(SuspendingAll) /\ suspendAllCount \in Nat
    <2>1. SuspendingAll \in SUBSET Threads
      BY DEF SuspendingAll
    <2> QED
      BY <2>1, Zenon DEF Counting, CountsInv, AllInv
  <1>4. suspendCount' = [suspendCount EXCEPT ![t] = suspendAllCount]
    BY DEF Register
  <1>5. /\ \A u \in Threads \ {t} : flags'[u] = flags[u]
        /\ "SuspendRequest" \in flags'[t] <=> suspendAllCount > 0
    BY DEF Register
  <1>6. suspendCount' \in [Threads -> Nat]
    BY <1>3, <1>4
  <1>7. ASSUME NEW u \in Threads
        PROVE  /\ "SuspendRequest" \in flags'[u] <=> suspendCount'[u] > 0
               /\ suspendCount'[u] = Cardinality(Raisers(u)')
    <2>1. CASE u = t
      BY <1>2, <1>3, <1>4, <1>5, <2>1
    <2>2. CASE u # t
      <3>1. flags'[u] = flags[u] /\ suspendCount'[u] = suspendCount[u] /\ Raisers(u)' = Raisers(u)
        BY <1>2, <1>4, <1>5, <2>2
      <3> QED
        BY <3>1 DEF CountsInv, CountInv
    <2> QED
      BY <2>1, <2>2
  <1> QED
    BY <1>6, <1>7, Zenon DEF CountInv

\* A thread that is unregistered is in nobody's set, and nobody is yet to ask it.
LEMMA UnregisterRaised ==
  ASSUME Counting, CountsInv, NEW t \in Threads, Unregister(t), NEW c \in Threads
  PROVE  RaisedAt(c)'
  <1> /\ list \subseteq Threads
      /\ raised \in [Threads -> SUBSET Threads]
      /\ todo \in [Threads -> SUBSET Threads]
      /\ pc \in [Threads -> Labels]
      /\ op \in [Threads -> OpNames \cup {"none"}]
    BY DEF CountsInv, ControlInv, TypeInv, ListType, OpType
  <1>1. RaisedAt(c) /\ OpAt(c) /\ LockAt(c) /\ OpAt(t) /\ RaisedAt(t) /\ StateAt(t) /\ CountInv
    BY DEF CountsInv, ControlInv, LocalInv
  <1>2. /\ pc[t] = "unregister" /\ pc' = [pc EXCEPT ![t] = "detached"] /\ list' = list \ {t}
        /\ op' = [op EXCEPT ![t] = "none"]
        /\ raised' = raised /\ cont' = cont /\ cur' = cur /\ todo' = todo
        /\ listLock = NoThread /\ ~IsSuspended(t)
    BY DEF Unregister, Goto, LocksFree
  <1>3. t \notin raised[c]
    <2>1. state[t] # "Runnable"
      BY <1>1, <1>2 DEF StateAt, RunnableLabels, CheckpointLabels
    <2>2. "SuspendRequest" \notin flags[t]
      BY <1>2, <2>1 DEF IsSuspended
    <2> QED
      BY <1>1, <2>2, RaisersNone
  <1>4. CASE c = t
    <2>1. op[t] = "Detach" /\ raised[t] = {} /\ todo[t] = {} /\ cont[t] = "native"
      BY <1>1, <1>2, Zenon DEF OpAt, RaisedAt, InLoop, HasTodo, LeavingLabels
    <2> QED
      BY <1>2, <1>4, <2>1 DEF RaisedAt, InLoop, HasAll, HasTodo
  <1>5. CASE c # t
    <2>1. pc'[c] = pc[c] /\ op'[c] = op[c] /\ pc[c] \notin ListLockLabels
      BY <1>1, <1>2, <1>5, ThreadsAssumption DEF LockAt
    <2>2. ~InLoop(c) /\ pc[c] \notin {"rcLoop", "rcRaise", "rcRetry", "stRetry", "scRaise"}
      BY <2>1 DEF InLoop, ListLockLabels
    <2>3. t \in list
      BY <1>1, <1>2, Zenon DEF RaisedAt
    <2>4. ~HasAll(c)
      BY <1>1, <1>3, <1>5, <2>3, Zenon DEF RaisedAt
    <2>5. t \notin todo[c]
      BY <1>1, <1>3, <2>2, Zenon DEF RaisedAt
    <2>6. c \in list' <=> pc'[c] # "detached"
      BY <1>1, <1>2, <1>5, <2>1, Zenon DEF RaisedAt
    <2>7. raised[c] \subseteq list' /\ todo[c] \subseteq list'
      BY <1>1, <1>2, <1>3, <2>5 DEF RaisedAt
    <2> QED
      BY <1>1, <1>2, <2>1, <2>2, <2>4, <2>6, <2>7 DEF RaisedAt, InLoop, HasAll,
         HasTodo
  <1> QED
    BY <1>4, <1>5

\* A thread that decides to detach changes no count and no set.
LEMMA CallUnregisterCounts ==
  ASSUME CountsInv, NEW t \in Threads, CallUnregister(t)
  PROVE  RaisedFrame(t) /\ AllStep(t) /\ RaisedAt(t)' /\ CountStep(t)
  <1>1. TypeInv /\ CountInv /\ RaisedAt(t) /\ OpAt(t)
    BY DEF CountsInv, ControlInv, LocalInv
  <1>2. /\ pc[t] = "native" /\ pc' = [pc EXCEPT ![t] = "unregister"]
        /\ op' = [op EXCEPT ![t] = "Detach"]
        /\ UNCHANGED <<threadVars, listVars, cur, todo, raised, cont>>
    BY DEF CallUnregister, Goto
  <1> /\ flags \in [Threads -> SUBSET Flags]
      /\ suspendCount \in [Threads -> Nat]
      /\ raised \in [Threads -> SUBSET Threads]
      /\ todo \in [Threads -> SUBSET Threads]
      /\ pc \in [Threads -> Labels]
      /\ op \in [Threads -> OpNames \cup {"none"}]
    BY <1>1 DEF TypeInv, ThreadType, OpType, CountInv
  <1>3. RaisedFrame(t)
    BY <1>2, Zenon DEF RaisedFrame, listVars
  <1>4. AllStep(t)
    BY <1>2, Zenon DEF AllStep, Suspending, InLoop, HasAll, listVars
  <1>5. RaisedAt(t)'
    BY <1>1, <1>2, Zenon DEF RaisedAt, OpAt, InLoop, HasAll, HasTodo, LeavingLabels, listVars
  <1>6. CountStep(t)
    BY <1>2, CountSame, Zenon DEF threadVars
  <1> QED
    BY <1>3, <1>4, <1>5, <1>6

\* So attaching and detaching keep the invariant.
LEMMA AttachKeepsCounts ==
  ASSUME Counting, CountsInv, ControlInv', NEW t \in Threads, AttachStep(t)
  PROVE  CountsInv'
  <1>1. /\ TypeInv /\ CheckpointOnlyWhenRunnable /\ MutatorInv /\ CountInv /\ AllInv /\ ControlInv
        /\ StateAt(t) /\ LockAt(t) /\ OpAt(t) /\ CurAt(t)
    BY DEF CountsInv, ControlInv, LocalInv
  <1>2. Frame(t)
    BY <1>1, AttachKeepsControl DEF ControlStep
  <1>3. CASE Register(t)
    <2>1. AllStep(t)
      BY <1>1, <1>3 DEF AllStep, Register, Goto, Suspending, InLoop, HasAll, TypeInv,
         OpType
    <2>2. AllInv'
      BY <1>1, <1>2, <2>1, AllKept
    <2> QED
      BY <1>3, <2>2, RegisterRaised, RegisterCounts DEF CountsInv
  <1>4. CASE CallUnregister(t)
    BY <1>2, <1>4, CallUnregisterCounts, CountsKept
  <1>5. CASE Unregister(t)
    <2>1. AllStep(t)
      BY <1>1, <1>5 DEF AllStep, Unregister, Goto, Suspending, InLoop, HasAll,
         TypeInv, OpType
    <2>2. AllInv'
      BY <1>1, <1>2, <2>1, AllKept
    <2>3. CountInv'
      BY <1>1, <1>5, CountsSame, Zenon DEF Unregister, SameCounts
    <2> QED
      BY <1>5, <2>2, <2>3, UnregisterRaised DEF CountsInv
  <1> QED
    BY <1>3, <1>4, <1>5, Zenon DEF AttachStep

\* At the start no thread has raised a count.
LEMMA InitCounts ==
  ASSUME Counting, Init
  PROVE  CountsInv
  <1>1. ControlInv
    BY InitControl
  <1>2. ASSUME NEW c \in Threads PROVE RaisedAt(c)
    <2>1. /\ raised[c] = {} /\ todo[c] = {} /\ op[c] = "none" /\ cont[c] = "native"
          /\ pc[c] = IF c \in list THEN "native" ELSE "detached"
      BY DEF Init
    <2> QED
      BY <2>1 DEF RaisedAt, InLoop, HasAll, HasTodo
  <1>3. CountInv
    <2>1. \A t \in Threads : Raisers(t) = {} /\ suspendCount[t] = 0 /\ flags[t] = {}
      BY DEF Init, Raisers
    <2>2. suspendCount \in [Threads -> Nat]
      BY DEF Init
    <2> QED
      BY <2>1, <2>2, SMTT(60) DEF Counting, CountInv
  <1>4. AllInv
    <2>1. SuspendingAll = {}
      BY DEF Init, SuspendingAll
    <2> QED
      BY <2>1 DEF Counting, AllInv, Init
  <1> QED
    BY <1>1, <1>2, <1>3, <1>4 DEF CountsInv

-----------------------------------------------------------------------------
(* The suspend barriers                                                    *)

\* The threads that have a caller's barrier installed, and those that have claimed
\* it and not yet counted it down.
Installed(c) == {t \in Threads : c \in barriers[t]}
Claimed(c) == {t \in Threads : c \in passing[t]}

PendingAt(c) ==
  /\ pending[c] = Cardinality(Unasked(c)) + Cardinality(Installed(c)) + Cardinality(Claimed(c))
  /\ ~Waits(c) => pending[c] = 0

BarrierInv ==
  /\ pending \in [Threads -> Nat]
  /\ \A c \in Threads : BarrierAt(c) /\ PendingAt(c)

StopInv ==
  /\ CountsInv
  /\ BarrierInv
  /\ \A c \in Threads : StoppedAt(c)

\* The threads a barrier counts are sets of threads.
LEMMA BarrierSets ==
  ASSUME Counting, CountsInv, NEW c \in Threads
  PROVE  /\ Unasked(c) \in SUBSET Threads
         /\ Installed(c) \in SUBSET Threads
         /\ Claimed(c) \in SUBSET Threads
         /\ Cardinality(Unasked(c)) \in Nat
         /\ Cardinality(Installed(c)) \in Nat
         /\ Cardinality(Claimed(c)) \in Nat
  <1>1. Unasked(c) \in SUBSET Threads /\ Installed(c) \in SUBSET Threads
        /\ Claimed(c) \in SUBSET Threads
    BY DEF CountsInv, ControlInv, TypeInv, OpType, Unasked, Installed, Claimed
  <1> QED
    BY <1>1 DEF Counting

\* A thread whose barriers a step leaves alone.
LEMMA BarrierSame ==
  ASSUME NEW t \in Threads, BarrierAt(t), barriers'[t] = barriers[t], passing'[t] = passing[t],
         "ActiveSuspendBarrier" \in flags'[t] <=> "ActiveSuspendBarrier" \in flags[t],
         pc[t] \in {"passSuspended", "passRunnable"} => pc'[t] = pc[t],
         \A c \in barriers[t] \cup passing[t] :
            Waits(c) /\ t \in raised[c] => Waits(c)' /\ t \in raised'[c]
  PROVE  BarrierAt(t)'
  BY Zenon DEF BarrierAt

\* A caller whose barrier a step leaves alone.
LEMMA PendingSame ==
  ASSUME NEW c \in Threads, PendingAt(c), pending'[c] = pending[c], Waits(c)' <=> Waits(c),
         Unasked(c)' = Unasked(c), Installed(c)' = Installed(c), Claimed(c)' = Claimed(c)
  PROVE  PendingAt(c)'
  BY Zenon DEF PendingAt

\* A thread that is asked is still counted, ...
LEMMA PendingMoves ==
  ASSUME Counting, CountsInv, NEW c \in Threads, PendingAt(c), pending'[c] = pending[c], Waits(c)',
         Cardinality(Unasked(c)') = Cardinality(Unasked(c)) - 1,
         Cardinality(Installed(c)') = Cardinality(Installed(c)) + 1, Claimed(c)' = Claimed(c)
  PROVE  PendingAt(c)'
  BY BarrierSets, SMTT(60) DEF PendingAt

\* ... until it is counted down, ...
LEMMA PendingFalls ==
  ASSUME Counting, CountsInv, NEW c \in Threads, PendingAt(c), pending'[c] = pending[c] - 1,
         Waits(c)', Unasked(c)' = Unasked(c), Claimed(c)' = Claimed(c),
         Cardinality(Installed(c)') = Cardinality(Installed(c)) - 1, Cardinality(Installed(c)) > 0
  PROVE  PendingAt(c)' /\ pending'[c] \in Nat
  BY BarrierSets, SMTT(60) DEF PendingAt

\* ... by the caller or, once it has claimed the barrier, by itself.
LEMMA PendingPasses ==
  ASSUME Counting, CountsInv, NEW c \in Threads, PendingAt(c), pending'[c] = pending[c] - 1,
         Waits(c)', Unasked(c)' = Unasked(c), Installed(c)' = Installed(c),
         Cardinality(Claimed(c)') = Cardinality(Claimed(c)) - 1, Cardinality(Claimed(c)) > 0
  PROVE  PendingAt(c)' /\ pending'[c] \in Nat
  BY BarrierSets, SMTT(60) DEF PendingAt

\* Barriers are those of threads.
LEMMA BarrierType ==
  ASSUME CountsInv, NEW t \in Threads
  PROVE  barriers[t] \cup passing[t] \subseteq Threads
  BY DEF CountsInv, ControlInv, TypeInv, ThreadType

\* What a step of another thread leaves alone.
LEMMA WaitersKept ==
  ASSUME CountsInv, NEW t \in Threads, Frame(t), NEW c \in Threads, c # t, todo'[c] = todo[c]
  PROVE  (Waits(c)' <=> Waits(c)) /\ Unasked(c)' = Unasked(c) /\ pc'[c] = pc[c]
  <1>1. pc'[c] = pc[c]
    BY DEF Frame, CountsInv, ControlInv, TypeInv, OpType
  <1> QED
    BY <1>1 DEF Waits, Unasked, InLoop

\* A step that leaves the barriers alone keeps them exact.
LEMMA SameBarriersKept ==
  ASSUME CountsInv, BarrierInv, NEW t \in Threads, Frame(t), SameBarriers(t),
         \A c \in Threads \ {t} : todo'[c] = todo[c] /\ raised'[c] = raised[c]
  PROVE  BarrierInv'
  <1>1. \A c \in Threads : (Waits(c)' <=> Waits(c)) /\ Unasked(c)' = Unasked(c)
    BY WaitersKept DEF SameBarriers
  <1>2. \A c \in Threads : Waits(c) => raised'[c] = raised[c]
    BY DEF SameBarriers
  <1>3. \A c \in Threads : pc[c] \in {"passSuspended", "passRunnable"} => pc'[c] = pc[c]
    BY WaitersKept DEF SameBarriers
  <1>4. ASSUME NEW v \in Threads
        PROVE  BarrierAt(v)'
    BY <1>1, <1>2, <1>3, BarrierType, BarrierSame, Zenon DEF SameBarriers, BarrierInv
  <1>5. ASSUME NEW c \in Threads
        PROVE  PendingAt(c)'
    <2>1. Installed(c)' = Installed(c) /\ Claimed(c)' = Claimed(c)
      BY Zenon DEF SameBarriers, Installed, Claimed
    <2> QED
      BY <1>1, <2>1, PendingSame, Zenon DEF SameBarriers, BarrierInv
  <1>6. pending' \in [Threads -> Nat]
    BY DEF SameBarriers, BarrierInv
  <1> QED
    BY <1>4, <1>5, <1>6 DEF BarrierInv

\* Nobody has the barrier of a thread that does not wait.
LEMMA NotWaitedFor ==
  ASSUME BarrierInv, NEW c \in Threads, ~Waits(c)
  PROVE  /\ \A u \in Threads : c \notin barriers[u] /\ c \notin passing[u]
         /\ Installed(c) = {} /\ Claimed(c) = {}
  <1>1. \A u \in Threads : c \notin barriers[u] /\ c \notin passing[u]
    BY DEF BarrierInv, BarrierAt
  <1> QED
    BY <1>1 DEF Installed, Claimed

\* SuspendAllInternal starts to count: all other threads are yet to be asked.
LEMMA BeginBarriers ==
  ASSUME Counting, CountsInv, BarrierInv, NEW t \in Threads, Frame(t), RaisedFrame(t),
         SuspendAllBegin(t)
  PROVE  BarrierInv'
  <1> /\ todo \in [Threads -> SUBSET Threads] /\ pc \in [Threads -> Labels]
      /\ raised \in [Threads -> SUBSET Threads] /\ list \subseteq Threads
      /\ pending \in [Threads -> Nat]
    BY DEF CountsInv, ControlInv, TypeInv, OpType, ListType, BarrierInv
  <1>1. /\ pc[t] = "saLock" /\ pc'[t] = "saLoop" /\ todo'[t] = list \ {t}
        /\ pending' = [pending EXCEPT ![t] = Cardinality(list \ {t})]
        /\ UNCHANGED <<flags, barriers, passing, raised>>
    BY DEF SuspendAllBegin, Goto, threadVars
  <1>2. ~Waits(t) /\ Waits(t)' /\ Unasked(t)' = list \ {t}
    BY <1>1 DEF Waits, Unasked, InLoop
  <1>3. ASSUME NEW c \in Threads, c # t
        PROVE  (Waits(c)' <=> Waits(c)) /\ Unasked(c)' = Unasked(c) /\ pc'[c] = pc[c]
    BY <1>3, WaitersKept DEF RaisedFrame
  <1>4. \A u \in Threads : t \notin barriers[u] /\ t \notin passing[u]
    BY <1>2, NotWaitedFor
  <1>5. Installed(t)' = {} /\ Claimed(t)' = {}
    BY <1>1, <1>4 DEF Installed, Claimed
  <1>6. Cardinality(list \ {t}) \in Nat /\ Cardinality({}) = 0
    BY DEF Counting
  <1>7. ASSUME NEW c \in Threads
        PROVE  BarrierAt(c)'
    <2>1. BarrierAt(c) /\ (pc[c] \in {"passSuspended", "passRunnable"} => pc'[c] = pc[c])
      BY <1>1, <1>3 DEF BarrierInv
    <2>2. ASSUME NEW d \in barriers[c] \cup passing[c], Waits(d)
          PROVE  Waits(d)' /\ raised' = raised
      BY <1>1, <1>3, <1>4, <2>2, BarrierType, Zenon
    <2> QED
      BY <1>1, <2>1, <2>2, BarrierSame
  <1>8. ASSUME NEW c \in Threads
        PROVE  PendingAt(c)'
    <2>1. CASE c = t
      <3>1. pending'[t] = Cardinality(list \ {t})
        BY <1>1
      <3>2. /\ Cardinality(Unasked(t)') = Cardinality(list \ {t})
            /\ Cardinality(Installed(t)') = 0 /\ Cardinality(Claimed(t)') = 0
        BY <1>2, <1>5, <1>6, Zenon
      <3>3. pending'[t] = Cardinality(Unasked(t)') + Cardinality(Installed(t)')
                          + Cardinality(Claimed(t)')
        BY <1>6, <3>1, <3>2, SMTT(60)
      <3> QED
        BY <1>2, <2>1, <3>3 DEF PendingAt
    <2>2. CASE c # t
      <3>1. Installed(c)' = Installed(c) /\ Claimed(c)' = Claimed(c) /\ pending'[c] = pending[c]
        BY <1>1, <2>2 DEF Installed, Claimed
      <3> QED
        BY <1>3, <2>2, <3>1, PendingSame DEF BarrierInv
    <2> QED
      BY <2>1, <2>2
  <1>9. pending' \in [Threads -> Nat]
    BY <1>1, <1>6
  <1> QED
    BY <1>7, <1>8, <1>9 DEF BarrierInv

\* ... then each has the barrier installed, ...
LEMMA RaiseBarriers ==
  ASSUME Counting, CountsInv, BarrierInv, NEW t \in Threads, Frame(t), RaisedFrame(t),
         NEW u \in todo[t], Raise(t, u, TRUE), InLoop(t), InLoop(t)',
         todo'[t] = todo[t] \ {u}, passing' = passing, pending' = pending,
         pc[t] \notin {"passSuspended", "passRunnable"}
  PROVE  BarrierInv'
  <1> /\ todo \in [Threads -> SUBSET Threads] /\ flags \in [Threads -> SUBSET Flags]
      /\ raised \in [Threads -> SUBSET Threads] /\ barriers \in [Threads -> SUBSET Threads]
      /\ u \in Threads
    BY DEF CountsInv, ControlInv, TypeInv, ThreadType, OpType
  <1>1. /\ barriers'[u] = barriers[u] \cup {t}
        /\ \A v \in Threads \ {u} : barriers'[v] = barriers[v] /\ flags'[v] = flags[v]
        /\ "ActiveSuspendBarrier" \in flags'[u]
    BY DEF Raise
  <1>2. u \in raised'[t] /\ \A c \in Threads : raised[c] \subseteq raised'[c]
    BY DEF Raise
  <1>3. u \notin raised[t]
    <2>1. RaisedAt(t)
      BY DEF CountsInv
    <2> QED
      BY <2>1 DEF RaisedAt
  <1>4. t \notin barriers[u] /\ t \notin passing[u]
    BY <1>3 DEF BarrierInv, BarrierAt
  <1>5. Waits(t) /\ Waits(t)' /\ Unasked(t) = todo[t] /\ Unasked(t)' = todo[t] \ {u}
    BY DEF Waits, Unasked
  <1>6. ASSUME NEW c \in Threads, c # t
        PROVE  (Waits(c)' <=> Waits(c)) /\ Unasked(c)' = Unasked(c) /\ pc'[c] = pc[c]
    <2>1. todo'[c] = todo[c]
      BY <1>6, SMTT(30) DEF RaisedFrame
    <2> QED
      BY <1>6, <2>1, WaitersKept, Zenon
  <1>7. ASSUME NEW v \in Threads
        PROVE  BarrierAt(v)'
    <2>1. BarrierAt(v) /\ (pc[v] \in {"passSuspended", "passRunnable"} => pc'[v] = pc[v])
      BY <1>6 DEF BarrierInv
    <2>2. \A c \in Threads : Waits(c) => Waits(c)'
      BY <1>5, <1>6
    <2>3. barriers[v] \cup passing[v] \subseteq Threads
      BY DEF CountsInv, ControlInv, TypeInv, ThreadType
    <2>4. CASE v = u
      BY <1>1, <1>2, <1>4, <1>5, <2>1, <2>2, <2>3, <2>4 DEF BarrierAt
    <2>5. CASE v # u
      BY <1>1, <1>2, <2>1, <2>2, <2>3, <2>5 DEF BarrierAt
    <2> QED
      BY <2>4, <2>5
  <1>8. /\ Installed(t)' = Installed(t) \cup {u} /\ u \notin Installed(t)
        /\ Claimed(t)' = Claimed(t)
        /\ \A c \in Threads \ {t} : Installed(c)' = Installed(c) /\ Claimed(c)' = Claimed(c)
    BY <1>1, <1>4 DEF Installed, Claimed
  <1>9. /\ Cardinality(Installed(t)') = Cardinality(Installed(t)) + 1
        /\ Cardinality(Unasked(t)') = Cardinality(Unasked(t)) - 1
    BY <1>5, <1>8, BarrierSets, CountAdd, CountRemove, Zenon
  <1>10. PendingAt(t)'
    BY <1>5, <1>8, <1>9, PendingMoves DEF BarrierInv
  <1>11. ASSUME NEW c \in Threads, c # t
         PROVE  PendingAt(c)'
    BY <1>6, <1>8, <1>11, PendingSame, Zenon DEF BarrierInv
  <1> QED
    BY <1>7, <1>10, <1>11 DEF BarrierInv

\* ... and is counted down for it if it turns out to be suspended; ...
LEMMA CheckBarriers ==
  ASSUME Counting, CountsInv, BarrierInv, NEW t \in Threads, Frame(t), RaisedFrame(t), StoppedAt(t),
         SuspendAllCheck(t)
  PROVE  BarrierInv'
  <1> DEFINE u == cur[t]
  <1> /\ barriers \in [Threads -> SUBSET Threads] /\ flags \in [Threads -> SUBSET Flags]
      /\ pc \in [Threads -> Labels] /\ pending \in [Threads -> Nat]
    BY DEF CountsInv, ControlInv, TypeInv, ThreadType, OpType, BarrierInv
  <1>1. /\ pc[t] = "saCheck" /\ pc'[t] = "saLoop"
        /\ UNCHANGED <<passing, raised, todo>>
    BY DEF SuspendAllCheck, Goto
  <1>2. Waits(t) /\ Waits(t)' /\ Unasked(t)' = Unasked(t)
    BY <1>1 DEF Waits, Unasked, InLoop
  <1>3. CASE ~IsSuspended(u)
    <2>1. UNCHANGED <<barriers, flags, pending>>
      BY <1>3 DEF SuspendAllCheck
    <2>2. SameBarriers(t)
      BY <1>1, <1>2, <2>1, Zenon DEF SameBarriers
    <2> QED
      BY <1>1, <2>2, SameBarriersKept
  <1>4. CASE IsSuspended(u)
    <2>1. u \in Threads /\ t \in barriers[u]
      <3>1. CurAt(t)
        BY DEF CountsInv, ControlInv, LocalInv
      <3> QED
        BY <1>1, <3>1 DEF StoppedAt, CurAt
    <2>2. /\ barriers'[u] = barriers[u] \ {t}
          /\ \A v \in Threads \ {u} : barriers'[v] = barriers[v] /\ flags'[v] = flags[v]
          /\ "ActiveSuspendBarrier" \in flags'[u] <=>
               "ActiveSuspendBarrier" \in flags[u] /\ barriers[u] \ {t} # {}
          /\ pending' = [pending EXCEPT ![t] = @ - 1]
      <3>1. /\ barriers' = [barriers EXCEPT ![u] = @ \ {t}]
            /\ flags' = [flags EXCEPT ![u] =
                           IF barriers[u] \ {t} = {} THEN @ \ {"ActiveSuspendBarrier"} ELSE @]
            /\ pending' = [pending EXCEPT ![t] = @ - 1]
        BY <1>4 DEF SuspendAllCheck
      <3>2. "ActiveSuspendBarrier" \in flags'[u] <=>
              "ActiveSuspendBarrier" \in flags[u] /\ barriers[u] \ {t} # {}
        BY <2>1, <3>1
      <3> QED
        BY <2>1, <3>1, <3>2
    <2>3. \A c \in Threads : (Waits(c)' <=> Waits(c)) /\ Unasked(c)' = Unasked(c)
      BY <1>1, <1>2, WaitersKept
    <2>4. ASSUME NEW v \in Threads
          PROVE  BarrierAt(v)'
      <3>1. BarrierAt(v) /\ (pc[v] \in {"passSuspended", "passRunnable"} => pc'[v] = pc[v])
        BY <1>1, WaitersKept DEF BarrierInv
      <3>2. barriers[v] \cup passing[v] \subseteq Threads
        BY DEF CountsInv, ControlInv, TypeInv, ThreadType
      <3>3. CASE v = u
        BY <1>1, <2>2, <2>3, <3>1, <3>2, <3>3 DEF BarrierAt
      <3>4. CASE v # u
        BY <1>1, <2>2, <2>3, <3>1, <3>2, <3>4 DEF BarrierAt
      <3> QED
        BY <3>3, <3>4
    <2>5. /\ Installed(t)' = Installed(t) \ {u} /\ u \in Installed(t)
          /\ Claimed(t)' = Claimed(t)
          /\ \A c \in Threads \ {t} : Installed(c)' = Installed(c) /\ Claimed(c)' = Claimed(c)
      BY <1>1, <2>1, <2>2 DEF Installed, Claimed
    <2>6. /\ Cardinality(Installed(t)') = Cardinality(Installed(t)) - 1
          /\ Cardinality(Installed(t)) > 0
      BY <2>5, BarrierSets, CountRemove, Zenon
    <2>7. PendingAt(t)' /\ pending'[t] \in Nat
      <3>1. pending'[t] = pending[t] - 1
        BY <2>2
      <3> QED
        BY <1>2, <2>5, <2>6, <3>1, PendingFalls DEF BarrierInv
    <2>8. \A c \in Threads \ {t} : PendingAt(c)' /\ pending'[c] = pending[c]
      BY <2>2, <2>3, <2>5 DEF BarrierInv, PendingAt
    <2>9. pending' \in [Threads -> Nat]
      BY <2>2, <2>7
    <2> QED
      BY <2>4, <2>7, <2>8, <2>9 DEF BarrierInv
  <1> QED
    BY <1>3, <1>4

\* ... and when the count is zero nobody has the barrier any more.
LEMMA WaitBarriers ==
  ASSUME Counting, CountsInv, BarrierInv, NEW t \in Threads, Frame(t), RaisedFrame(t),
         SuspendAllWait(t)
  PROVE  BarrierInv'
  <1> pc \in [Threads -> Labels]
    BY DEF CountsInv, ControlInv, TypeInv, OpType
  <1>1. /\ pc[t] = "saWait" /\ pc'[t] = "saExclusive" /\ pending[t] = 0
        /\ UNCHANGED <<barriers, passing, pending, flags, raised, todo>>
    BY DEF SuspendAllWait, Goto, threadVars, listVars, opVars
  <1>2. ~Waits(t)' /\ Unasked(t)' = Unasked(t)
    BY <1>1 DEF Waits, Unasked, InLoop
  <1>3. Cardinality(Installed(t)) = 0 /\ Cardinality(Claimed(t)) = 0
    <2>1. 0 = Cardinality(Unasked(t)) + Cardinality(Installed(t)) + Cardinality(Claimed(t))
      BY <1>1, Zenon DEF BarrierInv, PendingAt
    <2> QED
      BY <2>1, BarrierSets, SMTT(60)
  <1>4. Installed(t) = {} /\ Claimed(t) = {}
    BY <1>3, BarrierSets DEF Counting
  <1>5. \A u \in Threads : t \notin barriers[u] /\ t \notin passing[u]
    BY <1>4 DEF Installed, Claimed
  <1>6. ASSUME NEW c \in Threads, c # t
        PROVE  (Waits(c)' <=> Waits(c)) /\ Unasked(c)' = Unasked(c) /\ pc'[c] = pc[c]
    BY <1>1, <1>6, WaitersKept
  <1>7. ASSUME NEW v \in Threads
        PROVE  BarrierAt(v)'
    <2>1. BarrierAt(v) /\ (pc[v] \in {"passSuspended", "passRunnable"} => pc'[v] = pc[v])
      BY <1>1, <1>6 DEF BarrierInv
    <2>2. barriers[v] \cup passing[v] \subseteq Threads
      BY DEF CountsInv, ControlInv, TypeInv, ThreadType
    <2> QED
      BY <1>1, <1>5, <1>6, <2>1, <2>2 DEF BarrierAt
  <1>8. \A c \in Threads : Installed(c)' = Installed(c) /\ Claimed(c)' = Claimed(c)
    BY <1>1 DEF Installed, Claimed
  <1>9. \A c \in Threads : PendingAt(c)'
    BY <1>1, <1>2, <1>6, <1>8, Zenon DEF BarrierInv, PendingAt
  <1> QED
    BY <1>1, <1>7, <1>9 DEF BarrierInv

\* A thread that stops claims the barriers installed in it, ...
LEMMA ClaimKeepsBarriers ==
  ASSUME Counting, CountsInv, BarrierInv, NEW t \in Threads, Frame(t), RaisedFrame(t),
         ClaimBarriers(t)
  PROVE  BarrierInv'
  <1> /\ barriers \in [Threads -> SUBSET Threads] /\ passing \in [Threads -> SUBSET Threads]
      /\ flags \in [Threads -> SUBSET Flags] /\ pc \in [Threads -> Labels]
    BY DEF CountsInv, ControlInv, TypeInv, ThreadType, OpType
  <1>1. /\ pc[t] \in {"passLoop", "toRunnable"} /\ pc'[t] \in {"passSuspended", "passRunnable"}
        /\ passing' = [passing EXCEPT ![t] = barriers[t]]
        /\ barriers' = [barriers EXCEPT ![t] = {}]
        /\ flags' = [flags EXCEPT ![t] = @ \ {"ActiveSuspendBarrier"}]
        /\ UNCHANGED <<pending, raised, todo>>
    BY DEF ClaimBarriers, Goto, listVars, opVars
  <1>2. \A c \in Threads : (Waits(c)' <=> Waits(c)) /\ Unasked(c)' = Unasked(c)
    <2>1. ~Waits(t) /\ ~Waits(t)' /\ Unasked(t)' = Unasked(t)
      BY <1>1 DEF Waits, Unasked, InLoop
    <2> QED
      BY <1>1, <2>1, WaitersKept
  <1>3. ASSUME NEW v \in Threads
        PROVE  BarrierAt(v)'
    <2>1. BarrierAt(v) /\ (v # t => pc'[v] = pc[v])
      BY <1>1, WaitersKept DEF BarrierInv
    <2>2. CASE v = t
      BY <1>1, <1>2, <2>1, <2>2 DEF BarrierAt
    <2>3. CASE v # t
      BY <1>1, <1>2, <2>1, <2>3 DEF BarrierAt
    <2> QED
      BY <2>2, <2>3
  <1>4. passing[t] = {}
    BY <1>1 DEF BarrierInv, BarrierAt
  <1>5. ASSUME NEW c \in Threads
        PROVE  PendingAt(c)'
    <2>1. CASE c \in barriers[t]
      <3>1. /\ Installed(c)' = Installed(c) \ {t} /\ t \in Installed(c)
            /\ Claimed(c)' = Claimed(c) \cup {t} /\ t \notin Claimed(c)
        BY <1>1, <1>4, <2>1 DEF Installed, Claimed
      <3>2. /\ Cardinality(Installed(c)') = Cardinality(Installed(c)) - 1
            /\ Cardinality(Claimed(c)') = Cardinality(Claimed(c)) + 1
        BY <3>1, BarrierSets, CountAdd, CountRemove
      <3>3. PendingAt(c) /\ pending' = pending
        BY <1>1 DEF BarrierInv
      <3> QED
        BY <1>2, <3>2, <3>3, BarrierSets, SMTT(60) DEF PendingAt
    <2>2. CASE c \notin barriers[t]
      <3>1. Installed(c)' = Installed(c) /\ Claimed(c)' = Claimed(c)
        BY <1>1, <1>4, <2>2 DEF Installed, Claimed
      <3> QED
        BY <1>1, <1>2, <3>1 DEF BarrierInv, PendingAt
    <2> QED
      BY <2>1, <2>2
  <1> QED
    BY <1>1, <1>3, <1>5 DEF BarrierInv

\* ... and counts them down one by one.
LEMMA PassKeepsBarriers ==
  ASSUME Counting, CountsInv, BarrierInv, NEW t \in Threads, Frame(t), RaisedFrame(t),
         PassBarrier(t)
  PROVE  BarrierInv'
  <1> /\ barriers \in [Threads -> SUBSET Threads] /\ passing \in [Threads -> SUBSET Threads]
      /\ pc \in [Threads -> Labels] /\ pending \in [Threads -> Nat]
    BY DEF CountsInv, ControlInv, TypeInv, ThreadType, OpType, BarrierInv
  <1>1. PICK d \in passing[t] :
          /\ pending' = [pending EXCEPT ![d] = @ - 1]
          /\ passing' = [passing EXCEPT ![t] = @ \ {d}]
          /\ passing[t] # {d} => pc' = pc
    BY DEF PassBarrier
  <1>2. /\ pc[t] \in {"passSuspended", "passRunnable"}
        /\ pc'[t] \in {"passSuspended", "passRunnable", "passLoop", "toRunnable"}
        /\ UNCHANGED <<barriers, flags, raised, todo>>
    BY DEF PassBarrier, Goto, opVars
  <1>3. \A c \in Threads : (Waits(c)' <=> Waits(c)) /\ Unasked(c)' = Unasked(c)
    <2>1. ~Waits(t) /\ ~Waits(t)' /\ Unasked(t)' = Unasked(t)
      BY <1>2 DEF Waits, Unasked, InLoop
    <2> QED
      BY <1>2, <2>1, WaitersKept
  <1>4. ASSUME NEW v \in Threads
        PROVE  BarrierAt(v)'
    <2>1. BarrierAt(v) /\ (v # t => pc'[v] = pc[v])
      BY <1>2, WaitersKept DEF BarrierInv
    <2>2. CASE v = t
      BY <1>1, <1>2, <1>3, <2>1, <2>2 DEF BarrierAt
    <2>3. CASE v # t
      BY <1>1, <1>2, <1>3, <2>1, <2>3 DEF BarrierAt
    <2> QED
      BY <2>2, <2>3
  <1>5. /\ Claimed(d)' = Claimed(d) \ {t} /\ t \in Claimed(d)
        /\ \A c \in Threads \ {d} : Claimed(c)' = Claimed(c)
        /\ \A c \in Threads : Installed(c)' = Installed(c)
    BY <1>1, <1>2 DEF Installed, Claimed
  <1>6. Cardinality(Claimed(d)') = Cardinality(Claimed(d)) - 1 /\ Cardinality(Claimed(d)) > 0
    BY <1>5, BarrierSets, CountRemove
  <1>7. Waits(d)
    BY <1>1 DEF BarrierInv, BarrierAt
  <1>8. PendingAt(d)' /\ pending'[d] \in Nat
    <2>1. d \in Threads
      BY <1>1
    <2>2. pending'[d] = pending[d] - 1
      BY <1>1, <2>1
    <2>3. Waits(d)'
      BY <1>3, <1>7, <2>1
    <2> QED
      BY <1>3, <1>5, <1>6, <2>1, <2>2, <2>3, PendingPasses DEF BarrierInv
  <1>9. \A c \in Threads \ {d} : PendingAt(c)'
    BY <1>1, <1>3, <1>5 DEF BarrierInv, PendingAt
  <1>10. pending' \in [Threads -> Nat]
    BY <1>1, <1>8
  <1> QED
    BY <1>4, <1>8, <1>9, <1>10 DEF BarrierInv

\* A step of one thread in one of the operations, and what it may do to the barriers.
ThreadStep(t) ==
  \/ TransitionStep(t) \/ SuspendAllStep(t) \/ FlipStep(t) \/ RunCheckpointStep(t)
  \/ SuspendThreadStep(t) \/ SynchronousStep(t)

BarrierStep(t) ==
  \/ SameBarriers(t) \/ ClaimBarriers(t) \/ PassBarrier(t)
  \/ SuspendAllBegin(t) \/ SuspendAllRaise(t) \/ SuspendAllRaiseAgain(t)
  \/ SuspendAllCheck(t) \/ SuspendAllWait(t)

\* The families' lemmas put together.
LEMMA StepEffect ==
  ASSUME StopInv, NEW t \in Threads, ThreadStep(t)
  PROVE  Frame(t) /\ OperationStep(t) /\ BarrierStep(t)
  <1>1. /\ TypeInv /\ CheckpointOnlyWhenRunnable /\ MutatorInv
        /\ StateAt(t) /\ LockAt(t) /\ OpAt(t) /\ CurAt(t) /\ RaisedAt(t) /\ StoppedAt(t)
    BY DEF StopInv, CountsInv, ControlInv, LocalInv
  <1>2. ControlStep(t)
    BY <1>1, TransitionKeepsControl, SuspendAllKeepsControl, FlipKeepsControl,
       RunCheckpointKeepsControl, SuspendThreadKeepsControl, SynchronousKeepsControl, Zenon
       DEF ThreadStep
  <1>3. OperationStep(t) /\ BarrierStep(t)
    BY <1>1, TransitionKeepsStops, SuspendAllKeepsStops, FlipKeepsStops, RunCheckpointKeepsStops,
       SuspendThreadKeepsStops, SynchronousKeepsStops, Zenon DEF ThreadStep, BarrierStep
  <1> QED
    BY <1>2, <1>3 DEF ControlStep

\* So every step keeps the barriers exact.
LEMMA BarriersKept ==
  ASSUME Counting, CountsInv, BarrierInv, NEW t \in Threads, StoppedAt(t), Frame(t), RaisedFrame(t),
         BarrierStep(t)
  PROVE  BarrierInv'
  <1>1. TypeInv /\ RaisedAt(t)
    BY DEF CountsInv, ControlInv
  <1>2. \A c \in Threads \ {t} : todo'[c] = todo[c] /\ raised'[c] = raised[c]
    BY <1>1 DEF RaisedFrame, TypeInv, OpType
  <1>3. CASE SameBarriers(t)
    BY <1>2, <1>3, SameBarriersKept
  <1>4. CASE SuspendAllBegin(t)
    BY <1>4, BeginBarriers
  <1>5. CASE SuspendAllRaise(t)
    <2>1. PICK u \in todo[t] : Raise(t, u, TRUE) /\ todo' = [todo EXCEPT ![t] = @ \ {u}]
      BY <1>5 DEF SuspendAllRaise
    <2>2. /\ pc[t] = "saLoop" /\ pc'[t] = "saCheck" /\ passing' = passing
          /\ pending' = pending /\ todo'[t] = todo[t] \ {u}
      BY <1>1, <1>5, <2>1 DEF SuspendAllRaise, Goto, listVars, TypeInv, OpType
    <2>3. InLoop(t) /\ InLoop(t)' /\ pc[t] \notin {"passSuspended", "passRunnable"}
      BY <2>2 DEF InLoop
    <2> QED
      BY <2>1, <2>2, <2>3, RaiseBarriers, Zenon
  <1>6. CASE SuspendAllRaiseAgain(t)
    <2>1. /\ pc[t] = "saRetry" /\ pc'[t] = "saCheck" /\ passing' = passing
          /\ pending' = pending /\ todo'[t] = todo[t] \ {cur[t]} /\ Raise(t, cur[t], TRUE)
      BY <1>1, <1>6 DEF SuspendAllRaiseAgain, Goto, listVars, TypeInv, OpType
    <2>2. InLoop(t) /\ InLoop(t)' /\ pc[t] \notin {"passSuspended", "passRunnable"}
      BY <2>1 DEF InLoop
    <2>3. cur[t] \in todo[t]
      BY <1>1, <2>1, Zenon DEF RaisedAt
    <2> QED
      BY <2>1, <2>2, <2>3, RaiseBarriers
  <1>7. CASE SuspendAllCheck(t)
    BY <1>7, CheckBarriers
  <1>8. CASE SuspendAllWait(t)
    BY <1>8, WaitBarriers
  <1>9. CASE ClaimBarriers(t)
    BY <1>9, ClaimKeepsBarriers
  <1>10. CASE PassBarrier(t)
    BY <1>10, PassKeepsBarriers
  <1> QED
    BY <1>3, <1>4, <1>5, <1>6, <1>7, <1>8, <1>9, <1>10 DEF BarrierStep

-----------------------------------------------------------------------------
(* Stopped threads                                                         *)

\* A step of one thread leaves stopped what another thread's operation has stopped:
\* a thread whose count is raised does not become runnable.
LEMMA StoppedOther ==
  ASSUME Counting, CountsInv, NEW t \in Threads, Frame(t), StopsStay(t),
         NEW u \in Threads, u # t, raised'[u] = raised[u], StoppedAt(u)
  PROVE  StoppedAt(u)'
  <1> /\ state \in [Threads -> States] /\ barriers \in [Threads -> SUBSET Threads]
      /\ raised \in [Threads -> SUBSET Threads] /\ cur \in [Threads -> Threads \cup {NoThread}]
    BY DEF CountsInv, ControlInv, TypeInv, ThreadType, OpType
  <1>1. /\ pc'[u] = pc[u] /\ cont'[u] = cont[u] /\ op'[u] = op[u] /\ cur'[u] = cur[u]
        /\ \A v \in Threads \ {t} : state'[v] = state[v]
    BY DEF Frame, CountsInv, ControlInv, TypeInv, ThreadType, OpType
  <1>2. ASSUME NEW v \in raised[u], state[v] # "Runnable"
        PROVE  state'[v] # "Runnable"
    <2>1. CASE v = t
      <3>1. "SuspendRequest" \in flags[t]
        BY <2>1, RaisersNone DEF CountsInv
      <3> QED
        BY <1>2, <2>1, <3>1 DEF StopsStay
    <2>2. CASE v # t
      BY <1>1, <1>2, <2>2
    <2> QED
      BY <2>1, <2>2
  <1>3. ASSUME NEW v \in raised[u], u \in barriers[v]
        PROVE  u \in barriers'[v] \/ state'[v] # "Runnable"
    <2>1. u # t /\ v \in Threads
      BY DEF CountsInv, ControlInv, TypeInv, OpType
    <2>2. barriers[v] \ {t} \subseteq barriers'[v] \/ Claims(t, v)
      BY <2>1 DEF StopsStay
    <2> QED
      BY <1>3, <2>1, <2>2 DEF Claims
  <1>4. RaisedAt(u) /\ LockAt(u)
    BY DEF CountsInv, ControlInv, LocalInv
  <1>5. pc[u] = "saCheck" => u \in barriers'[cur[u]]
    <2> SUFFICES ASSUME pc[u] = "saCheck" PROVE u \in barriers'[cur[u]]
      OBVIOUS
    <2>1. u \in barriers[cur[u]] /\ cur[u] \in Threads /\ countLock = u
      BY <1>4 DEF StoppedAt, RaisedAt, LockAt, CountLockLabels
    <2> QED
      BY <2>1, ThreadsAssumption DEF StopsStay, Claims
  <1>6. \/ pc[u] \in {"rcLower", "stHave", "scRun"} \/ cont[u] = "stHave"
        \/ op[u] = "RequestSynchronousCheckpoint" /\ pc[u] \in ResumingLabels
        => state'[cur[u]] # "Runnable"
    <2> SUFFICES ASSUME \/ pc[u] \in {"rcLower", "stHave", "scRun"} \/ cont[u] = "stHave"
                        \/ op[u] = "RequestSynchronousCheckpoint" /\ pc[u] \in ResumingLabels
                 PROVE  state'[cur[u]] # "Runnable"
      OBVIOUS
    <2>1. cur[u] \in raised[u]
      BY <1>4 DEF RaisedAt
    <2>2. state[cur[u]] # "Runnable"
      BY Zenon DEF StoppedAt
    <2> QED
      BY <1>2, <2>1, <2>2
  <1>7. InLoop(u) \/ HasAll(u) \/ HasTodo(u) =>
          \A v \in raised[u] : u \in barriers'[v] \/ state'[v] # "Runnable"
    BY <1>2, <1>3 DEF StoppedAt
  <1> QED
    BY <1>1, <1>5, <1>6, <1>7 DEF StoppedAt, InLoop, HasAll, HasTodo

\* What a step has to establish to keep the invariant.
LEMMA StopKept ==
  ASSUME Counting, StopInv, CountsInv', NEW t \in Threads, Frame(t), BarrierInv', StopsStay(t),
         StoppedAt(t)', \A c \in Threads \ {t} : raised'[c] = raised[c]
  PROVE  StopInv'
  BY StoppedOther, SMTT(60) DEF StopInv

\* A thread that registers takes over the suspend counts of the suspend-alls in
\* progress without their barriers: it is not runnable.
LEMMA RegisterKeepsStop ==
  ASSUME StopInv, CountsInv', NEW t \in Threads, Register(t)
  PROVE  StopInv'
  <1> /\ state \in [Threads -> States] /\ flags \in [Threads -> SUBSET Flags]
      /\ barriers \in [Threads -> SUBSET Threads] /\ passing \in [Threads -> SUBSET Threads]
      /\ raised \in [Threads -> SUBSET Threads] /\ pc \in [Threads -> Labels]
    BY DEF StopInv, CountsInv, ControlInv, TypeInv, ThreadType, OpType
  <1>1. /\ pc[t] = "detached" /\ pc' = [pc EXCEPT ![t] = "native"]
        /\ UNCHANGED <<state, barriers, passing, pending, op, cur, todo, cont>>
        /\ "ActiveSuspendBarrier" \notin flags'[t]
        /\ \A u \in Threads \ {t} : flags'[u] = flags[u]
        /\ \A c \in Threads : raised[c] \subseteq raised'[c]
        /\ \A c \in Threads : raised'[c] \subseteq raised[c] \cup {t}
    BY DEF Register, Goto
  <1>2. t \notin list /\ state[t] # "Runnable" /\ op[t] = "none" /\ cont[t] = "native"
    <2>1. RaisedAt(t) /\ StateAt(t) /\ OpAt(t)
      BY DEF StopInv, CountsInv, ControlInv, LocalInv
    <2> QED
      BY <1>1, <2>1 DEF RaisedAt, StateAt, OpAt, RunnableLabels, CheckpointLabels,
         LeavingLabels
  <1>3. barriers[t] = {} /\ passing[t] = {}
    <2>1. \A c \in Threads : t \notin raised[c]
      BY <1>2 DEF StopInv, CountsInv, RaisedAt
    <2> QED
      BY <2>1 DEF StopInv, BarrierInv, BarrierAt
  <1>4. \A c \in Threads : (Waits(c)' <=> Waits(c)) /\ Unasked(c)' = Unasked(c)
    BY <1>1 DEF Waits, Unasked, InLoop
  <1>5. ASSUME NEW v \in Threads
        PROVE  BarrierAt(v)'
    <2>1. BarrierAt(v)
      BY DEF StopInv, BarrierInv
    <2> QED
      BY <1>1, <1>3, <1>4, <2>1 DEF BarrierAt
  <1>6. BarrierInv'
    <2>1. ASSUME NEW c \in Threads PROVE PendingAt(c)'
      <3>1. Installed(c)' = Installed(c) /\ Claimed(c)' = Claimed(c)
        BY <1>1, Zenon DEF Installed, Claimed
      <3> QED
        BY <1>1, <1>4, <3>1, PendingSame, Zenon DEF StopInv, BarrierInv
    <2> QED
      BY <1>1, <1>5, <2>1, Zenon DEF StopInv, BarrierInv
  <1>7. ASSUME NEW c \in Threads
        PROVE  StoppedAt(c)'
    <2>1. StoppedAt(c)
      BY DEF StopInv
    <2>2. CASE c = t
      BY <1>1, <1>2, <2>2 DEF StoppedAt, InLoop, HasAll, HasTodo
    <2>3. CASE c # t
      <3>1. pc'[c] = pc[c] /\ \A v \in raised'[c] : v = t \/ v \in raised[c]
        BY <1>1, <2>3
      <3> QED
        BY <1>1, <1>2, <2>1, <3>1 DEF StoppedAt, InLoop, HasAll, HasTodo
    <2> QED
      BY <2>2, <2>3
  <1> QED
    BY <1>6, <1>7 DEF StopInv

\* A thread that detaches is in nobody's way.
LEMMA UnregisterStops ==
  ASSUME CountsInv, NEW t \in Threads, CallUnregister(t) \/ Unregister(t)
  PROVE  /\ SameBarriers(t) /\ StopsStay(t) /\ StoppedAt(t)'
         /\ \A c \in Threads \ {t} : todo'[c] = todo[c] /\ raised'[c] = raised[c]
  <1> /\ state \in [Threads -> States] /\ pc \in [Threads -> Labels]
      /\ op \in [Threads -> OpNames \cup {"none"}]
    BY DEF CountsInv, ControlInv, TypeInv, ThreadType, OpType
  <1>1. /\ pc[t] \in {"native", "unregister"} /\ pc'[t] \in {"unregister", "detached"}
        /\ op'[t] \in {"Detach", "none"}
        /\ state'[t] = "Runnable" => state[t] = "Runnable"
        /\ UNCHANGED <<flags, barriers, passing, pending, todo, raised, cont>>
    BY DEF CallUnregister, Unregister, Goto, threadVars, listVars
  <1>2. cont[t] = "native"
    <2>1. OpAt(t)
      BY DEF CountsInv, ControlInv, LocalInv
    <2> QED
      BY <1>1, <2>1 DEF OpAt, LeavingLabels
  <1>3. SameBarriers(t)
    BY <1>1 DEF SameBarriers, Waits, Unasked, InLoop
  <1>4. StopsStay(t)
    BY <1>1 DEF StopsStay
  <1>5. StoppedAt(t)'
    BY <1>1, <1>2 DEF StoppedAt, InLoop, HasAll, HasTodo
  <1> QED
    BY <1>1, <1>3, <1>4, <1>5

\* Attaching and detaching.
LEMMA AttachKeepsStop ==
  ASSUME Counting, StopInv, CountsInv', NEW t \in Threads, AttachStep(t)
  PROVE  StopInv'
  <1>1. CASE Register(t)
    BY <1>1, RegisterKeepsStop
  <1>2. CASE CallUnregister(t) \/ Unregister(t)
    <2>1. /\ TypeInv /\ CheckpointOnlyWhenRunnable /\ MutatorInv /\ CountsInv /\ BarrierInv
          /\ StateAt(t) /\ LockAt(t) /\ OpAt(t) /\ CurAt(t)
      BY DEF StopInv, CountsInv, ControlInv, LocalInv
    <2>2. Frame(t)
      BY <2>1, AttachKeepsControl DEF ControlStep
    <2> QED
      BY <1>2, <2>1, <2>2, UnregisterStops, SameBarriersKept, StopKept
  <1> QED
    BY <1>1, <1>2, Zenon DEF AttachStep

-----------------------------------------------------------------------------
(* Theorems                                                                *)

\* At the start nobody waits.
LEMMA InitStop ==
  ASSUME Counting, Init
  PROVE  StopInv
  <1>1. CountsInv
    BY InitCounts
  <1>2. /\ pending = [c \in Threads |-> 0] /\ flags = [c \in Threads |-> {}]
        /\ barriers = [c \in Threads |-> {}] /\ passing = [c \in Threads |-> {}]
        /\ op = [c \in Threads |-> "none"] /\ cont = [c \in Threads |-> "native"]
        /\ \A c \in Threads : pc[c] \in {"native", "detached"}
    BY DEF Init
  <1>3. Cardinality({}) = 0
    BY DEF Counting
  <1>4. ASSUME NEW c \in Threads
        PROVE  BarrierAt(c) /\ PendingAt(c) /\ StoppedAt(c)
    <2>1. ~Waits(c) /\ Unasked(c) = {} /\ Installed(c) = {} /\ Claimed(c) = {}
      BY <1>2 DEF Waits, Unasked, Installed, Claimed, InLoop
    <2>2. BarrierAt(c)
      BY <1>2 DEF BarrierAt
    <2>3. PendingAt(c)
      <3>1. 0 = 0 + 0 + 0
        BY SMT
      <3> QED
        BY <1>2, <1>3, <2>1, <3>1 DEF PendingAt
    <2>4. StoppedAt(c)
      BY <1>2 DEF StoppedAt, InLoop, HasAll, HasTodo
    <2> QED
      BY <2>2, <2>3, <2>4
  <1> QED
    BY <1>1, <1>2, <1>4 DEF StopInv, BarrierInv

\* Every step keeps the counts and the barriers exact, and stopped threads stopped.
LEMMA NextStop ==
  ASSUME Counting, StopInv, [Next]_vars
  PROVE  StopInv'
  <1>1. CountsInv /\ BarrierInv /\ ControlInv /\ ControlInv'
    BY NextControl DEF StopInv, CountsInv
  <1>2. CASE UNCHANGED vars
    <2>1. UNCHANGED <<state, flags, suspendCount, list, suspendAllCount, barriers, passing, pending,
                      op, cur, todo, raised, pc, cont>>
      BY <1>2 DEF vars, threadVars, listVars, opVars
    <2>2. CountInv' /\ AllInv'
      BY <1>1, <2>1, CountsSame, Zenon DEF CountsInv, SameCounts, AllInv, SuspendingAll
    <2>3. ASSUME NEW c \in Threads PROVE RaisedAt(c)'
      <3>1. RaisedAt(c)
        BY <1>1 DEF CountsInv
      <3> QED
        BY <2>1, <3>1, RaisedSame, Zenon
    <2>4. CountsInv'
      BY <1>1, <2>2, <2>3, Zenon DEF CountsInv
    <2>5. \A c \in Threads : (Waits(c)' <=> Waits(c)) /\ Unasked(c)' = Unasked(c)
      BY <2>1, Zenon DEF Waits, Unasked, InLoop
    <2>6. BarrierInv'
      <3>1. ASSUME NEW c \in Threads PROVE BarrierAt(c)'
        BY <1>1, <2>1, <2>5, BarrierType, BarrierSame, Zenon DEF BarrierInv
      <3>2. ASSUME NEW c \in Threads PROVE PendingAt(c)'
        <4>1. Installed(c)' = Installed(c) /\ Claimed(c)' = Claimed(c)
          BY <2>1, Zenon DEF Installed, Claimed
        <4> QED
          BY <1>1, <2>1, <2>5, <4>1, PendingSame, Zenon DEF BarrierInv
      <3> QED
        BY <1>1, <2>1, <3>1, <3>2, Zenon DEF BarrierInv
    <2>7. \A c \in Threads : StoppedAt(c)'
      BY <2>1, Zenon DEF StopInv, StoppedAt, InLoop, HasAll, HasTodo
    <2> QED
      BY <2>4, <2>6, <2>7 DEF StopInv
  <1>3. CASE Next
    <2>1. PICK t \in Threads : ThreadStep(t) \/ AttachStep(t)
      BY <1>3, StepOfThread DEF ThreadStep
    <2>2. CASE ThreadStep(t)
      <3>1. Frame(t) /\ OperationStep(t) /\ BarrierStep(t)
        BY <2>2, StepEffect
      <3>2. /\ RaisedFrame(t) /\ AllStep(t) /\ CountStep(t) /\ StopsStay(t)
            /\ RaisedAt(t)' /\ StoppedAt(t)'
        BY <3>1 DEF OperationStep
      <3>3. CountsInv'
        BY <1>1, <3>1, <3>2, CountsKept
      <3>4. BarrierInv'
        BY <1>1, <3>1, <3>2, BarriersKept DEF StopInv
      <3>5. \A c \in Threads \ {t} : raised'[c] = raised[c]
        BY <1>1, <3>2 DEF RaisedFrame, ControlInv, TypeInv, OpType
      <3> QED
        BY <3>1, <3>2, <3>3, <3>4, <3>5, StopKept
    <2>3. CASE AttachStep(t)
      BY <1>1, <2>3, AttachKeepsCounts, AttachKeepsStop, Zenon
    <2> QED
      BY <2>1, <2>2, <2>3
  <1> QED
    BY <1>2, <1>3

\* A thread with a raised count that has stopped is suspended.
LEMMA RaisedSuspended ==
  ASSUME Counting, CountsInv, NEW c \in Threads, NEW t \in raised[c], t \in Threads,
         state[t] # "Runnable"
  PROVE  IsSuspended(t)
  BY RaisersNone DEF CountsInv, IsSuspended

-----------------------------------------------------------------------------
(* Resumption                                                              *)

\* Where an operation that has lowered counts has still to broadcast.
Broadcasting == {"rcOthers", "rcLower", "stBroadcast", "scBroadcast"}

\* A thread that waits on resume_cond_ is in the wait loop, and is notified.
ResumeInv == (\A t \in resumeWaiters : pc[t] = "resumeWait") /\ ResumeNotLost

\* A step that leaves the waiters and the suspend counts alone, of a thread that is
\* neither a waiter nor about to broadcast.
LeavesWaiters(t) ==
  /\ UNCHANGED <<resumeWaiters, suspendCount>>
  /\ pc[t] \notin Broadcasting \cup {"resumeWait"}

\* Every other step notifies all waiters, is about to, or lets no waiter's count fall
\* to zero.
ResumeStep(t) ==
  \/ resumeWaiters' = {}
  \/ WaitForResume(t) \/ SuspendTimeout(t)
  \/ /\ resumeWaiters' \subseteq resumeWaiters
     /\ pc[t] = "resumeWait" => t \notin resumeWaiters'
     /\ \/ pc'[t] \in Broadcasting
        \/ /\ pc[t] \notin Broadcasting
           /\ \A u \in resumeWaiters : suspendCount'[u] = 0 => suspendCount[u] = 0

\* Raising a count does not make one zero.
LEMMA RaiseIsPositive ==
  ASSUME suspendCount \in [Threads -> Nat], NEW c \in Threads, NEW u \in Threads,
         NEW b \in BOOLEAN, Raise(c, u, b)
  PROVE  \A v \in Threads : suspendCount'[v] = 0 => suspendCount[v] = 0
  BY SMTT(60) DEF Raise

\* A thread's own transitions, and the requests of others that it does not wait for.
LEMMA QuietSteps ==
  ASSUME TypeInv, NEW t \in Threads,
         \/ LeaveRunnable(t) \/ EnterRunnable(t) \/ FullSuspendCheck(t)
         \/ RunCheckpointFunction(t) \/ TransitionToSuspended(t) \/ PassLoopExit(t)
         \/ ClaimBarriers(t) \/ PassBarrier(t) \/ BecomeRunnable(t) \/ RunFlipFunction(t)
         \/ SuspendAllStep(t) /\ ~SuspendAllRaise(t) /\ ~SuspendAllRaiseAgain(t) /\ ~ResumeAll(t)
         \/ FlipStep(t) /\ ~FlipResume(t) /\ ~FlipLower(t)
         \/ CallUnregister(t) \/ Unregister(t)
  PROVE  LeavesWaiters(t)
  <1> USE DEF LeavesWaiters, Broadcasting, threadVars
  <1>1. CASE LeaveRunnable(t) \/ EnterRunnable(t) \/ FullSuspendCheck(t) \/ RunCheckpointFunction(t)
    BY <1>1 DEF LeaveRunnable, EnterRunnable, FullSuspendCheck, RunCheckpointFunction
  <1>2. CASE TransitionToSuspended(t) \/ PassLoopExit(t) \/ ClaimBarriers(t) \/ PassBarrier(t)
    BY <1>2 DEF TransitionToSuspended, PassLoopExit, ClaimBarriers, PassBarrier
  <1>3. CASE BecomeRunnable(t) \/ RunFlipFunction(t) \/ CallUnregister(t) \/ Unregister(t)
    BY <1>3 DEF BecomeRunnable, RunFlipFunction, CallUnregister, Unregister
  <1>4. CASE SuspendAllStep(t) /\ ~SuspendAllRaise(t) /\ ~SuspendAllRaiseAgain(t) /\ ~ResumeAll(t)
    <2>1. CASE CallSuspendAll(t) \/ SuspendAllBegin(t) \/ SuspendAllRetry(t) \/ SuspendAllCheck(t)
      BY <2>1 DEF CallSuspendAll, SuspendAllBegin, SuspendAllRetry, SuspendAllCheck
    <2>2. CASE SuspendAllUnlock(t) \/ SuspendAllWait(t) \/ SuspendAllExclusive(t)
               \/ ResumeAllUnlock(t)
      BY <2>2 DEF SuspendAllUnlock, SuspendAllWait, SuspendAllExclusive,
         ResumeAllUnlock
    <2> QED
      BY <1>4, <2>1, <2>2 DEF SuspendAllStep
  <1>5. CASE FlipStep(t) /\ ~FlipResume(t) /\ ~FlipLower(t)
    <2>1. CASE IncrementDisableThreadFlip(t) \/ JniCriticalWait(t) \/ JniCriticalEnter(t)
               \/ DecrementDisableThreadFlip(t)
      BY <2>1 DEF IncrementDisableThreadFlip, JniCriticalWait, JniCriticalEnter,
         DecrementDisableThreadFlip
    <2>2. CASE CallFlipThreadRoots(t) \/ ThreadFlipBeginWait(t) \/ ThreadFlipBegin(t)
               \/ FlipCallback(t)
      BY <2>2 DEF CallFlipThreadRoots, ThreadFlipBeginWait, ThreadFlipBegin,
         FlipCallback
    <2>3. CASE ThreadFlipEnd(t) \/ FlipSharedLock(t) \/ FlipOther(t) \/ FlipSelf(t) \/ FlipDone(t)
      BY <2>3 DEF ThreadFlipEnd, FlipSharedLock, FlipOther, FlipSelf, FlipDone
    <2> QED
      BY <1>5, <2>1, <2>2, <2>3 DEF FlipStep
  <1> QED
    BY <1>1, <1>2, <1>3, <1>4, <1>5

\* The steps of the requests that lower no count.
LEMMA QuietRequests ==
  ASSUME TypeInv, NEW t \in Threads,
         \/ CallRunCheckpoint(t) \/ RunCheckpointBegin(t) \/ RequestCheckpoint(t)
         \/ RequestCheckpointFails(t) \/ KeepSuspendedRetry(t) \/ RunCheckpointOnSelf(t)
         \/ RunCheckpointDone(t)
         \/ CallSuspendThread(t) \/ NoSuchThread(t) \/ BackOff(t) \/ RequestSuspendRetry(t)
         \/ SuspendThreadAgain(t) \/ CheckSuspended(t)
         \/ CallSynchronousCheckpoint(t) \/ SynchronousReturn(t) \/ SynchronousRequest(t)
         \/ SynchronousDone(t) \/ SynchronousRequestFails(t) \/ SynchronousSuspended(t)
  PROVE  LeavesWaiters(t)
  <1> USE DEF LeavesWaiters, Broadcasting, threadVars
  <1>1. CASE CallRunCheckpoint(t) \/ RunCheckpointBegin(t) \/ RequestCheckpoint(t)
             \/ RequestCheckpointFails(t)
    BY <1>1 DEF CallRunCheckpoint, RunCheckpointBegin, RequestCheckpoint,
       RequestCheckpointFails
  <1>2. CASE KeepSuspendedRetry(t) \/ RunCheckpointOnSelf(t) \/ RunCheckpointDone(t)
    BY <1>2 DEF KeepSuspendedRetry, RunCheckpointOnSelf, RunCheckpointDone
  <1>3. CASE CallSuspendThread(t) \/ NoSuchThread(t) \/ BackOff(t)
    BY <1>3 DEF CallSuspendThread, NoSuchThread, BackOff
  <1>4. CASE RequestSuspendRetry(t) \/ SuspendThreadAgain(t) \/ CheckSuspended(t)
    BY <1>4 DEF RequestSuspendRetry, SuspendThreadAgain, CheckSuspended
  <1>5. CASE CallSynchronousCheckpoint(t) \/ SynchronousReturn(t) \/ SynchronousRequest(t)
    BY <1>5 DEF CallSynchronousCheckpoint, SynchronousReturn, SynchronousRequest
  <1>6. CASE SynchronousDone(t) \/ SynchronousRequestFails(t) \/ SynchronousSuspended(t)
    BY <1>6 DEF SynchronousDone, SynchronousRequestFails, SynchronousSuspended
  <1> QED
    BY <1>1, <1>2, <1>3, <1>4, <1>5, <1>6

\* What every step does to the waiters.
LEMMA ResumeEffect ==
  ASSUME TypeInv, suspendCount \in [Threads -> Nat], ResumeInv, NEW t \in Threads, CurAt(t),
         OpAt(t), ThreadStep(t) \/ AttachStep(t)
  PROVE  ResumeStep(t)
  <1> /\ pc \in [Threads -> Labels] /\ resumeWaiters \subseteq Threads
      /\ cur \in [Threads -> Threads \cup {NoThread}]
    BY DEF TypeInv, ThreadType, OpType
  <1>1. CASE LeavesWaiters(t)
    BY <1>1 DEF LeavesWaiters, ResumeStep
  <1>2. CASE ResumeAll(t) \/ FlipResume(t) \/ FlipLower(t) \/ RunCheckpointBroadcast(t)
             \/ ResumeBroadcast(t) \/ SynchronousBroadcast(t)
    BY <1>2 DEF ResumeAll, FlipResume, FlipLower, RunCheckpointBroadcast,
       ResumeBroadcast, SynchronousBroadcast, ResumeStep
  <1>3. CASE SpuriousResume(t) \/ ResumeWaitExit(t)
    BY <1>3 DEF SpuriousResume, ResumeWaitExit, ResumeStep, ResumeInv, Broadcasting,
       threadVars
  <1>4. CASE RunCheckpointOnOther(t) \/ RunCheckpointLower(t) \/ Resume(t) \/ SynchronousRun(t)
    <2>1. resumeWaiters' = resumeWaiters /\ pc[t] # "resumeWait" /\ pc'[t] \in Broadcasting
      BY <1>4 DEF RunCheckpointOnOther, RunCheckpointLower, Resume, SynchronousRun,
         Goto, Broadcasting, threadVars
    <2> QED
      BY <2>1 DEF ResumeStep
  <1>5. ASSUME NEW u \in Threads, NEW b \in BOOLEAN, Raise(t, u, b), resumeWaiters' = resumeWaiters,
               pc[t] \notin Broadcasting \cup {"resumeWait"}
        PROVE  ResumeStep(t)
    BY <1>5, RaiseIsPositive DEF ResumeStep
  <1>6. CASE SuspendAllRaise(t)
    <2>1. PICK u \in todo[t] : Raise(t, u, TRUE)
      BY <1>6 DEF SuspendAllRaise
    <2> QED
      BY <1>5, <1>6, <2>1 DEF SuspendAllRaise, Broadcasting, TypeInv, OpType
  <1>7. CASE SuspendAllRaiseAgain(t) \/ KeepSuspended(t) \/ RequestSuspend(t) \/ SynchronousRaise(t)
    <2>1. /\ \E b \in BOOLEAN : Raise(t, cur[t], b)
          /\ resumeWaiters' = resumeWaiters
          /\ pc[t] \in {"saRetry", "rcRaise", "rcRetry", "stLock", "stRetry", "scRaise"}
      BY <1>7 DEF SuspendAllRaiseAgain, KeepSuspended, RequestSuspend,
         SynchronousRaise
    <2>2. cur[t] \in Threads
      BY <2>1 DEF CurAt, OpAt
    <2> QED
      BY <1>5, <2>1, <2>2 DEF Broadcasting
  <1>8. CASE Register(t)
    <2>1. /\ resumeWaiters' = resumeWaiters /\ pc[t] = "detached"
          /\ \A u \in Threads \ {t} : suspendCount'[u] = suspendCount[u]
      BY <1>8 DEF Register
    <2> QED
      BY <2>1 DEF ResumeStep, ResumeInv, Broadcasting
  <1>9. CASE WaitForResume(t) \/ SuspendTimeout(t)
    BY <1>9 DEF ResumeStep
  <1>10. CASE TransitionStep(t)
    BY <1>1, <1>3, <1>9, <1>10, QuietSteps DEF TransitionStep
  <1>11. CASE SuspendAllStep(t)
    BY <1>1, <1>2, <1>6, <1>7, <1>11, QuietSteps
  <1>12. CASE FlipStep(t)
    BY <1>1, <1>2, <1>12, QuietSteps
  <1>13. CASE RunCheckpointStep(t)
    BY <1>1, <1>2, <1>4, <1>7, <1>13, QuietRequests DEF RunCheckpointStep
  <1>14. CASE SuspendThreadStep(t)
    BY <1>1, <1>2, <1>4, <1>7, <1>9, <1>14, QuietRequests DEF SuspendThreadStep
  <1>15. CASE SynchronousStep(t)
    BY <1>1, <1>2, <1>4, <1>7, <1>15, QuietRequests DEF SynchronousStep
  <1>16. CASE AttachStep(t)
    BY <1>1, <1>8, <1>16, QuietSteps DEF AttachStep
  <1> QED
    BY <1>10, <1>11, <1>12, <1>13, <1>14, <1>15, <1>16 DEF ThreadStep

\* So every step keeps the waiters notified.
LEMMA ResumeKept ==
  ASSUME Counting, StopInv, ResumeInv, NEW t \in Threads, ThreadStep(t) \/ AttachStep(t)
  PROVE  ResumeInv'
  <1>1. /\ TypeInv /\ StateAt(t) /\ CurAt(t) /\ RaisedAt(t) /\ LockAt(t) /\ OpAt(t) /\ CountsInv
        /\ CheckpointOnlyWhenRunnable /\ MutatorInv /\ \A u \in Threads : StateAt(u)
    BY DEF StopInv, CountsInv, ControlInv, LocalInv
  <1>2. /\ suspendCount \in [Threads -> Nat]
        /\ \A u \in Threads : "SuspendRequest" \in flags[u] => suspendCount[u] # 0
    BY <1>1, SMTT(60) DEF CountsInv, CountInv
  <1>3. ResumeStep(t)
    BY <1>1, <1>2, ResumeEffect
  <1>4. pc \in [Threads -> Labels] /\ resumeWaiters \subseteq Threads
    BY <1>1 DEF TypeInv, ThreadType, OpType
  <1>5. \A u \in Threads \ {t} : pc'[u] = pc[u]
    <2>1. ControlStep(t)
      BY <1>1, TransitionKeepsControl, SuspendAllKeepsControl, FlipKeepsControl,
         RunCheckpointKeepsControl, SuspendThreadKeepsControl, SynchronousKeepsControl,
         AttachKeepsControl, Zenon DEF ThreadStep
    <2> QED
      BY <1>4, <2>1 DEF ControlStep, Frame
  <1>6. CASE resumeWaiters' = {}
    BY <1>6 DEF ResumeInv, ResumeNotLost
  <1>7. CASE WaitForResume(t)
    <2>1. /\ resumeWaiters' = resumeWaiters \cup {t} /\ pc'[t] = "resumeWait"
          /\ suspendCount' = suspendCount /\ pc[t] \notin Broadcasting
          /\ suspendCount[t] # 0
      BY <1>2, <1>4, <1>7 DEF WaitForResume, Goto, Broadcasting
    <2> QED
      BY <1>4, <1>5, <2>1 DEF ResumeInv, ResumeNotLost, Broadcasting
  <1>8. CASE SuspendTimeout(t)
    <2>1. /\ resumeWaiters' = resumeWaiters /\ pc[t] = "stCheck" /\ cur[t] \in Threads
          /\ ~IsSuspended(cur[t])
      BY <1>1, <1>8 DEF SuspendTimeout, CurAt, OpAt
    <2>2. cur[t] \in raised[t]
      BY <1>1, <2>1 DEF RaisedAt
    <2>3. \A u \in Threads : u # cur[t] => suspendCount'[u] = suspendCount[u]
      BY <1>2, <1>8 DEF SuspendTimeout, Lower
    <2>4. state[cur[t]] = "Runnable"
      BY <1>1, <2>1, <2>2, RaisedSuspended
    <2>5. pc[cur[t]] # "resumeWait"
      BY <1>1, <2>1, <2>4 DEF StateAt, RunnableLabels, CheckpointLabels
    <2> QED
      BY <1>4, <1>5, <2>1, <2>3, <2>5 DEF ResumeInv, ResumeNotLost
  <1>9. CASE /\ resumeWaiters' \subseteq resumeWaiters
             /\ pc[t] = "resumeWait" => t \notin resumeWaiters'
             /\ \/ pc'[t] \in Broadcasting
                \/ /\ pc[t] \notin Broadcasting
                   /\ \A u \in resumeWaiters : suspendCount'[u] = 0 => suspendCount[u] = 0
    <2>1. \A u \in resumeWaiters' : pc'[u] = "resumeWait"
      BY <1>4, <1>5, <1>9 DEF ResumeInv
    <2>2. ResumeNotLost'
      BY <1>4, <1>5, <1>9 DEF ResumeInv, ResumeNotLost, Broadcasting
    <2> QED
      BY <2>1, <2>2 DEF ResumeInv
  <1> QED
    BY <1>3, <1>6, <1>7, <1>8, <1>9 DEF ResumeStep

-----------------------------------------------------------------------------
(* JNI critical sections                                                   *)

Critical == {t \in Threads : disableFlip[t] > 0 /\ ~EnteringCritical(t)}

\* A flip between its call and ThreadFlipEnd, and one that ThreadFlipBegin has let in.
FlipBegun(c) ==
  /\ op[c] = "FlipThreadRoots"
  /\ pc[c] \in SuspendAllLabels \cup {"flipBegin", "flipResume", "flipEnd"}
FlipPauses(c) ==
  /\ op[c] = "FlipThreadRoots"
  /\ pc[c] \in SuspendAllLabels \cup {"flipResume", "flipEnd"}

OneFlip == \A c, d \in Threads : op[c] = "FlipThreadRoots" /\ op[d] = "FlipThreadRoots" => c = d

\* thread_flip_running_ is set for all of a flip that critical sections must keep out of.
CriticalInv ==
  /\ disableFlip \in [Threads -> Nat] /\ disableFlipCount = Cardinality(Critical)
  /\ \A t \in Threads : EnteringCritical(t) => disableFlip[t] = 1
  /\ OneFlip
  /\ \A c \in Threads : FlipBegun(c) => flipRunning
  /\ \A c \in Threads : FlipPauses(c) => Critical = {}

\* A step that neither enters nor leaves a critical section, nor lets a flip in.
SameCritical(t) ==
  /\ UNCHANGED <<disableFlip, disableFlipCount, flipRunning>>
  /\ EnteringCritical(t)' <=> EnteringCritical(t)
  /\ op'[t] = "FlipThreadRoots" => op[t] = "FlipThreadRoots"
  /\ FlipBegun(t)' => FlipBegun(t)
  /\ FlipPauses(t)' => FlipPauses(t)

CriticalStep(t) ==
  \/ SameCritical(t)
  \/ IncrementDisableThreadFlip(t) \/ JniCriticalEnter(t) \/ DecrementDisableThreadFlip(t)
  \/ CallFlipThreadRoots(t) \/ ThreadFlipBegin(t) \/ ThreadFlipEnd(t)

\* What every step does to the critical sections.
LEMMA CriticalEffect ==
  ASSUME TypeInv, NEW t \in Threads, OpAt(t), ThreadStep(t) \/ AttachStep(t)
  PROVE  CriticalStep(t)
  <1>1. /\ pc \in [Threads -> Labels] /\ cont \in [Threads -> ContLabels]
        /\ op \in [Threads -> OpNames \cup {"none"}]
        /\ pc[t] \notin LeavingLabels => cont[t] = "native"
    BY DEF TypeInv, OpType, OpAt
  <1> USE DEF flipVars
  <1> HIDE DEF EnteringCritical, FlipBegun, FlipPauses
  \* A step that stays out of the labels a flip or an entering thread passes.
  <1>2. ASSUME UNCHANGED <<disableFlip, disableFlipCount, flipRunning>>,
               pc[t] # "jniWait", pc'[t] # "jniWait", cont[t] # "jniWait", cont'[t] # "jniWait",
               op'[t] # "FlipThreadRoots"
        PROVE  CriticalStep(t)
    BY <1>2 DEF CriticalStep, SameCritical, EnteringCritical, FlipBegun, FlipPauses
  \* A step on the way to a suspended state and back.
  <1>3. ASSUME UNCHANGED <<disableFlip, disableFlipCount, flipRunning, op>>,
               EnteringCritical(t)' <=> EnteringCritical(t),
               pc'[t] \notin SuspendAllLabels \cup {"flipBegin", "flipResume", "flipEnd"}
        PROVE  CriticalStep(t)
    BY <1>3 DEF CriticalStep, SameCritical, FlipBegun, FlipPauses
  \* A step inside a flip or a SuspendAll.
  <1>4. ASSUME UNCHANGED <<disableFlip, disableFlipCount, flipRunning, op, cont>>,
               pc[t] \in SuspendAllLabels \cup {"flipResume", "flipEnd"} \/ pc'[t] = pc[t],
               pc[t] \notin LeavingLabels \cup {"jniWait"}, pc'[t] # "jniWait"
        PROVE  CriticalStep(t)
    BY <1>1, <1>4 DEF CriticalStep, SameCritical, EnteringCritical, FlipBegun, FlipPauses
  \* A step that changes none of what CriticalInv looks at.
  <1>5. ASSUME UNCHANGED <<disableFlip, disableFlipCount, flipRunning, op, pc, cont>>
        PROVE  CriticalStep(t)
    BY <1>5 DEF CriticalStep, SameCritical, EnteringCritical, FlipBegun, FlipPauses
  <1>6. CASE TransitionStep(t)
    <2>1. CASE LeaveRunnable(t) \/ FullSuspendCheck(t) \/ EnterRunnable(t)
      <3>1. /\ UNCHANGED <<disableFlip, disableFlipCount, flipRunning, op>>
            /\ pc[t] \in {"running", "native"} /\ pc'[t] \in {"toSuspended", "toRunnable"}
            /\ cont'[t] \in {cont[t], "native", "toRunnable"}
        BY <1>1, <2>1 DEF LeaveRunnable, FullSuspendCheck, EnterRunnable, Goto, opVars
      <3>2. op[t] = "none" /\ cont[t] = "native"
        BY <1>1, <3>1 DEF OpAt, LeavingLabels
      <3> QED
        BY <1>2, <3>1, <3>2
    <2>2. CASE SpuriousResume(t) \/ RunCheckpointFunction(t)
      BY <1>5, <2>2 DEF SpuriousResume, RunCheckpointFunction, opVars
    <2>3. CASE PassLoopExit(t)
      <3>1. /\ UNCHANGED <<disableFlip, disableFlipCount, flipRunning, op>>
            /\ pc[t] = "passLoop" /\ pc'[t] = cont[t] /\ cont'[t] = "native"
        BY <1>1, <2>3 DEF PassLoopExit, Goto, opVars
      <3>2. cont[t] \in ContLabels
        BY <1>1
      <3> QED
        BY <1>3, <3>1, <3>2 DEF EnteringCritical, ContLabels, SuspendAllLabels
    <2>4. CASE \/ TransitionToSuspended(t) \/ ClaimBarriers(t) \/ PassBarrier(t)
               \/ BecomeRunnable(t) \/ RunFlipFunction(t) \/ WaitForResume(t) \/ ResumeWaitExit(t)
      <3>1. /\ UNCHANGED <<disableFlip, disableFlipCount, flipRunning, op, cont>>
            /\ pc[t] \in {"toSuspended", "passLoop", "passSuspended"} \cup ResumingLabels
            /\ pc'[t] \in {"passLoop", "passSuspended", "running", "stLock", "scRun"}
                           \cup ResumingLabels
        <4>1. CASE TransitionToSuspended(t) \/ ClaimBarriers(t) \/ PassBarrier(t)
          BY <1>1, <4>1 DEF TransitionToSuspended, ClaimBarriers, PassBarrier, Goto,
             opVars, ResumingLabels
        <4>2. CASE BecomeRunnable(t) \/ WaitForResume(t) \/ ResumeWaitExit(t)
          BY <1>1, <4>2 DEF BecomeRunnable, WaitForResume, ResumeWaitExit, Goto,
             opVars, ResumingLabels
        <4>3. CASE RunFlipFunction(t)
          <5>1. RunnableLabel(t) \in {"running", "stLock", "scRun"}
            BY DEF RunnableLabel
          <5> QED
            BY <1>1, <4>3, <5>1 DEF RunFlipFunction, Goto, ResumingLabels
        <4> QED
          BY <2>4, <4>1, <4>2, <4>3
      <3> QED
        BY <1>3, <3>1 DEF EnteringCritical, ResumingLabels, SuspendAllLabels
    <2> QED
      BY <1>6, <2>1, <2>2, <2>3, <2>4 DEF TransitionStep, CriticalStep
  <1>7. CASE SuspendAllStep(t)
    <2>1. CASE CallSuspendAll(t) \/ ResumeAll(t)
      BY <1>1, <1>2, <2>1 DEF CallSuspendAll, ResumeAll, Goto, LeavingLabels
    <2>2. CASE ~CallSuspendAll(t) /\ ~ResumeAll(t)
      <3>1. /\ UNCHANGED <<disableFlip, disableFlipCount, flipRunning, op, cont>>
            /\ pc[t] \in SuspendAllLabels /\ pc'[t] \in SuspendAllLabels \cup {"raLock"}
        <4>1. CASE SuspendAllBegin(t) \/ SuspendAllRaise(t) \/ SuspendAllRetry(t)
          BY <1>1, <4>1 DEF SuspendAllBegin, SuspendAllRaise, SuspendAllRetry, Goto,
             SuspendAllLabels
        <4>2. CASE SuspendAllRaiseAgain(t) \/ SuspendAllCheck(t) \/ SuspendAllUnlock(t)
          BY <1>1, <4>2 DEF SuspendAllRaiseAgain, SuspendAllCheck, SuspendAllUnlock,
             Goto, SuspendAllLabels, opVars
        <4>3. CASE SuspendAllWait(t) \/ SuspendAllExclusive(t) \/ ResumeAllUnlock(t)
          BY <1>1, <4>3 DEF SuspendAllWait, SuspendAllExclusive, ResumeAllUnlock, Goto,
             SuspendAllLabels, opVars
        <4> QED
          BY <1>7, <2>2, <4>1, <4>2, <4>3 DEF SuspendAllStep
      <3> QED
        BY <1>4, <3>1 DEF SuspendAllLabels, LeavingLabels
    <2> QED
      BY <2>1, <2>2 DEF CriticalStep
  <1>8. CASE FlipStep(t)
    <2>1. CASE JniCriticalWait(t) \/ ThreadFlipBeginWait(t) \/ FlipOther(t)
      BY <1>5, <2>1 DEF JniCriticalWait, ThreadFlipBeginWait, FlipOther, opVars
    <2>2. CASE FlipCallback(t) \/ FlipResume(t)
      <3>1. /\ UNCHANGED <<disableFlip, disableFlipCount, flipRunning, op, cont>>
            /\ pc[t] \in {"saHeld", "flipResume"} /\ pc'[t] \in {"flipResume", "flipEnd"}
        BY <1>1, <2>2 DEF FlipCallback, FlipResume, Goto, opVars
      <3> QED
        BY <1>4, <3>1 DEF SuspendAllLabels, LeavingLabels
    <2>3. CASE FlipSharedLock(t) \/ FlipSelf(t) \/ FlipLower(t)
      <3>1. /\ UNCHANGED <<disableFlip, disableFlipCount, flipRunning, op, cont>>
            /\ pc[t] # "jniWait" /\ pc'[t] \in {"flipOthers", "flipLower", "flipWait"}
        BY <1>1, <2>3 DEF FlipSharedLock, FlipSelf, FlipLower, Goto, opVars
      <3> QED
        BY <1>3, <3>1 DEF EnteringCritical, SuspendAllLabels
    <2>4. CASE FlipDone(t)
      BY <1>1, <1>2, <2>4 DEF FlipDone, Goto, LeavingLabels
    <2> QED
      BY <1>8, <2>1, <2>2, <2>3, <2>4 DEF FlipStep, CriticalStep
  <1>9. ASSUME UNCHANGED <<disableFlip, disableFlipCount, flipRunning>>,
               pc[t] \notin LeavingLabels \cup {"jniWait"}, pc'[t] # "jniWait",
               cont'[t] \in {cont[t], "native", "toRunnable", "rcWait", "stHave", "scWait", "scSpin"},
               \/ op'[t] \in {"none", "Detach", "RunCheckpoint", "SuspendThreadByThreadId",
                              "RequestSynchronousCheckpoint"}
               \/ op'[t] = op[t] /\ op[t] # "FlipThreadRoots"
        PROVE  CriticalStep(t)
    BY <1>1, <1>2, <1>9 DEF CriticalStep
  <1>10. CASE RunCheckpointStep(t)
    <2>1. CASE CallRunCheckpoint(t) \/ RunCheckpointDone(t)
      BY <1>1, <1>9, <2>1 DEF CallRunCheckpoint, RunCheckpointDone, Goto, LeavingLabels
    <2>2. CASE ~CallRunCheckpoint(t) /\ ~RunCheckpointDone(t)
      <3>1. /\ UNCHANGED <<disableFlip, disableFlipCount, flipRunning, op>>
            /\ pc[t] \in CheckpointLabels
            /\ pc'[t] \in CheckpointLabels \cup {"rcWait", "toSuspended"}
            /\ cont'[t] \in {cont[t], "rcWait"}
        <4>1. CASE RunCheckpointBegin(t) \/ RequestCheckpoint(t) \/ RequestCheckpointFails(t)
          BY <1>1, <4>1 DEF RunCheckpointBegin, RequestCheckpoint,
             RequestCheckpointFails, Goto, CheckpointLabels
        <4>2. CASE KeepSuspended(t) \/ KeepSuspendedRetry(t) \/ RunCheckpointOnSelf(t)
          BY <1>1, <4>2 DEF KeepSuspended, KeepSuspendedRetry, RunCheckpointOnSelf,
             Goto, CheckpointLabels, opVars
        <4>3. CASE RunCheckpointOnOther(t) \/ RunCheckpointLower(t) \/ RunCheckpointBroadcast(t)
          BY <1>1, <4>3 DEF RunCheckpointOnOther, RunCheckpointLower,
             RunCheckpointBroadcast, Goto, CheckpointLabels, opVars
        <4> QED
          BY <1>10, <2>2, <4>1, <4>2, <4>3 DEF RunCheckpointStep
      <3>2. op[t] = "RunCheckpoint"
        BY <3>1 DEF OpAt
      <3> QED
        BY <1>9, <3>1, <3>2 DEF CheckpointLabels, LeavingLabels
    <2> QED
      BY <2>1, <2>2
  <1>11. CASE SuspendThreadStep(t)
    <2>1. CASE CallSuspendThread(t) \/ SuspendTimeout(t) \/ NoSuchThread(t) \/ ResumeBroadcast(t)
      BY <1>1, <1>9, <2>1 DEF CallSuspendThread, SuspendTimeout, NoSuchThread,
         ResumeBroadcast, Goto, LeavingLabels
    <2>2. CASE BackOff(t) \/ RequestSuspend(t) \/ RequestSuspendRetry(t) \/ SuspendThreadAgain(t)
               \/ CheckSuspended(t) \/ Resume(t)
      <3>1. /\ UNCHANGED <<disableFlip, disableFlipCount, flipRunning, op>>
            /\ pc[t] \in {"stLock", "stRetry", "stCheck", "stHave"}
            /\ pc'[t] \in {"stRetry", "stCheck", "stBroadcast", "toSuspended"}
            /\ cont'[t] \in {cont[t], "stHave", "toRunnable"}
        <4>1. CASE BackOff(t) \/ RequestSuspend(t) \/ RequestSuspendRetry(t)
          BY <1>1, <4>1 DEF BackOff, RequestSuspend, RequestSuspendRetry, Goto, opVars
        <4>2. CASE SuspendThreadAgain(t) \/ CheckSuspended(t) \/ Resume(t)
          BY <1>1, <4>2 DEF SuspendThreadAgain, CheckSuspended, Resume, Goto, opVars
        <4> QED
          BY <2>2, <4>1, <4>2
      <3>2. op[t] = "SuspendThreadByThreadId"
        BY <3>1 DEF OpAt
      <3> QED
        BY <1>9, <3>1, <3>2 DEF LeavingLabels
    <2> QED
      BY <1>11, <2>1, <2>2 DEF SuspendThreadStep
  <1>12. CASE SynchronousStep(t)
    <2>1. CASE CallSynchronousCheckpoint(t) \/ SynchronousReturn(t) \/ SynchronousDone(t)
               \/ SynchronousBroadcast(t)
      BY <1>1, <1>9, <2>1 DEF CallSynchronousCheckpoint, SynchronousReturn,
         SynchronousDone, SynchronousBroadcast, Goto, LeavingLabels
    <2>2. CASE SynchronousRequest(t) \/ SynchronousRequestFails(t) \/ SynchronousRaise(t)
               \/ SynchronousSuspended(t) \/ SynchronousRun(t)
      <3>1. /\ UNCHANGED <<disableFlip, disableFlipCount, flipRunning, op>>
            /\ pc[t] \in SynchronousLabels
            /\ pc'[t] \in SynchronousLabels \cup {"toSuspended", "toRunnable"}
            /\ cont'[t] \in {cont[t], "scWait", "scSpin"}
        <4>1. CASE SynchronousRequest(t) \/ SynchronousRequestFails(t) \/ SynchronousRaise(t)
          BY <1>1, <4>1 DEF SynchronousRequest, SynchronousRequestFails,
             SynchronousRaise, Goto, opVars, SynchronousLabels
        <4>2. CASE SynchronousSuspended(t) \/ SynchronousRun(t)
          BY <1>1, <4>2 DEF SynchronousSuspended, SynchronousRun, Goto, opVars,
             SynchronousLabels
        <4> QED
          BY <2>2, <4>1, <4>2
      <3>2. op[t] = "RequestSynchronousCheckpoint"
        BY <3>1 DEF OpAt
      <3> QED
        BY <1>9, <3>1, <3>2 DEF SynchronousLabels, LeavingLabels
    <2> QED
      BY <1>12, <2>1, <2>2 DEF SynchronousStep
  <1>13. CASE AttachStep(t)
    <2>1. /\ UNCHANGED <<disableFlip, disableFlipCount, flipRunning, cont>>
          /\ pc[t] \in {"detached", "native", "unregister"}
          /\ pc'[t] \in {"detached", "native", "unregister"}
          /\ op'[t] \in {"Detach", "none"} \/ (pc[t] = "detached" /\ op'[t] = op[t])
      <3>1. CASE Register(t)
        BY <1>1, <3>1 DEF Register, Goto
      <3>2. CASE CallUnregister(t)
        BY <1>1, <3>2 DEF CallUnregister, Goto
      <3>3. CASE Unregister(t)
        BY <1>1, <3>3 DEF Unregister, Goto
      <3> QED
        BY <1>13, <3>1, <3>2, <3>3 DEF AttachStep
    <2>2. pc[t] = "detached" => op[t] = "none"
      BY DEF OpAt
    <2> QED
      BY <1>9, <2>1, <2>2 DEF LeavingLabels
  <1> QED
    BY <1>6, <1>7, <1>8, <1>10, <1>11, <1>12, <1>13 DEF ThreadStep

\* A step takes the control of the runtime along.
LEMMA StepControl ==
  ASSUME ControlInv, NEW t \in Threads, ThreadStep(t) \/ AttachStep(t)
  PROVE  ControlStep(t)
  <1>1. /\ TypeInv /\ CheckpointOnlyWhenRunnable /\ MutatorInv
        /\ StateAt(t) /\ LockAt(t) /\ OpAt(t) /\ CurAt(t)
    BY DEF ControlInv, LocalInv
  <1> QED
    BY <1>1, TransitionKeepsControl, SuspendAllKeepsControl, FlipKeepsControl,
       RunCheckpointKeepsControl, SuspendThreadKeepsControl, SynchronousKeepsControl,
       AttachKeepsControl, Zenon DEF ThreadStep

\* Where FlipThreadRoots can be.
LEMMA FlipperLabels ==
  ASSUME NEW c \in Threads, OpAt(c), op[c] = "FlipThreadRoots", pc[c] \in Labels,
         cont[c] \in ContLabels
  PROVE  pc[c] \in SuspendAllLabels \cup FlipLabels
  <1>1. pc[c] \notin LeavingLabels
    BY DEF OpAt, ContLabels
  <1>2. /\ pc[c] \notin {"detached", "native", "running", "jniWait", "unregister", "raLock"}
        /\ pc[c] \notin CheckpointLabels \cup {"rcWait"}
        /\ pc[c] \notin {"stLock", "stRetry", "stCheck", "stHave", "stBroadcast"}
        /\ pc[c] \notin SynchronousLabels /\ pc[c] \notin ResumingLabels
    BY DEF OpAt
  <1> QED
    BY <1>1, <1>2 DEF Labels, LeavingLabels, CheckpointLabels, SynchronousLabels,
       ResumingLabels, SuspendAllLabels, FlipLabels

\* A thread enters the set of those in a critical section, or leaves it, alone.
LEMMA CriticalSet ==
  ASSUME NEW t \in Threads,
         \A u \in Threads \ {t} : disableFlip'[u] = disableFlip[u]
                                  /\ (EnteringCritical(u)' <=> EnteringCritical(u))
  PROVE  /\ t \in Critical' /\ t \in Critical => Critical' = Critical
         /\ t \notin Critical' /\ t \notin Critical => Critical' = Critical
         /\ t \in Critical' /\ t \notin Critical => Critical' = Critical \cup {t}
         /\ t \notin Critical' /\ t \in Critical => Critical' = Critical \ {t}
  BY DEF Critical

\* Every step keeps flips and critical sections apart.
LEMMA CriticalKept ==
  ASSUME Counting, ControlInv, CriticalInv, NEW t \in Threads, ThreadStep(t) \/ AttachStep(t)
  PROVE  CriticalInv'
  <1>1. TypeInv /\ OpAt(t) /\ Frame(t)
    BY StepControl DEF ControlInv, LocalInv, ControlStep
  <1>2. /\ pc \in [Threads -> Labels] /\ cont \in [Threads -> ContLabels]
        /\ op \in [Threads -> OpNames \cup {"none"}] /\ disableFlip \in [Threads -> Nat]
        /\ disableFlipCount = Cardinality(Critical) /\ Critical \in SUBSET Threads
    BY <1>1 DEF TypeInv, OpType, CriticalInv, Critical
  <1>3. \A u \in Threads \ {t} : /\ pc'[u] = pc[u] /\ cont'[u] = cont[u] /\ op'[u] = op[u]
                                 /\ EnteringCritical(u)' <=> EnteringCritical(u)
                                 /\ FlipBegun(u)' <=> FlipBegun(u)
                                 /\ FlipPauses(u)' <=> FlipPauses(u)
    BY <1>1, <1>2 DEF Frame, EnteringCritical, FlipBegun, FlipPauses
  <1>4. pc[t] \notin LeavingLabels => cont[t] = "native"
    BY <1>1 DEF OpAt
  <1>5. ASSUME op'[t] = "FlipThreadRoots" => op[t] = "FlipThreadRoots" PROVE OneFlip'
    BY <1>3, <1>5 DEF CriticalInv, OneFlip
  <1>6. CASE SameCritical(t)
    <2>1. Critical' = Critical
      BY <1>3, <1>6 DEF SameCritical, Critical
    <2>2. OneFlip'
      BY <1>5, <1>6 DEF SameCritical
    <2> QED
      BY <1>3, <1>6, <2>1, <2>2 DEF SameCritical, CriticalInv
  <1>7. CASE IncrementDisableThreadFlip(t)
    <2>1. /\ pc[t] = "running" /\ op' = op
          /\ disableFlip' = [disableFlip EXCEPT ![t] = @ + 1]
          /\ UNCHANGED <<flipRunning, disableFlipCount>>
      BY <1>7 DEF IncrementDisableThreadFlip, opVars
    <2>2. disableFlip[t] \in Nat /\ disableFlip'[t] = disableFlip[t] + 1
      BY <1>2, <2>1
    <2>3. /\ disableFlip[t] > 0 \/ disableFlip[t] = 0
          /\ disableFlip'[t] \in Nat /\ disableFlip'[t] > 0
          /\ disableFlip[t] = 0 => disableFlip'[t] = 1 /\ ~(disableFlip[t] > 0)
      BY <2>2, SMTT(60)
    <2>4. ~EnteringCritical(t)
      BY <1>4, <2>1 DEF EnteringCritical, LeavingLabels
    <2>5. IF disableFlip[t] > 0 THEN pc'[t] = "running" /\ cont'[t] = "native"
                                ELSE pc'[t] = "toSuspended" /\ cont'[t] = "jniWait"
      BY <1>2, <1>4, <1>7, <2>1 DEF IncrementDisableThreadFlip, Goto, LeavingLabels
    <2>6. EnteringCritical(t)' <=> ~(disableFlip[t] > 0)
      BY <2>5 DEF EnteringCritical
    <2>7. \A u \in Threads \ {t} : disableFlip'[u] = disableFlip[u]
      BY <1>2, <2>1
    <2>8. Critical' = Critical
      <3>1. t \in Critical' <=> t \in Critical
        BY <2>3, <2>4, <2>6 DEF Critical
      <3> QED
        BY <1>3, <2>7, <3>1, CriticalSet
    <2>9. disableFlip' \in [Threads -> Nat]
      BY <1>2, <2>1, <2>2, <2>3
    <2>10. ~FlipBegun(t)' /\ ~FlipPauses(t)' /\ OneFlip'
      BY <1>5, <2>1, <2>5 DEF FlipBegun, FlipPauses, SuspendAllLabels
    <2>11. \A u \in Threads : EnteringCritical(u)' => disableFlip'[u] = 1
      BY <1>3, <2>3, <2>6, <2>7 DEF CriticalInv
    <2> QED
      BY <1>3, <2>1, <2>8, <2>9, <2>10, <2>11 DEF CriticalInv
  <1>8. CASE JniCriticalEnter(t)
    <2>1. /\ pc[t] = "jniWait" /\ pc'[t] = "toRunnable" /\ cont'[t] = "native" /\ ~flipRunning
          /\ UNCHANGED <<op, disableFlip, flipRunning>> /\ disableFlipCount' = disableFlipCount + 1
      BY <1>2, <1>4, <1>8 DEF JniCriticalEnter, Goto, opVars, LeavingLabels
    <2>2. EnteringCritical(t) /\ ~EnteringCritical(t)' /\ disableFlip[t] = 1
      BY <2>1 DEF EnteringCritical, CriticalInv
    <2>3. disableFlip[t] > 0
      BY <2>2, SMTT(60)
    <2>4. t \in Critical' /\ t \notin Critical
      BY <2>1, <2>2, <2>3 DEF Critical
    <2>5. Critical' = Critical \cup {t}
      BY <1>3, <2>1, <2>4, CriticalSet
    <2>6. disableFlipCount' = Cardinality(Critical')
      BY <1>2, <2>1, <2>4, <2>5, CountAdd
    <2>7. ~FlipBegun(t)' /\ ~FlipPauses(t)' /\ OneFlip'
      BY <1>5, <2>1 DEF FlipBegun, FlipPauses, SuspendAllLabels
    <2>8. \A c \in Threads : ~FlipBegun(c) /\ ~FlipPauses(c)
      BY <2>1 DEF CriticalInv, FlipBegun, FlipPauses
    <2> QED
      BY <1>3, <2>1, <2>2, <2>6, <2>7, <2>8 DEF CriticalInv
  <1>9. CASE DecrementDisableThreadFlip(t)
    <2>1. /\ pc[t] = "running" /\ UNCHANGED <<op, pc, cont, flipRunning>> /\ disableFlip[t] > 0
          /\ disableFlip' = [disableFlip EXCEPT ![t] = @ - 1]
          /\ disableFlipCount' = IF disableFlip[t] = 1 THEN disableFlipCount - 1 ELSE disableFlipCount
      BY <1>9 DEF DecrementDisableThreadFlip, opVars
    <2>2. disableFlip[t] \in Nat /\ disableFlip'[t] = disableFlip[t] - 1
      BY <1>2, <2>1
    <2>3. /\ disableFlip'[t] \in Nat
          /\ disableFlip[t] = 1 => ~(disableFlip'[t] > 0)
          /\ disableFlip[t] # 1 => disableFlip'[t] > 0
      BY <2>1, <2>2, SMTT(60)
    <2>4. ~EnteringCritical(t) /\ ~EnteringCritical(t)'
      BY <1>4, <2>1 DEF EnteringCritical, LeavingLabels
    <2>5. \A u \in Threads \ {t} : disableFlip'[u] = disableFlip[u]
      BY <1>2, <2>1
    <2>6. t \in Critical /\ (t \in Critical' <=> disableFlip[t] # 1)
      BY <2>1, <2>3, <2>4 DEF Critical
    <2>7. Critical' = IF disableFlip[t] = 1 THEN Critical \ {t} ELSE Critical
      BY <1>3, <2>5, <2>6, CriticalSet
    <2>8. disableFlipCount' = Cardinality(Critical')
      BY <1>2, <2>1, <2>6, <2>7, CountRemove
    <2>9. disableFlip' \in [Threads -> Nat]
      BY <1>2, <2>1, <2>2, <2>3
    <2>10. \A c \in Threads : ~FlipPauses(c)
      BY <2>6 DEF CriticalInv
    <2>11. \A c \in Threads : (FlipBegun(c)' <=> FlipBegun(c)) /\ (FlipPauses(c)' <=> FlipPauses(c))
      BY <2>1 DEF FlipBegun, FlipPauses
    <2>12. OneFlip'
      BY <1>5, <2>1
    <2>13. \A u \in Threads : EnteringCritical(u)' => disableFlip'[u] = 1
      BY <1>3, <2>4, <2>5 DEF CriticalInv
    <2> QED
      BY <2>1, <2>8, <2>9, <2>10, <2>11, <2>12, <2>13 DEF CriticalInv
  <1>10. CASE CallFlipThreadRoots(t)
    <2>1. /\ pc[t] = "native" /\ pc'[t] = "flipBegin" /\ cont' = cont /\ flipRunning'
          /\ UNCHANGED <<disableFlip, disableFlipCount>>
          /\ \A u \in Threads : op[u] # "FlipThreadRoots"
      BY <1>2, <1>10 DEF CallFlipThreadRoots, Goto
    <2>2. ~EnteringCritical(t) /\ ~EnteringCritical(t)'
      BY <1>4, <2>1 DEF EnteringCritical, LeavingLabels
    <2>3. Critical' = Critical
      BY <1>3, <2>1, <2>2 DEF Critical
    <2>4. OneFlip' /\ \A c \in Threads : ~FlipPauses(c)'
      BY <1>3, <2>1 DEF OneFlip, FlipPauses, SuspendAllLabels
    <2> QED
      BY <1>3, <2>1, <2>2, <2>3, <2>4 DEF CriticalInv
  <1>11. CASE ThreadFlipBegin(t)
    <2>1. /\ pc[t] = "flipBegin" /\ pc'[t] = "saLock" /\ UNCHANGED <<cont, op>>
          /\ disableFlipCount = 0 /\ UNCHANGED <<disableFlip, disableFlipCount, flipRunning>>
      BY <1>2, <1>11 DEF ThreadFlipBegin, Goto, flipVars, opVars
    <2>2. Critical = {}
      BY <1>2, <2>1 DEF Counting
    <2>3. EnteringCritical(t)' <=> EnteringCritical(t)
      BY <2>1 DEF EnteringCritical
    <2>4. Critical' = Critical /\ OneFlip'
      BY <1>3, <1>5, <2>1, <2>3 DEF Critical
    <2>5. FlipBegun(t)' => FlipBegun(t)
      BY <2>1 DEF FlipBegun
    <2> QED
      BY <1>3, <2>1, <2>2, <2>3, <2>4, <2>5 DEF CriticalInv
  <1>12. CASE ThreadFlipEnd(t)
    <2>1. /\ pc[t] = "flipEnd" /\ pc'[t] = "flipShared" /\ UNCHANGED <<cont, op>>
          /\ UNCHANGED <<disableFlip, disableFlipCount>>
      BY <1>2, <1>12 DEF ThreadFlipEnd, Goto, opVars
    <2>2. op[t] = "FlipThreadRoots"
      BY <1>1, <2>1 DEF OpAt, FlipLabels
    <2>3. EnteringCritical(t)' <=> EnteringCritical(t)
      BY <2>1 DEF EnteringCritical
    <2>4. Critical' = Critical /\ OneFlip'
      BY <1>3, <1>5, <2>1, <2>3 DEF Critical
    <2>5. \A c \in Threads : ~FlipBegun(c)' /\ ~FlipPauses(c)'
      BY <1>3, <2>1, <2>2 DEF FlipBegun, FlipPauses, CriticalInv, OneFlip,
         SuspendAllLabels
    <2> QED
      BY <1>3, <2>1, <2>3, <2>4, <2>5 DEF CriticalInv
  <1> QED
    BY <1>1, <1>6, <1>7, <1>8, <1>9, <1>10, <1>11, <1>12, CriticalEffect
       DEF CriticalStep
=============================================================================
