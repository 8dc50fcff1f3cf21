-------------------------- MODULE ThreadListProofs --------------------------
(***************************************************************************)
(* The thread list with all its operations running at once, for any finite *)
(* set of threads and any number of calls: every suspend count is the      *)
(* number of operations that have raised it, every barrier is pending for  *)
(* as many threads as have still to pass it, whoever has suspended a       *)
(* thread, or all of them, finds them suspended, nobody waits unnotified,  *)
(* and every checkpoint and flip function runs exactly once, where it      *)
(* should, on threads that are still attached.                             *)
(*                                                                         *)
(* DueInv says where every request is: with the caller, with a thread it   *)
(* has still to ask, in a queue or with a thread kept suspended, and in    *)
(* one of these places only.  FlipInv says who will run each flip function *)
(* that is installed: the caller of FlipThreadRoots, or the thread itself  *)
(* on its way to being runnable.                                           *)
(***************************************************************************)
EXTENDS SuspensionProofs

\* The prover of every leaf that names none.
USE ZenonT(60)

-----------------------------------------------------------------------------
(* Checkpoints due                                                         *)

\* The threads a checkpoint has still to run on: the caller, those it has still to
\* ask, those that have it queued, and those it keeps suspended.
OwnDue(c) == IF pc[c] \in {"rcLoop", "rcRaise", "rcRetry"} THEN {c} ELSE {}
Asking(c) == IF pc[c] \in {"rcRaise", "rcRetry"} THEN todo[c] \cup {cur[c]} ELSE todo[c]
Holds(s, c) == \E i \in DOMAIN s : s[i] = c
Queued(c) == {t \in Threads : Holds(checkpoints[t], c)}
Kept(c) == IF pc[c] = "rcLower" THEN raised[c] \ {cur[c]} ELSE raised[c]

\* The four are apart and there are no others.
Parts(D, O, A, Q, K) ==
  /\ D = O \cup A \cup Q \cup K
  /\ O \cap A = {} /\ O \cap Q = {} /\ O \cap K = {}
  /\ A \cap Q = {} /\ A \cap K = {} /\ Q \cap K = {}

\* No queue has the same checkpoint twice.
Once(s) == \A i, j \in DOMAIN s : s[i] = s[j] => i = j

\* The caller of a checkpoint.
Requesting(c) == op[c] \in {"RunCheckpoint", "RequestSynchronousCheckpoint"}

\* Where flip functions are installed.
FlipRan == {"flipEnd", "flipShared", "flipOthers", "flipLower", "flipWait"}

\* Where a caller has asked nobody yet, or has been answered by all.
NothingDue == {"rcLock", "scLock", "scRaise", "scBroadcast"}

\* Where each checkpoint is.
DueAt(c) ==
  /\ Requesting(c) => Parts(due[c], OwnDue(c), Asking(c), Queued(c), Kept(c))
  /\ ~Requesting(c) => Queued(c) = {} /\ (pc[c] \notin FlipRan => due[c] = {})
  /\ pc[c] \in NothingDue => due[c] = {}
  /\ op[c] = "RequestSynchronousCheckpoint" => due[c] \subseteq {cur[c]}

\* The inductive part of CheckpointExactlyOnce.
DueInv == \A c \in Threads : DueAt(c) /\ Once(checkpoints[c])

\* A thread that is asked has the checkpoint queued or is kept suspended.
LEMMA PartsAsked ==
  ASSUME NEW D, NEW O, NEW A, NEW Q, NEW K, NEW u, Parts(D, O, A, Q, K), u \in A
  PROVE  Parts(D, O, A \ {u}, Q \cup {u}, K) /\ Parts(D, O, A \ {u}, Q, K \cup {u})
  BY SMTT(60), ZenonT(60) DEF Parts

\* The checkpoint has run on the caller, on a thread kept suspended ...
LEMMA PartsRun ==
  ASSUME NEW D, NEW A, NEW Q, NEW K, NEW u
  PROVE  /\ Parts(D, {u}, A, Q, K) => Parts(D \ {u}, {}, A, Q, K)
         /\ \A O : Parts(D, O, A, Q, K) /\ u \in K => Parts(D \ {u}, O, A, Q, K \ {u})
  BY SMTT(60), ZenonT(60) DEF Parts

\* ... or on a thread that had it queued.
LEMMA PartsTaken ==
  ASSUME NEW D, NEW O, NEW A, NEW Q, NEW K, NEW u, Parts(D, O, A, Q, K), u \in Q
  PROVE  Parts(D \ {u}, O, A, Q \ {u}, K)
  BY SMTT(60), ZenonT(60) DEF Parts

\* It has run on all.
LEMMA PartsDone ==
  ASSUME NEW D, NEW O, NEW A, NEW Q, NEW K, Parts(D, O, A, Q, K), D = {}
  PROVE  O = {} /\ A = {} /\ Q = {} /\ K = {}
  BY SMTT(60), ZenonT(60) DEF Parts

\* A queue that something is appended to.
LEMMA HoldsAppend ==
  ASSUME NEW s \in Seq(Threads), NEW c \in Threads
  PROVE  /\ \A d : Holds(Append(s, c), d) <=> Holds(s, d) \/ d = c
         /\ Once(s) /\ ~Holds(s, c) => Once(Append(s, c))
  <1>1. /\ Len(s) \in Nat /\ DOMAIN s = 1..Len(s) /\ DOMAIN Append(s, c) = 1..(Len(s) + 1)
        /\ \A i \in 1..Len(s) : Append(s, c)[i] = s[i]
        /\ Append(s, c)[Len(s) + 1] = c
    BY SMTT(60)
  <1>2. /\ 1..(Len(s) + 1) = 1..Len(s) \cup {Len(s) + 1}
        /\ Len(s) + 1 \notin 1..Len(s)
    BY <1>1, SMTT(60)
  <1>3. \A d : Holds(Append(s, c), d) <=> Holds(s, d) \/ d = c
    BY <1>1, <1>2, SMTT(60) DEF Holds
  <1>4. ASSUME Once(s), ~Holds(s, c) PROVE Once(Append(s, c))
    BY <1>1, <1>2, <1>4, SMTT(60) DEF Holds, Once
  <1> QED
    BY <1>3, <1>4

\* A queue whose first element is taken.
LEMMA HoldsTail ==
  ASSUME NEW s \in Seq(Threads), s # <<>>, Once(s)
  PROVE  /\ \A d : Holds(Tail(s), d) <=> Holds(s, d) /\ d # Head(s)
         /\ Holds(s, Head(s)) /\ Once(Tail(s)) /\ Head(s) \in Threads
  <1>1. /\ Len(s) \in Nat /\ Len(s) > 0 /\ DOMAIN s = 1..Len(s)
        /\ DOMAIN Tail(s) = 1..(Len(s) - 1) /\ Head(s) = s[1]
        /\ \A i \in 1..(Len(s) - 1) : Tail(s)[i] = s[i + 1]
    BY SMTT(60)
  <1>2. /\ 1 \in 1..Len(s)
        /\ \A i \in 1..(Len(s) - 1) : i + 1 \in 1..Len(s) /\ i + 1 # 1
        /\ \A i, j \in 1..(Len(s) - 1) : i + 1 = j + 1 => i = j
        /\ \A i \in 1..Len(s) : i = 1 \/ \E j \in 1..(Len(s) - 1) : i = j + 1
    <2>1. \A i \in 1..Len(s) : i # 1 => i - 1 \in 1..(Len(s) - 1) /\ i = (i - 1) + 1
      BY <1>1, SMTT(60)
    <2> QED
      BY <1>1, <2>1, SMTT(60)
  <1>3. Head(s) \in Threads /\ Holds(s, Head(s))
    BY <1>1, <1>2, SMTT(60) DEF Holds
  <1>4. \A d : Holds(Tail(s), d) <=> Holds(s, d) /\ d # Head(s)
    <2>1. ASSUME NEW d, Holds(Tail(s), d) PROVE Holds(s, d) /\ d # Head(s)
      BY <1>1, <1>2, <2>1, SMTT(60) DEF Holds, Once
    <2>2. ASSUME NEW d, Holds(s, d), d # Head(s) PROVE Holds(Tail(s), d)
      <3>1. PICK i \in 1..Len(s) : s[i] = d
        BY <1>1, <2>2 DEF Holds
      <3>2. PICK j \in 1..(Len(s) - 1) : i = j + 1
        BY <1>1, <1>2, <2>2, <3>1
      <3>3. Tail(s)[j] = d
        BY <1>1, <3>1, <3>2
      <3> QED
        BY <1>1, <3>3 DEF Holds
    <2> QED
      BY <2>1, <2>2
  <1>5. Once(Tail(s))
    BY <1>1, <1>2, SMTT(60) DEF Once
  <1> QED
    BY <1>3, <1>4, <1>5

\* A request is queued on a thread that has it not.
LEMMA QueuesAppend ==
  ASSUME checkpoints \in [Threads -> Seq(Threads)], NEW c \in Threads, NEW u \in Threads,
         checkpoints' = [checkpoints EXCEPT ![u] = Append(@, c)], u \notin Queued(c),
         \A t \in Threads : Once(checkpoints[t])
  PROVE  /\ \A t \in Threads : Once(checkpoints'[t])
         /\ Queued(c)' = Queued(c) \cup {u}
         /\ \A d \in Threads \ {c} : Queued(d)' = Queued(d)
  <1>1. /\ checkpoints'[u] = Append(checkpoints[u], c) /\ checkpoints[u] \in Seq(Threads)
        /\ \A t \in Threads \ {u} : checkpoints'[t] = checkpoints[t]
    OBVIOUS
  <1>2. /\ \A d : Holds(checkpoints'[u], d) <=> Holds(checkpoints[u], d) \/ d = c
        /\ Once(checkpoints[u]) /\ ~Holds(checkpoints[u], c) => Once(checkpoints'[u])
    BY <1>1, HoldsAppend
  <1>3. \A d \in Threads : Queued(d)' = {t \in Threads : Holds(checkpoints'[t], d)}
    BY DEF Queued, Holds
  <1> QED
    BY <1>1, <1>2, <1>3 DEF Queued

\* The first request is taken from the queue of a thread.
LEMMA QueuesTail ==
  ASSUME checkpoints \in [Threads -> Seq(Threads)], NEW u \in Threads, checkpoints[u] # <<>>,
         checkpoints' = [checkpoints EXCEPT ![u] = Tail(@)],
         \A t \in Threads : Once(checkpoints[t])
  PROVE  /\ \A t \in Threads : Once(checkpoints'[t])
         /\ Head(checkpoints[u]) \in Threads
         /\ \A d \in Threads :
              IF d = Head(checkpoints[u]) THEN u \in Queued(d) /\ Queued(d)' = Queued(d) \ {u}
                                          ELSE Queued(d)' = Queued(d)
  <1>1. /\ checkpoints'[u] = Tail(checkpoints[u]) /\ checkpoints[u] \in Seq(Threads)
        /\ \A t \in Threads \ {u} : checkpoints'[t] = checkpoints[t]
    OBVIOUS
  <1>2. PICK h \in Threads : h = Head(checkpoints[u])
    BY <1>1, HoldsTail
  <1>3. /\ \A d : Holds(checkpoints'[u], d) <=> Holds(checkpoints[u], d) /\ d # h
        /\ Holds(checkpoints[u], h) /\ Once(checkpoints'[u])
    BY <1>1, <1>2, HoldsTail
  <1>4. \A d : Queued(d)' = {t \in Threads : Holds(checkpoints'[t], d)}
    BY DEF Queued, Holds
  <1>5. \A t \in Threads : Once(checkpoints'[t])
    BY <1>1, <1>3
  <1>6. u \in Queued(h)
    BY <1>3 DEF Queued
  <1>7. Queued(h)' = Queued(h) \ {u}
    BY <1>1, <1>3, <1>4 DEF Queued
  <1>8. \A d \in Threads : d # h => Queued(d)' = Queued(d)
    BY <1>1, <1>3, <1>4 DEF Queued
  <1> QED
    BY <1>2, <1>5, <1>6, <1>7, <1>8
-----------------------------------------------------------------------------
(* What a step does to the checkpoints due                                 *)

\* A step that leaves the queues, and what is due to other threads, alone.
DueFrame(t) == checkpoints' = checkpoints /\ due' = [due EXCEPT ![t] = due'[t]]

\* The part of RunCheckpoint in which the parts change.
AskingLabels == {"rcLoop", "rcRaise", "rcRetry", "rcLower"}

\* A step with nothing due before and after, or one of a flip, ...
NoRequest(t) ==
  /\ ~Requesting(t) /\ ~Requesting(t)'
  /\ \/ pc'[t] \in FlipRan
     \/ due'[t] = due[t] /\ (pc[t] \notin FlipRan \/ due[t] = {})

\* ... and one that leaves the parts alone.
SameParts(t) ==
  /\ op'[t] = op[t] /\ cur'[t] = cur[t] /\ todo'[t] = todo[t] /\ raised'[t] = raised[t]
  /\ due'[t] = due[t] /\ pc[t] \notin AskingLabels \cup FlipRan
  /\ pc'[t] \notin AskingLabels \cup FlipRan \cup NothingDue

\* The steps that move a checkpoint, and the others.
DueStep(t) ==
  \/ DueFrame(t) /\ (NoRequest(t) \/ SameParts(t))
  \/ UNCHANGED <<checkpoints, due, op, cur, todo, raised, pc>>
  \/ RunCheckpointFunction(t) \/ RunFlipFunction(t) \/ FlipOther(t) \/ FlipSelf(t)
  \/ RunCheckpointStep(t) /\ ~RunCheckpointBroadcast(t)
  \/ SynchronousStep(t) /\ ~SynchronousSuspended(t)

\* The transitions of a thread that run nothing.
LEMMA TransitionDue ==
  ASSUME TypeInv, NEW t \in Threads, OpAt(t), TransitionStep(t)
  PROVE  DueStep(t)
  <1> /\ pc \in [Threads -> Labels] /\ cont \in [Threads -> ContLabels]
      /\ due \in [Threads -> SUBSET Threads]
    BY DEF TypeInv, OpType
  <1>1. ASSUME UNCHANGED <<opVars, checkpoints>>, pc[t] \notin AskingLabels \cup FlipRan,
               pc'[t] \notin AskingLabels \cup FlipRan \cup NothingDue
        PROVE  DueStep(t)
    <2>1. DueFrame(t)
      BY <1>1 DEF DueFrame, opVars
    <2> QED
      BY <1>1, <2>1 DEF DueStep, SameParts, opVars
  <1> USE DEF threadVars
  <1>2. CASE LeaveRunnable(t) \/ EnterRunnable(t) \/ FullSuspendCheck(t)
    <2>1. /\ UNCHANGED <<opVars, checkpoints>> /\ pc[t] \in {"running", "native"}
          /\ pc'[t] \in {"toSuspended", "toRunnable"}
      BY <1>2 DEF LeaveRunnable, EnterRunnable, FullSuspendCheck, Goto
    <2> QED
      BY <1>1, <2>1 DEF AskingLabels, FlipRan, NothingDue
  <1>3. CASE TransitionToSuspended(t) \/ ClaimBarriers(t) \/ PassBarrier(t) \/ BecomeRunnable(t)
    <2>1. /\ UNCHANGED <<opVars, checkpoints>>
          /\ pc[t] \in {"toSuspended", "passLoop", "toRunnable", "passSuspended", "passRunnable"}
          /\ pc'[t] \in {"passLoop", "toRunnable", "passSuspended", "passRunnable", "runFlip"}
      BY <1>3 DEF TransitionToSuspended, ClaimBarriers, PassBarrier, BecomeRunnable,
         Goto
    <2> QED
      BY <1>1, <2>1 DEF AskingLabels, FlipRan, NothingDue
  <1>4. CASE WaitForResume(t) \/ ResumeWaitExit(t)
    <2>1. /\ UNCHANGED <<opVars, checkpoints>> /\ pc[t] \in {"toRunnable", "resumeWait"}
          /\ pc'[t] \in {"toRunnable", "resumeWait"}
      BY <1>4 DEF WaitForResume, ResumeWaitExit, Goto
    <2> QED
      BY <1>1, <2>1 DEF AskingLabels, FlipRan, NothingDue
  <1>5. CASE SpuriousResume(t)
    BY <1>5 DEF SpuriousResume, DueStep, opVars
  <1>6. CASE PassLoopExit(t)
    <2>1. UNCHANGED <<opVars, checkpoints>> /\ pc[t] = "passLoop" /\ pc'[t] = cont[t]
      BY <1>6 DEF PassLoopExit, Goto
    <2>2. cont[t] \in ContLabels
      OBVIOUS
    <2> QED
      BY <1>1, <2>1, <2>2 DEF AskingLabels, FlipRan, NothingDue, ContLabels
  <1> QED
    BY <1>2, <1>3, <1>4, <1>5, <1>6 DEF TransitionStep, DueStep

\* The steps of the operations that are no checkpoint requests.
LEMMA OperationDue ==
  ASSUME TypeInv, NEW t \in Threads, OpAt(t),
         SuspendAllStep(t) \/ FlipStep(t) \/ SuspendThreadStep(t) \/ AttachStep(t)
  PROVE  DueStep(t)
  <1>1. /\ pc \in [Threads -> Labels] /\ op \in [Threads -> OpNames \cup {"none"}]
        /\ due \in [Threads -> SUBSET Threads]
    BY DEF TypeInv, OpType
  <1>2. ASSUME UNCHANGED <<checkpoints, due>>,
               op'[t] = op[t] \/ op'[t] \in {"SuspendAll", "FlipThreadRoots", "Detach", "none",
                                             "SuspendThreadByThreadId"},
               ~Requesting(t), \/ pc[t] \notin FlipRan \/ pc'[t] \in FlipRan \/ due[t] = {}
        PROVE  DueStep(t)
    <2>1. DueFrame(t)
      BY <1>1, <1>2 DEF DueFrame
    <2>2. ~Requesting(t)'
      BY <1>2 DEF Requesting
    <2> QED
      BY <1>2, <2>1, <2>2 DEF DueStep, NoRequest
  <1>3. /\ pc[t] \in {"detached", "native", "running", "jniWait", "unregister", "raLock",
                      "stLock", "stRetry", "stCheck", "stHave", "stBroadcast"}
           \cup SuspendAllLabels \cup FlipLabels => ~Requesting(t)
        /\ pc[t] \in {"detached", "native", "running", "jniWait", "unregister", "raLock",
                      "stLock", "stRetry", "stCheck", "stHave", "stBroadcast", "flipBegin"}
           \cup SuspendAllLabels => pc[t] \notin FlipRan
    <2>1. pc[t] \in SuspendAllLabels => pc[t] \notin FlipRan
      BY DEF SuspendAllLabels, FlipRan
    <2> QED
      BY <2>1 DEF OpAt, Requesting, FlipRan
  <1> USE DEF threadVars, opVars
  <1>4. CASE SuspendAllStep(t)
    <2>1. /\ UNCHANGED <<checkpoints, due>> /\ op'[t] \in {op[t], "SuspendAll", "none"}
          /\ pc[t] \in SuspendAllLabels \cup {"native", "raLock"}
      <3>1. CASE CallSuspendAll(t) \/ ResumeAll(t)
        BY <1>1, <3>1 DEF CallSuspendAll, ResumeAll
      <3>2. CASE SuspendAllBegin(t) \/ SuspendAllRaise(t) \/ SuspendAllRetry(t)
        BY <3>2 DEF SuspendAllBegin, SuspendAllRaise, SuspendAllRetry, SuspendAllLabels
      <3>3. CASE SuspendAllRaiseAgain(t) \/ SuspendAllCheck(t) \/ SuspendAllUnlock(t)
        BY <3>3 DEF SuspendAllRaiseAgain, SuspendAllCheck, SuspendAllUnlock,
           SuspendAllLabels
      <3>4. CASE SuspendAllWait(t) \/ SuspendAllExclusive(t) \/ ResumeAllUnlock(t)
        BY <3>4 DEF SuspendAllWait, SuspendAllExclusive, ResumeAllUnlock,
           SuspendAllLabels
      <3> QED
        BY <1>4, <3>1, <3>2, <3>3, <3>4 DEF SuspendAllStep
    <2> QED
      BY <1>2, <1>3, <2>1
  <1>5. CASE FlipStep(t)
    <2>1. CASE IncrementDisableThreadFlip(t) \/ JniCriticalWait(t) \/ JniCriticalEnter(t)
               \/ DecrementDisableThreadFlip(t)
      <3>1. UNCHANGED <<checkpoints, due, op>> /\ pc[t] \in {"running", "jniWait"}
        BY <2>1 DEF IncrementDisableThreadFlip, JniCriticalWait, JniCriticalEnter,
           DecrementDisableThreadFlip
      <3> QED
        BY <1>2, <1>3, <3>1
    <2>2. CASE CallFlipThreadRoots(t) \/ ThreadFlipBeginWait(t) \/ ThreadFlipBegin(t)
               \/ FlipCallback(t)
      <3>1. /\ UNCHANGED <<checkpoints, due>> /\ op'[t] \in {op[t], "FlipThreadRoots"}
            /\ pc[t] \in {"native", "flipBegin", "saHeld"}
        BY <1>1, <2>2 DEF CallFlipThreadRoots, ThreadFlipBeginWait, ThreadFlipBegin,
           FlipCallback
      <3> QED
        BY <1>2, <1>3, <3>1 DEF SuspendAllLabels, FlipLabels
    <2>3. CASE FlipResume(t)
      <3>1. /\ checkpoints' = checkpoints /\ due' = [due EXCEPT ![t] = list] /\ op' = op
            /\ pc[t] = "flipResume" /\ pc'[t] = "flipEnd"
        BY <1>1, <2>3 DEF FlipResume, Goto
      <3>2. DueFrame(t)
        BY <1>1, <3>1 DEF DueFrame
      <3>3. ~Requesting(t) /\ ~Requesting(t)' /\ pc'[t] \in FlipRan
        BY <1>3, <3>1 DEF FlipLabels, FlipRan, Requesting
      <3> QED
        BY <3>2, <3>3 DEF DueStep, NoRequest
    <2>4. CASE ThreadFlipEnd(t) \/ FlipSharedLock(t) \/ FlipLower(t)
      <3>1. /\ UNCHANGED <<checkpoints, due, op>> /\ pc[t] \in FlipLabels
            /\ pc'[t] \in {"flipShared", "flipOthers", "flipWait"}
        BY <1>1, <2>4 DEF ThreadFlipEnd, FlipSharedLock, FlipLower, FlipLabels, Goto
      <3> QED
        BY <1>2, <1>3, <3>1 DEF FlipRan
    <2>5. CASE FlipDone(t)
      <3>1. /\ UNCHANGED <<checkpoints, due>> /\ pc[t] = "flipWait" /\ due[t] = {}
            /\ op'[t] = "none"
        BY <1>1, <2>5 DEF FlipDone
      <3> QED
        BY <1>2, <1>3, <3>1 DEF FlipLabels
    <2> QED
      BY <1>5, <2>1, <2>2, <2>3, <2>4, <2>5 DEF FlipStep, DueStep
  <1>6. CASE SuspendThreadStep(t)
    <2>1. /\ UNCHANGED <<checkpoints, due>>
          /\ op'[t] \in {op[t], "SuspendThreadByThreadId", "none"}
          /\ pc[t] \in {"native", "stLock", "stRetry", "stCheck", "stHave", "stBroadcast"}
      <3>1. CASE CallSuspendThread(t) \/ SuspendTimeout(t) \/ NoSuchThread(t) \/ BackOff(t)
        BY <1>1, <3>1 DEF CallSuspendThread, SuspendTimeout, NoSuchThread, BackOff
      <3>2. CASE RequestSuspend(t) \/ RequestSuspendRetry(t) \/ SuspendThreadAgain(t)
        BY <1>1, <3>2 DEF RequestSuspend, RequestSuspendRetry, SuspendThreadAgain
      <3>3. CASE CheckSuspended(t) \/ Resume(t) \/ ResumeBroadcast(t)
        BY <1>1, <3>3 DEF CheckSuspended, Resume, ResumeBroadcast
      <3> QED
        BY <1>6, <3>1, <3>2, <3>3 DEF SuspendThreadStep
    <2> QED
      BY <1>2, <1>3, <2>1
  <1>7. CASE AttachStep(t)
    <2>1. /\ UNCHANGED <<checkpoints, due>> /\ op'[t] \in {op[t], "Detach", "none"}
          /\ pc[t] \in {"native", "detached", "unregister"}
      <3>1. CASE Register(t)
        BY <1>1, <3>1 DEF Register
      <3>2. CASE CallUnregister(t)
        BY <1>1, <3>2 DEF CallUnregister
      <3>3. CASE Unregister(t)
        BY <1>1, <3>3 DEF Unregister
      <3> QED
        BY <1>7, <3>1, <3>2, <3>3 DEF AttachStep
    <2> QED
      BY <1>2, <1>3, <2>1
  <1> QED
    BY <1>4, <1>5, <1>6, <1>7

\* Every step.
LEMMA DueEffect ==
  ASSUME TypeInv, NEW t \in Threads, OpAt(t), ThreadStep(t) \/ AttachStep(t)
  PROVE  DueStep(t)
  <1>1. /\ pc \in [Threads -> Labels] /\ due \in [Threads -> SUBSET Threads]
        /\ due' = due => due' = [due EXCEPT ![t] = due'[t]]
    BY DEF TypeInv, OpType
  <1>2. CASE RunCheckpointBroadcast(t) \/ SynchronousSuspended(t)
    <2>1. /\ UNCHANGED <<checkpoints, op, cur, todo, raised, due>>
          /\ pc[t] \in {"rcOthers", "scSpin"} /\ pc'[t] \in {"toSuspended", "rcWait", "toRunnable"}
      BY <1>1, <1>2 DEF RunCheckpointBroadcast, SynchronousSuspended, threadVars,
         opVars, Goto
    <2>2. DueFrame(t) /\ SameParts(t)
      BY <1>1, <2>1 DEF DueFrame, SameParts, AskingLabels, FlipRan, NothingDue
    <2> QED
      BY <2>2 DEF DueStep
  <1> QED
    BY <1>2, TransitionDue, OperationDue DEF ThreadStep, DueStep
-----------------------------------------------------------------------------
(* Every step keeps what is due                                            *)

\* The parts of a checkpoint as they are after a step.
LEMMA PartsAfter ==
  ASSUME NEW c \in Threads, NEW D, NEW O, NEW A, NEW Q, NEW K, Parts(D, O, A, Q, K),
         due'[c] = D, OwnDue(c)' = O, Asking(c)' = A, Queued(c)' = Q, Kept(c)' = K
  PROVE  Parts(due[c], OwnDue(c), Asking(c), Queued(c), Kept(c))'
  BY DEF Parts

\* A caller whose parts a step leaves alone.
LEMMA DueUnmoved ==
  ASSUME NEW c \in Threads, DueAt(c), op'[c] = op[c], cur'[c] = cur[c], due'[c] = due[c],
         Queued(c)' = Queued(c), Requesting(c) => todo'[c] = todo[c] /\ raised'[c] = raised[c],
         \/ pc'[c] = pc[c]
         \/ /\ pc[c] \notin AskingLabels \cup FlipRan
            /\ pc'[c] \notin AskingLabels \cup FlipRan \cup NothingDue
  PROVE  DueAt(c)'
  <1>1. Requesting(c)' = Requesting(c)
    BY DEF Requesting
  <1>2. ASSUME Requesting(c)
        PROVE  Parts(due[c], OwnDue(c), Asking(c), Queued(c), Kept(c))'
    <2>1. todo'[c] = todo[c] /\ raised'[c] = raised[c]
      BY <1>2
    <2>2. OwnDue(c)' = OwnDue(c)
      BY DEF OwnDue, AskingLabels
    <2>3. Asking(c)' = Asking(c)
      BY <2>1 DEF Asking, AskingLabels
    <2>4. Kept(c)' = Kept(c)
      BY <2>1 DEF Kept, AskingLabels
    <2>5. Parts(due[c], OwnDue(c), Asking(c), Queued(c), Kept(c))
      BY <1>2 DEF DueAt
    <2> QED
      BY <2>2, <2>3, <2>4, <2>5, PartsAfter
  <1>3. ~Requesting(c) => Queued(c)' = {} /\ (pc'[c] \notin FlipRan => due'[c] = {})
    BY DEF DueAt
  <1>4. /\ pc'[c] \in NothingDue => due'[c] = {}
        /\ op'[c] = "RequestSynchronousCheckpoint" => due'[c] \subseteq {cur'[c]}
    BY DEF DueAt
  <1> QED
    BY <1>1, <1>2, <1>3, <1>4 DEF DueAt

\* What a caller that is no checkpoint has queued and due.
LEMMA DueNone ==
  ASSUME NEW c \in Threads, DueAt(c), ~Requesting(c), ~Requesting(c)', Queued(c)' = Queued(c),
         pc'[c] \in FlipRan \/ due'[c] = {}
  PROVE  DueAt(c)'
  <1>1. pc'[c] \in FlipRan => pc'[c] \notin NothingDue
    BY DEF FlipRan, NothingDue
  <1>2. op'[c] # "RequestSynchronousCheckpoint"
    BY DEF Requesting
  <1> QED
    BY <1>1, <1>2 DEF DueAt

\* What the other threads' checkpoints have due after a step of t.
OthersDue(t) ==
  /\ \A c \in Threads \ {t} : due'[c] = due[c] /\ Queued(c)' = Queued(c)
  /\ \A u \in Threads : Once(checkpoints'[u])

\* A step that leaves the queues alone.
LEMMA QueuesSame ==
  ASSUME checkpoints' = checkpoints, DueInv
  PROVE  /\ \A c \in Threads : Queued(c)' = Queued(c)
         /\ \A u \in Threads : Once(checkpoints'[u])
  <1>1. \A c \in Threads : Queued(c)' = Queued(c)
    BY DEF Queued, Holds
  <1>2. \A u \in Threads : Once(checkpoints'[u])
    BY DEF DueInv
  <1> QED
    BY <1>1, <1>2

\* RunCheckpoint moves every thread from part to part.
LEMMA RunCheckpointDue ==
  ASSUME TypeInv, DueInv, NEW t \in Threads, OpAt(t), CurAt(t), RaisedAt(t),
         RunCheckpointStep(t), ~RunCheckpointBroadcast(t)
  PROVE  DueAt(t)' /\ OthersDue(t)
  <1>t. /\ pc \in [Threads -> Labels] /\ op \in [Threads -> OpNames \cup {"none"}]
        /\ due \in [Threads -> SUBSET Threads] /\ todo \in [Threads -> SUBSET Threads]
        /\ raised \in [Threads -> SUBSET Threads] /\ cur \in [Threads -> Threads \cup {NoThread}]
        /\ checkpoints \in [Threads -> Seq(Threads)]
    BY DEF TypeInv, OpType, ThreadType
  <1>d. DueAt(t) /\ \A u \in Threads : Once(checkpoints[u])
    BY DEF DueInv
  <1>p. op[t] = "RunCheckpoint" => Parts(due[t], OwnDue(t), Asking(t), Queued(t), Kept(t))
    BY <1>d DEF DueAt, Requesting
  <1>o. ASSUME checkpoints' = checkpoints, \A c \in Threads \ {t} : due'[c] = due[c]
        PROVE  OthersDue(t) /\ Queued(t)' = Queued(t)
    BY <1>o, QueuesSame DEF OthersDue
  <1>r. ASSUME op'[t] = "RunCheckpoint", pc'[t] \in NothingDue => due'[t] = {},
               Parts(due[t], OwnDue(t), Asking(t), Queued(t), Kept(t))'
        PROVE  DueAt(t)'
    BY <1>r DEF DueAt, Requesting
  <1> USE DEF threadVars, opVars, Goto
  <1>1. CASE CallRunCheckpoint(t)
    <2>1. /\ UNCHANGED <<checkpoints, due, cur, todo, raised>> /\ pc[t] \in {"native", "running"}
          /\ pc'[t] = "rcLock" /\ op'[t] = "RunCheckpoint"
      BY <1>t, <1>1 DEF CallRunCheckpoint
    <2>2. op[t] = "none" /\ raised[t] = {} /\ todo[t] = {}
      BY <2>1 DEF OpAt, RaisedAt, InLoop, HasTodo
    <2>3. due[t] = {} /\ Queued(t) = {}
      BY <1>d, <2>1, <2>2 DEF DueAt, Requesting, FlipRan
    <2>4. OthersDue(t) /\ Queued(t)' = {}
      BY <1>o, <2>1, <2>3
    <2>5. OwnDue(t)' = {} /\ Asking(t)' = {} /\ Kept(t)' = {}
      BY <2>1, <2>2 DEF OwnDue, Asking, Kept
    <2>6. Parts({}, {}, {}, {}, {})
      BY DEF Parts
    <2>7. Parts(due[t], OwnDue(t), Asking(t), Queued(t), Kept(t))'
      BY <2>1, <2>3, <2>4, <2>5, <2>6, PartsAfter
    <2> QED
      BY <1>r, <2>1, <2>3, <2>4, <2>7
  <1>2. CASE RunCheckpointBegin(t)
    <2>1. /\ UNCHANGED <<checkpoints, op, cur, raised>> /\ pc[t] = "rcLock"
          /\ pc'[t] = "rcLoop" /\ todo'[t] = list \ {t} /\ due'[t] = list
          /\ \A c \in Threads \ {t} : due'[c] = due[c]
      BY <1>t, <1>2 DEF RunCheckpointBegin
    <2>2. op[t] = "RunCheckpoint" /\ raised[t] = {} /\ t \in list
      BY <2>1 DEF OpAt, RaisedAt, CheckpointLabels
    <2>3. due[t] = {}
      BY <1>d, <2>1 DEF DueAt, NothingDue
    <2>4. Queued(t) = {}
      BY <1>p, <2>2, <2>3, PartsDone
    <2>5. OthersDue(t) /\ Queued(t)' = {}
      BY <1>o, <2>1, <2>4
    <2>6. OwnDue(t)' = {t} /\ Asking(t)' = list \ {t} /\ Kept(t)' = {}
      BY <2>1, <2>2 DEF OwnDue, Asking, Kept
    <2>7. Parts(list, {t}, list \ {t}, {}, {})
      BY <2>2 DEF Parts
    <2>8. Parts(due[t], OwnDue(t), Asking(t), Queued(t), Kept(t))'
      BY <2>1, <2>5, <2>6, <2>7, PartsAfter
    <2> QED
      BY <1>r, <2>1, <2>2, <2>5, <2>8 DEF NothingDue
  <1>3. CASE RequestCheckpoint(t)
    <2>1. PICK u \in todo[t] : /\ checkpoints' = [checkpoints EXCEPT ![u] = Append(@, t)]
                               /\ todo' = [todo EXCEPT ![t] = @ \ {u}]
      BY <1>3 DEF RequestCheckpoint
    <2>2. /\ UNCHANGED <<op, cur, raised, due, pc>> /\ pc[t] = "rcLoop" /\ u \in Threads
          /\ todo'[t] = todo[t] \ {u}
      BY <1>t, <1>3, <2>1 DEF RequestCheckpoint
    <2>3. op[t] = "RunCheckpoint"
      BY <2>2 DEF OpAt, CheckpointLabels
    <2>4. Asking(t) = todo[t] /\ Asking(t)' = todo[t] \ {u}
      BY <2>2 DEF Asking
    <2>5. OwnDue(t)' = OwnDue(t) /\ Kept(t)' = Kept(t)
      BY <2>2 DEF OwnDue, Kept
    <2>6. u \notin Queued(t)
      BY <1>p, <2>3, <2>4 DEF Parts
    <2>7. OthersDue(t) /\ Queued(t)' = Queued(t) \cup {u}
      BY <1>t, <1>d, <2>1, <2>2, <2>6, QueuesAppend DEF OthersDue
    <2>8. Parts(due[t], OwnDue(t), Asking(t) \ {u}, Queued(t) \cup {u}, Kept(t))
      <3>1. Parts(due[t], OwnDue(t), Asking(t), Queued(t), Kept(t)) /\ u \in Asking(t)
        BY <1>p, <2>3, <2>4
      <3> QED
        BY <3>1, PartsAsked
    <2>9. Parts(due[t], OwnDue(t), Asking(t), Queued(t), Kept(t))'
      <3>1. due'[t] = due[t] /\ Asking(t)' = Asking(t) \ {u}
        BY <2>2, <2>4
      <3> QED
        BY <3>1, <2>5, <2>7, <2>8, PartsAfter
    <2> QED
      BY <1>r, <2>2, <2>3, <2>7, <2>9 DEF NothingDue
  <1>4. CASE RequestCheckpointFails(t)
    <2>1. PICK u \in todo[t] : /\ cur' = [cur EXCEPT ![t] = u]
                               /\ todo' = [todo EXCEPT ![t] = @ \ {u}]
      BY <1>4 DEF RequestCheckpointFails
    <2>2. /\ UNCHANGED <<checkpoints, op, raised, due>> /\ pc[t] = "rcLoop" /\ pc'[t] = "rcRaise"
          /\ cur'[t] = u /\ todo'[t] = todo[t] \ {u}
      BY <1>t, <1>4, <2>1 DEF RequestCheckpointFails
    <2>3. op[t] = "RunCheckpoint"
      BY <2>2 DEF OpAt, CheckpointLabels
    <2>4. Asking(t) = todo[t] /\ Asking(t)' = (todo[t] \ {u}) \cup {u}
      BY <2>2 DEF Asking
    <2>5. Asking(t)' = Asking(t)
      BY <2>1, <2>4
    <2>6. OwnDue(t)' = OwnDue(t) /\ Kept(t)' = Kept(t)
      BY <2>2 DEF OwnDue, Kept
    <2>7. OthersDue(t) /\ Queued(t)' = Queued(t)
      BY <1>o, <2>2
    <2>8. Parts(due[t], OwnDue(t), Asking(t), Queued(t), Kept(t))'
      BY <1>p, <2>2, <2>3, <2>5, <2>6, <2>7, PartsAfter
    <2> QED
      BY <1>r, <2>2, <2>3, <2>7, <2>8 DEF NothingDue
  <1>5. CASE KeepSuspended(t)
    <2>1. /\ UNCHANGED <<checkpoints, op, todo, due>> /\ pc[t] \in {"rcRaise", "rcRetry"}
          /\ pc'[t] = "rcLoop" /\ raised' = [raised EXCEPT ![t] = @ \cup {cur[t]}]
      BY <1>t, <1>5 DEF KeepSuspended, Raise
    <2>2. op[t] = "RunCheckpoint" /\ cur[t] \notin todo[t] /\ raised'[t] = raised[t] \cup {cur[t]}
      BY <1>t, <2>1 DEF OpAt, CheckpointLabels, RaisedAt
    <2>3. Asking(t) = todo[t] \cup {cur[t]} /\ Asking(t)' = todo[t]
      BY <2>1 DEF Asking
    <2>4. cur[t] \in Asking(t) /\ Asking(t)' = Asking(t) \ {cur[t]}
      BY <2>2, <2>3
    <2>5. OwnDue(t)' = OwnDue(t) /\ Kept(t)' = Kept(t) \cup {cur[t]}
      BY <2>1, <2>2 DEF OwnDue, Kept
    <2>6. OthersDue(t) /\ Queued(t)' = Queued(t)
      BY <1>o, <2>1
    <2>7. Parts(due[t], OwnDue(t), Asking(t) \ {cur[t]}, Queued(t), Kept(t) \cup {cur[t]})
      <3>1. Parts(due[t], OwnDue(t), Asking(t), Queued(t), Kept(t))
        BY <1>p, <2>2
      <3> QED
        BY <3>1, <2>4, PartsAsked
    <2>8. Parts(due[t], OwnDue(t), Asking(t), Queued(t), Kept(t))'
      BY <2>1, <2>4, <2>5, <2>6, <2>7, PartsAfter
    <2> QED
      BY <1>r, <2>1, <2>2, <2>6, <2>8 DEF NothingDue
  <1>6. CASE KeepSuspendedRetry(t)
    <2>1. /\ UNCHANGED <<checkpoints, op, cur, todo, raised, due>> /\ pc[t] = "rcRaise"
          /\ pc'[t] = "rcRetry"
      BY <1>t, <1>6 DEF KeepSuspendedRetry
    <2>2. op[t] = "RunCheckpoint"
      BY <2>1 DEF OpAt, CheckpointLabels
    <2>3. OwnDue(t)' = OwnDue(t) /\ Asking(t)' = Asking(t) /\ Kept(t)' = Kept(t)
      BY <2>1 DEF OwnDue, Asking, Kept
    <2>4. OthersDue(t) /\ Queued(t)' = Queued(t)
      BY <1>o, <2>1
    <2>5. Parts(due[t], OwnDue(t), Asking(t), Queued(t), Kept(t))'
      BY <1>p, <2>1, <2>2, <2>3, <2>4, PartsAfter
    <2> QED
      BY <1>r, <2>1, <2>2, <2>4, <2>5 DEF NothingDue
  <1>7. CASE RunCheckpointOnSelf(t)
    <2>1. /\ UNCHANGED <<checkpoints, op, cur, todo, raised>> /\ pc[t] = "rcLoop"
          /\ pc'[t] = "rcOthers" /\ due'[t] = due[t] \ {t}
          /\ \A c \in Threads \ {t} : due'[c] = due[c]
      BY <1>t, <1>7 DEF RunCheckpointOnSelf
    <2>2. op[t] = "RunCheckpoint"
      BY <2>1 DEF OpAt, CheckpointLabels
    <2>3. OwnDue(t) = {t} /\ OwnDue(t)' = {} /\ Asking(t)' = Asking(t) /\ Kept(t)' = Kept(t)
      BY <2>1 DEF OwnDue, Asking, Kept
    <2>4. OthersDue(t) /\ Queued(t)' = Queued(t)
      BY <1>o, <2>1
    <2>5. Parts(due[t] \ {t}, {}, Asking(t), Queued(t), Kept(t))
      <3>1. Parts(due[t], {t}, Asking(t), Queued(t), Kept(t))
        BY <1>p, <2>2, <2>3
      <3> QED
        BY <3>1, PartsRun
    <2>6. Parts(due[t], OwnDue(t), Asking(t), Queued(t), Kept(t))'
      BY <2>1, <2>3, <2>4, <2>5, PartsAfter
    <2> QED
      BY <1>r, <2>1, <2>2, <2>4, <2>6 DEF NothingDue
  <1>8. CASE RunCheckpointOnOther(t)
    <2>1. PICK u \in raised[t] : /\ due' = [due EXCEPT ![t] = @ \ {u}]
                                 /\ cur' = [cur EXCEPT ![t] = u]
      BY <1>8 DEF RunCheckpointOnOther
    <2>2. /\ UNCHANGED <<checkpoints, op, todo, raised>> /\ pc[t] = "rcOthers"
          /\ pc'[t] = "rcLower" /\ due'[t] = due[t] \ {u} /\ cur'[t] = u
          /\ \A c \in Threads \ {t} : due'[c] = due[c]
      BY <1>t, <1>8, <2>1 DEF RunCheckpointOnOther
    <2>3. op[t] = "RunCheckpoint"
      BY <2>2 DEF OpAt, CheckpointLabels
    <2>4. OwnDue(t)' = OwnDue(t) /\ Asking(t)' = Asking(t)
      BY <2>2 DEF OwnDue, Asking
    <2>5. u \in Kept(t) /\ Kept(t)' = Kept(t) \ {u}
      BY <2>1, <2>2 DEF Kept
    <2>6. OthersDue(t) /\ Queued(t)' = Queued(t)
      BY <1>o, <2>2
    <2>7. Parts(due[t] \ {u}, OwnDue(t), Asking(t), Queued(t), Kept(t) \ {u})
      <3>1. Parts(due[t], OwnDue(t), Asking(t), Queued(t), Kept(t))
        BY <1>p, <2>3
      <3> QED
        BY <3>1, <2>5, PartsRun
    <2>8. Parts(due[t], OwnDue(t), Asking(t), Queued(t), Kept(t))'
      BY <2>2, <2>4, <2>5, <2>6, <2>7, PartsAfter
    <2> QED
      BY <1>r, <2>2, <2>3, <2>6, <2>8 DEF NothingDue
  <1>9. CASE RunCheckpointLower(t)
    <2>1. /\ UNCHANGED <<checkpoints, op, todo, due>> /\ pc[t] = "rcLower" /\ pc'[t] = "rcOthers"
          /\ raised'[t] = raised[t] \ {cur[t]}
      BY <1>t, <1>9 DEF RunCheckpointLower, Lower
    <2>2. op[t] = "RunCheckpoint"
      BY <2>1 DEF OpAt, CheckpointLabels
    <2>3. OwnDue(t)' = OwnDue(t) /\ Asking(t)' = Asking(t) /\ Kept(t)' = Kept(t)
      BY <2>1 DEF OwnDue, Asking, Kept
    <2>4. OthersDue(t) /\ Queued(t)' = Queued(t)
      BY <1>o, <2>1
    <2>5. Parts(due[t], OwnDue(t), Asking(t), Queued(t), Kept(t))'
      BY <1>p, <2>1, <2>2, <2>3, <2>4, PartsAfter
    <2> QED
      BY <1>r, <2>1, <2>2, <2>4, <2>5 DEF NothingDue
  <1>10. CASE RunCheckpointDone(t)
    <2>1. /\ UNCHANGED <<checkpoints, due>> /\ pc[t] = "rcWait" /\ due[t] = {}
          /\ pc'[t] = "native" /\ op'[t] = "none"
      BY <1>t, <1>10 DEF RunCheckpointDone
    <2>2. op[t] = "RunCheckpoint"
      BY <2>1 DEF OpAt
    <2>3. Queued(t) = {}
      BY <1>p, <2>1, <2>2, PartsDone
    <2>4. OthersDue(t) /\ Queued(t)' = {}
      BY <1>o, <2>1, <2>3
    <2> QED
      BY <2>1, <2>4 DEF DueAt, Requesting
  <1> QED
    BY <1>1, <1>2, <1>3, <1>4, <1>5, <1>6, <1>7, <1>8, <1>9, <1>10
       DEF RunCheckpointStep
\* RequestSynchronousCheckpoint has its closure due on one thread, which has it queued
\* or is kept suspended.
LEMMA SynchronousDue ==
  ASSUME TypeInv, DueInv, NEW t \in Threads, OpAt(t), CurAt(t), RaisedAt(t),
         SynchronousStep(t), ~SynchronousSuspended(t)
  PROVE  DueAt(t)' /\ OthersDue(t)
  <1>t. /\ pc \in [Threads -> Labels] /\ op \in [Threads -> OpNames \cup {"none"}]
        /\ due \in [Threads -> SUBSET Threads] /\ todo \in [Threads -> SUBSET Threads]
        /\ raised \in [Threads -> SUBSET Threads] /\ cur \in [Threads -> Threads \cup {NoThread}]
        /\ checkpoints \in [Threads -> Seq(Threads)]
    BY DEF TypeInv, OpType, ThreadType
  <1>d. DueAt(t) /\ \A u \in Threads : Once(checkpoints[u])
    BY DEF DueInv
  <1>p. op[t] = "RequestSynchronousCheckpoint" =>
          /\ Parts(due[t], OwnDue(t), Asking(t), Queued(t), Kept(t))
          /\ due[t] \subseteq {cur[t]} /\ cur[t] \in Threads
    BY <1>d DEF DueAt, Requesting, CurAt
  <1>o. ASSUME checkpoints' = checkpoints, \A c \in Threads \ {t} : due'[c] = due[c]
        PROVE  OthersDue(t) /\ Queued(t)' = Queued(t)
    BY <1>o, QueuesSame DEF OthersDue
  <1>e. ASSUME op[t] = "RequestSynchronousCheckpoint", due[t] = {}
        PROVE  Queued(t) = {}
    BY <1>p, <1>e, PartsDone
  <1>r. ASSUME op'[t] = "RequestSynchronousCheckpoint", todo'[t] = {},
               pc'[t] \in {"scLock", "scRaise", "toSuspended", "scBroadcast"},
               pc'[t] \in NothingDue => due'[t] = {}, due'[t] \subseteq {cur'[t]},
               due'[t] = Queued(t)' \cup raised'[t], Queued(t)' \cap raised'[t] = {}
        PROVE  DueAt(t)'
    <2>1. OwnDue(t)' = {} /\ Asking(t)' = {} /\ Kept(t)' = raised'[t]
      BY <1>r DEF OwnDue, Asking, Kept
    <2>2. Parts(due[t], OwnDue(t), Asking(t), Queued(t), Kept(t))'
      BY <1>r, <2>1 DEF Parts
    <2> QED
      BY <1>r, <2>2 DEF DueAt, Requesting
  <1>n. ASSUME op'[t] = "none", due'[t] = {}, Queued(t)' = {}
        PROVE  DueAt(t)'
    BY <1>n DEF DueAt, Requesting
  <1>u. pc[t] \in {"running", "scLock", "scWait", "scRaise", "scRun", "scBroadcast"} =>
          todo[t] = {}
    BY DEF RaisedAt, InLoop, HasTodo
  <1>l. pc[t] \in {"scLock", "scWait", "scRaise", "scRun", "scBroadcast"} =>
          op[t] = "RequestSynchronousCheckpoint"
    BY DEF OpAt, SynchronousLabels
  <1>x. pc[t] \in {"scLock", "scRaise", "scBroadcast"} => due[t] = {}
    BY <1>d DEF DueAt, NothingDue
  <1> USE DEF threadVars, opVars, Goto
  <1>1. CASE CallSynchronousCheckpoint(t)
    <2>1. /\ UNCHANGED <<checkpoints, due, todo, raised>> /\ pc[t] = "running"
          /\ pc'[t] = "scLock" /\ op'[t] = "RequestSynchronousCheckpoint"
      BY <1>t, <1>1 DEF CallSynchronousCheckpoint
    <2>2. op[t] = "none" /\ raised[t] = {} /\ todo[t] = {}
      BY <1>u, <2>1 DEF OpAt, RaisedAt
    <2>3. due[t] = {} /\ Queued(t) = {}
      BY <1>d, <2>1, <2>2 DEF DueAt, Requesting, FlipRan
    <2>4. OthersDue(t) /\ Queued(t)' = {}
      BY <1>o, <2>1, <2>3
    <2>5. due'[t] = {} /\ todo'[t] = {} /\ raised'[t] = {}
      BY <2>1, <2>2, <2>3
    <2> QED
      BY <1>r, <2>1, <2>4, <2>5
  <1>2. CASE SynchronousReturn(t) \/ SynchronousDone(t) \/ SynchronousBroadcast(t)
    <2>1. /\ UNCHANGED <<checkpoints, due>> /\ pc[t] \in {"scLock", "scWait", "scBroadcast"}
          /\ op'[t] = "none" /\ (pc[t] = "scWait" => due[t] = {})
      BY <1>t, <1>2 DEF SynchronousReturn, SynchronousDone, SynchronousBroadcast
    <2>2. op[t] = "RequestSynchronousCheckpoint" /\ due[t] = {}
      BY <1>l, <1>x, <2>1
    <2>3. OthersDue(t) /\ Queued(t)' = {}
      BY <1>o, <1>e, <2>1, <2>2
    <2>4. due'[t] = {}
      BY <2>1, <2>2
    <2> QED
      BY <1>n, <2>1, <2>3, <2>4
  <1>3. CASE SynchronousRequest(t)
    <2>1. PICK u \in Threads : u = cur[t]
      BY <1>l, <1>p, <1>3 DEF SynchronousRequest
    <2>2. /\ checkpoints' = [checkpoints EXCEPT ![u] = Append(@, t)]
          /\ UNCHANGED <<op, cur, todo, raised>> /\ pc[t] = "scLock" /\ pc'[t] = "toSuspended"
          /\ due'[t] = {u} /\ \A c \in Threads \ {t} : due'[c] = due[c]
      BY <1>t, <1>3, <2>1 DEF SynchronousRequest
    <2>3. /\ op[t] = "RequestSynchronousCheckpoint" /\ due[t] = {} /\ todo[t] = {}
          /\ raised[t] = {}
      BY <1>l, <1>x, <1>u, <2>2 DEF RaisedAt
    <2>4. Queued(t) = {}
      BY <1>e, <2>3
    <2>5. u \notin Queued(t)
      BY <2>4
    <2>6. OthersDue(t) /\ Queued(t)' = Queued(t) \cup {u}
      BY <1>t, <1>d, <2>2, <2>5, QueuesAppend DEF OthersDue
    <2>7. Queued(t)' = {u}
      BY <2>4, <2>6
    <2>8. /\ op'[t] = "RequestSynchronousCheckpoint" /\ todo'[t] = {} /\ raised'[t] = {}
          /\ due'[t] \subseteq {cur'[t]} /\ pc'[t] \notin NothingDue
      BY <2>1, <2>2, <2>3 DEF NothingDue
    <2>9. due'[t] = Queued(t)' \cup raised'[t] /\ Queued(t)' \cap raised'[t] = {}
      BY <2>2, <2>7, <2>8
    <2> QED
      BY <1>r, <2>2, <2>6, <2>8, <2>9
  <1>4. CASE SynchronousRequestFails(t)
    <2>1. /\ UNCHANGED <<checkpoints, op, cur, todo, raised, due>> /\ pc[t] = "scLock"
          /\ pc'[t] = "scRaise"
      BY <1>t, <1>4 DEF SynchronousRequestFails
    <2>2. /\ op[t] = "RequestSynchronousCheckpoint" /\ due[t] = {} /\ todo[t] = {}
          /\ raised[t] = {}
      BY <1>l, <1>x, <1>u, <2>1 DEF RaisedAt
    <2>3. OthersDue(t) /\ Queued(t)' = {}
      BY <1>o, <1>e, <2>1, <2>2
    <2>4. due'[t] = {} /\ todo'[t] = {} /\ raised'[t] = {} /\ op'[t] = op[t]
      BY <2>1, <2>2
    <2> QED
      BY <1>r, <2>1, <2>2, <2>3, <2>4
  <1>5. CASE SynchronousRaise(t)
    <2>1. /\ UNCHANGED <<checkpoints, op, cur, todo>> /\ pc[t] = "scRaise"
          /\ pc'[t] = "toSuspended" /\ raised' = [raised EXCEPT ![t] = @ \cup {cur[t]}]
          /\ due'[t] = {cur[t]} /\ \A c \in Threads \ {t} : due'[c] = due[c]
      BY <1>t, <1>5 DEF SynchronousRaise, Raise
    <2>2. /\ op[t] = "RequestSynchronousCheckpoint" /\ due[t] = {} /\ todo[t] = {}
          /\ raised[t] = {} /\ raised'[t] = raised[t] \cup {cur[t]}
      BY <1>t, <1>l, <1>x, <1>u, <2>1 DEF RaisedAt
    <2>3. OthersDue(t) /\ Queued(t)' = {}
      BY <1>o, <1>e, <2>1, <2>2
    <2>4. /\ op'[t] = op[t] /\ todo'[t] = {} /\ raised'[t] = {cur[t]}
          /\ due'[t] \subseteq {cur'[t]} /\ pc'[t] \notin NothingDue
      BY <2>1, <2>2 DEF NothingDue
    <2>5. due'[t] = Queued(t)' \cup raised'[t] /\ Queued(t)' \cap raised'[t] = {}
      BY <2>1, <2>3, <2>4
    <2> QED
      BY <1>r, <2>1, <2>2, <2>3, <2>4, <2>5
  <1>6. CASE SynchronousRun(t)
    <2>1. /\ UNCHANGED <<checkpoints, op, cur, todo>> /\ pc[t] = "scRun"
          /\ pc'[t] = "scBroadcast" /\ raised' = [raised EXCEPT ![t] = @ \ {cur[t]}]
          /\ due'[t] = {} /\ \A c \in Threads \ {t} : due'[c] = due[c]
      BY <1>t, <1>6 DEF SynchronousRun, Lower
    <2>2. /\ op[t] = "RequestSynchronousCheckpoint" /\ todo[t] = {}
          /\ raised[t] = {cur[t]} /\ raised'[t] = raised[t] \ {cur[t]}
      BY <1>t, <1>l, <1>u, <2>1 DEF RaisedAt
    <2>3. Kept(t) = {cur[t]}
      BY <2>1, <2>2 DEF Kept
    <2>4. /\ due[t] = OwnDue(t) \cup Asking(t) \cup Queued(t) \cup Kept(t)
          /\ Queued(t) \cap Kept(t) = {} /\ due[t] \subseteq {cur[t]}
      BY <1>p, <2>2 DEF Parts
    <2>5. Queued(t) = {}
      BY <2>3, <2>4
    <2>6. OthersDue(t) /\ Queued(t)' = {}
      BY <1>o, <2>1, <2>5
    <2>7. op'[t] = op[t] /\ todo'[t] = {} /\ raised'[t] = {}
      BY <2>1, <2>2
    <2> QED
      BY <1>r, <2>1, <2>2, <2>6, <2>7
  <1> QED
    BY <1>1, <1>2, <1>3, <1>4, <1>5, <1>6 DEF SynchronousStep

\* A thread runs the checkpoint at the head of its queue.
LEMMA RunFunctionDue ==
  ASSUME TypeInv, CheckpointOnlyWhenRunnable, DueInv, NEW t \in Threads, RunCheckpointFunction(t)
  PROVE  DueInv'
  <1>1. /\ checkpoints \in [Threads -> Seq(Threads)] /\ due \in [Threads -> SUBSET Threads]
        /\ checkpoints[t] # <<>> /\ \A u \in Threads : DueAt(u) /\ Once(checkpoints[u])
    BY DEF TypeInv, ThreadType, OpType, CheckpointOnlyWhenRunnable,
       RunCheckpointFunction, DueInv
  <1>2. checkpoints' = [checkpoints EXCEPT ![t] = Tail(@)]
    BY DEF RunCheckpointFunction
  <1>3. PICK h \in Threads : h = Head(checkpoints[t])
    BY <1>1, <1>2, QueuesTail
  <1>4. /\ \A u \in Threads : Once(checkpoints'[u])
        /\ \A d \in Threads : IF d = h THEN t \in Queued(d) /\ Queued(d)' = Queued(d) \ {t}
                                       ELSE Queued(d)' = Queued(d)
    BY <1>1, <1>2, <1>3, QueuesTail
  <1>5. /\ UNCHANGED <<op, cur, todo, raised, pc>> /\ due' = [due EXCEPT ![h] = @ \ {t}]
    BY <1>3 DEF RunCheckpointFunction
  <1>6. ASSUME NEW d \in Threads, d # h PROVE DueAt(d)'
    <2>1. due'[d] = due[d] /\ Queued(d)' = Queued(d)
      BY <1>1, <1>4, <1>5, <1>6
    <2> QED
      BY <1>1, <1>5, <2>1, DueUnmoved
  <1>7. DueAt(h)'
    <2>1. due'[h] = due[h] \ {t} /\ t \in Queued(h) /\ Queued(h)' = Queued(h) \ {t}
      BY <1>1, <1>4, <1>5
    <2>2. Requesting(h) /\ Requesting(h)'
      BY <1>1, <1>5, <2>1 DEF DueAt, Requesting
    <2>3. OwnDue(h)' = OwnDue(h) /\ Asking(h)' = Asking(h) /\ Kept(h)' = Kept(h)
      BY <1>5 DEF OwnDue, Asking, Kept
    <2>4. Parts(due[h], OwnDue(h), Asking(h), Queued(h), Kept(h))
      BY <1>1, <2>2 DEF DueAt
    <2>5. Parts(due[h] \ {t}, OwnDue(h), Asking(h), Queued(h) \ {t}, Kept(h))
      BY <2>1, <2>4, PartsTaken
    <2>6. Parts(due[h], OwnDue(h), Asking(h), Queued(h), Kept(h))'
      BY <2>1, <2>3, <2>5, PartsAfter
    <2>7. /\ pc[h] \in NothingDue => due[h] = {}
          /\ op[h] = "RequestSynchronousCheckpoint" => due[h] \subseteq {cur[h]}
      BY <1>1 DEF DueAt
    <2>8. /\ pc'[h] \in NothingDue => due'[h] = {}
          /\ op'[h] = "RequestSynchronousCheckpoint" => due'[h] \subseteq {cur'[h]}
      BY <1>5, <2>1, <2>7
    <2> QED
      BY <2>2, <2>6, <2>8 DEF DueAt
  <1> QED
    BY <1>4, <1>6, <1>7 DEF DueInv
\* A flip function that is run is due no more.
LEMMA FlipFunctionDue ==
  ASSUME TypeInv, DueInv, NEW t \in Threads, OpAt(t),
         RunFlipFunction(t) \/ FlipOther(t) \/ FlipSelf(t)
  PROVE  DueInv'
  <1>1. pc \in [Threads -> Labels] /\ due \in [Threads -> SUBSET Threads]
    BY DEF TypeInv, OpType
  <1>2. UNCHANGED <<checkpoints, op, cur, todo, raised>>
    BY DEF RunFlipFunction, FlipOther, FlipSelf
  <1>3. \A c \in Threads : due'[c] \subseteq due[c] /\ (op[c] # "FlipThreadRoots" => due'[c] = due[c])
    <2>1. ASSUME NEW u, TakeFlipFunction(u)
          PROVE  \A c \in Threads :
                   due'[c] \subseteq due[c] /\ (op[c] # "FlipThreadRoots" => due'[c] = due[c])
      BY <2>1 DEF TakeFlipFunction
    <2> QED
      BY <2>1 DEF RunFlipFunction, FlipOther, FlipSelf
  <1>4. \/ pc' = pc
        \/ /\ \A c \in Threads \ {t} : pc'[c] = pc[c]
           /\ \/ pc[t] = "runFlip" /\ pc'[t] \in {"running", "stCheck", "stLock", "scRun"}
              \/ pc[t] = "flipOthers" /\ pc'[t] = "flipLower"
    <2>1. RunFlipFunction(t) => RunnableLabel(t) \in {"running", "stCheck", "stLock", "scRun"}
      BY DEF RunnableLabel
    <2> QED
      BY <1>1, <2>1 DEF RunFlipFunction, FlipOther, FlipSelf, Goto
  <1>5. /\ \A c \in Threads : DueAt(c) /\ Queued(c)' = Queued(c)
        /\ \A u \in Threads : Once(checkpoints'[u])
    BY <1>2, QueuesSame DEF DueInv
  <1>6. ASSUME NEW c \in Threads, op[c] = "FlipThreadRoots"
        PROVE  DueAt(c)'
    <2>1. ~Requesting(c) /\ ~Requesting(c)'
      BY <1>2, <1>6 DEF Requesting
    <2>2. pc[c] \in FlipRan => pc'[c] \in FlipRan
      BY <1>4 DEF FlipRan
    <2>3. pc[c] \notin FlipRan => due'[c] = {}
      BY <1>3, <1>5, <2>1 DEF DueAt
    <2> QED
      BY <1>5, <2>1, <2>2, <2>3, DueNone
  <1>7. ASSUME NEW c \in Threads, op[c] # "FlipThreadRoots"
        PROVE  DueAt(c)'
    <2>1. c = t => pc[t] # "flipOthers"
      BY <1>7 DEF OpAt, FlipLabels
    <2>2. \/ pc'[c] = pc[c]
          \/ /\ pc[c] \notin AskingLabels \cup FlipRan
             /\ pc'[c] \notin AskingLabels \cup FlipRan \cup NothingDue
      BY <1>4, <2>1 DEF AskingLabels, FlipRan, NothingDue
    <2>3. /\ op'[c] = op[c] /\ cur'[c] = cur[c] /\ due'[c] = due[c] /\ todo'[c] = todo[c]
          /\ raised'[c] = raised[c] /\ DueAt(c) /\ Queued(c)' = Queued(c)
      BY <1>2, <1>3, <1>5, <1>7
    <2> QED
      BY <2>2, <2>3, DueUnmoved
  <1> QED
    BY <1>5, <1>6, <1>7 DEF DueInv

\* Every step keeps the parts of every checkpoint.
LEMMA DueKept ==
  ASSUME StopInv, DueInv, NEW t \in Threads, ThreadStep(t) \/ AttachStep(t)
  PROVE  DueInv'
  <1>1. /\ ControlInv /\ TypeInv /\ CheckpointOnlyWhenRunnable /\ OpAt(t) /\ CurAt(t)
        /\ RaisedAt(t)
    BY DEF StopInv, CountsInv, ControlInv, LocalInv
  <1>2. \A c \in Threads \ {t} : pc'[c] = pc[c] /\ op'[c] = op[c] /\ cur'[c] = cur[c]
    <2>1. Frame(t)
      BY <1>1, StepControl DEF ControlStep
    <2> QED
      BY <1>1, <2>1 DEF Frame, TypeInv, OpType
  <1>3. \A c \in Threads \ {t} : Requesting(c) => todo'[c] = todo[c] /\ raised'[c] = raised[c]
    <2>1. CASE ThreadStep(t)
      <3>1. RaisedFrame(t)
        BY <2>1, StepEffect DEF OperationStep
      <3> QED
        BY <1>1, <3>1 DEF RaisedFrame, TypeInv, OpType
    <2>2. CASE Register(t)
      BY <2>2 DEF Register, SuspendingAll, Requesting
    <2>3. CASE CallUnregister(t) \/ Unregister(t)
      BY <2>3 DEF CallUnregister, Unregister
    <2> QED
      BY <2>1, <2>2, <2>3 DEF AttachStep
  <1>4. \A c \in Threads : DueAt(c)
    BY DEF DueInv
  <1>5. ASSUME DueAt(t)', OthersDue(t) PROVE DueInv'
    <2>1. ASSUME NEW c \in Threads \ {t} PROVE DueAt(c)'
      BY <1>2, <1>3, <1>4, <1>5, <2>1, DueUnmoved DEF OthersDue
    <2> QED
      BY <1>5, <2>1 DEF DueInv, OthersDue
  <1>6. ASSUME DueFrame(t) PROVE OthersDue(t) /\ Queued(t)' = Queued(t)
    <2>1. checkpoints' = checkpoints /\ \A c \in Threads \ {t} : due'[c] = due[c]
      BY <1>1, <1>6 DEF DueFrame, TypeInv, OpType
    <2> QED
      BY <2>1, QueuesSame DEF OthersDue
  <1>7. CASE DueFrame(t) /\ NoRequest(t)
    <2>1. pc'[t] \in FlipRan \/ due'[t] = {}
      BY <1>4, <1>7 DEF NoRequest, DueAt
    <2>2. DueAt(t)'
      BY <1>4, <1>6, <1>7, <2>1, DueNone DEF NoRequest
    <2> QED
      BY <1>5, <1>6, <1>7, <2>2
  <1>8. CASE DueFrame(t) /\ SameParts(t)
    <2>1. DueAt(t)'
      BY <1>4, <1>6, <1>8, DueUnmoved DEF SameParts
    <2> QED
      BY <1>5, <1>6, <1>8, <2>1
  <1>9. CASE UNCHANGED <<checkpoints, due, op, cur, todo, raised, pc>>
    <2>1. OthersDue(t) /\ Queued(t)' = Queued(t)
      BY <1>9, QueuesSame DEF OthersDue
    <2>2. DueAt(t)'
      BY <1>4, <1>9, <2>1, DueUnmoved
    <2> QED
      BY <1>5, <2>1, <2>2
  <1>10. CASE RunCheckpointFunction(t)
    BY <1>1, <1>10, RunFunctionDue
  <1>11. CASE RunFlipFunction(t) \/ FlipOther(t) \/ FlipSelf(t)
    BY <1>1, <1>11, FlipFunctionDue
  <1>12. CASE RunCheckpointStep(t) /\ ~RunCheckpointBroadcast(t)
    BY <1>1, <1>5, <1>12, RunCheckpointDue
  <1>13. CASE SynchronousStep(t) /\ ~SynchronousSuspended(t)
    BY <1>1, <1>5, <1>13, SynchronousDue
  <1> QED
    BY <1>1, <1>7, <1>8, <1>9, <1>10, <1>11, <1>12, <1>13, DueEffect DEF DueStep

-----------------------------------------------------------------------------
(* Flip functions                                                          *)

\* Where FlipThreadRoots has still to run the flip functions of the threads it keeps
\* suspended, and its own.
RunsFlips == {"flipEnd", "flipShared", "flipOthers"}

\* The threads the flip of a caller has still to be run on.
FlipDue(c) == IF op[c] = "FlipThreadRoots" THEN due[c] ELSE {}

\* Where a thread waits for the end of a flip.
WaitsAt(t) ==
  state[t] = "WaitingForGcThreadFlip" =>
    \/ pc[t] \in ResumingLabels \cup {"jniWait"}
    \/ pc[t] \in {"passLoop", "passSuspended"} /\ cont[t] = "jniWait"

\* Each of them has its flip function run by the caller, or before it runs on.
FlipAt(c) ==
  \A t \in FlipDue(c) : \/ pc[c] \in RunsFlips /\ t \in todo[c] \cup {c}
                        \/ pc[t] \in ResumingLabels
                        \/ state[t] = "WaitingForGcThreadFlip"

\* The inductive part of FlipBeforeManagedCode and ReferencedAttached.
FlipInv ==
  \A t \in Threads :
    /\ WaitsAt(t) /\ FlipAt(t)
    /\ flip[t] <=> \E c \in Threads : t \in FlipDue(c)

\* A step that does not take a thread past the point where it runs its flip function ...
MoveStep(t) ==
  /\ WaitsAt(t)'
  /\ pc[t] \in ResumingLabels => pc'[t] \in ResumingLabels
  /\ state[t] = "WaitingForGcThreadFlip" =>
       state'[t] = "WaitingForGcThreadFlip" \/ pc'[t] \in ResumingLabels

\* ... and neither installs nor runs any.
QuietFlip(t) ==
  /\ flip' = flip
  /\ \A c \in Threads \ {t} : due'[c] = due[c]
  /\ \/ due'[t] = due[t] /\ (op'[t] = op[t] \/ due[t] = {})
     \/ op[t] # "FlipThreadRoots" /\ op'[t] # "FlipThreadRoots"
  /\ pc[t] \in RunsFlips => pc'[t] \in RunsFlips /\ todo'[t] = todo[t]
  /\ MoveStep(t)

\* The steps that install or run flip functions, and the others.
FlipsStep(t) ==
  \/ QuietFlip(t) \/ RunCheckpointFunction(t) \/ FlipResume(t)
  \/ RunFlipFunction(t) \/ FlipOther(t) \/ FlipSelf(t)

\* A thread that is not waiting and does not start to.
LEMMA MovesOn ==
  ASSUME NEW t \in Threads, WaitsAt(t), state'[t] \in {state[t], "Suspended", "Runnable"},
         pc[t] \notin ResumingLabels \cup {"jniWait", "passLoop", "passSuspended"}
  PROVE  MoveStep(t)
  <1>1. state[t] # "WaitingForGcThreadFlip"
    BY DEF WaitsAt
  <1>2. state'[t] # "WaitingForGcThreadFlip"
    BY <1>1
  <1> QED
    BY <1>1, <1>2 DEF MoveStep, WaitsAt

\* The transitions of a thread that run nothing.
LEMMA TransitionFlips ==
  ASSUME TypeInv, NEW t \in Threads, WaitsAt(t), TransitionStep(t)
  PROVE  FlipsStep(t)
  <1>1. /\ pc \in [Threads -> Labels] /\ cont \in [Threads -> ContLabels]
        /\ due \in [Threads -> SUBSET Threads] /\ state \in [Threads -> States]
    BY DEF TypeInv, OpType, ThreadType
  <1>2. ASSUME UNCHANGED <<opVars, flip>>, pc[t] \in RunsFlips => pc'[t] = pc[t], MoveStep(t)
        PROVE  FlipsStep(t)
    BY <1>2 DEF FlipsStep, QuietFlip, opVars
  <1> USE DEF threadVars
  <1>3. CASE LeaveRunnable(t) \/ FullSuspendCheck(t) \/ EnterRunnable(t)
    <2>1. UNCHANGED <<opVars, flip, state>> /\ pc[t] \in {"running", "native"}
      BY <1>3 DEF LeaveRunnable, FullSuspendCheck, EnterRunnable
    <2>2. MoveStep(t)
      BY <2>1, MovesOn DEF ResumingLabels
    <2> QED
      BY <1>2, <2>1, <2>2 DEF RunsFlips
  <1>4. CASE SpuriousResume(t)
    <2>1. UNCHANGED <<opVars, flip, state, pc, cont>>
      BY <1>4 DEF SpuriousResume
    <2>2. MoveStep(t)
      BY <2>1 DEF MoveStep, WaitsAt
    <2> QED
      BY <1>2, <2>1, <2>2
  <1>5. CASE TransitionToSuspended(t)
    <2>1. /\ UNCHANGED <<opVars, flip, cont>> /\ pc[t] = "toSuspended" /\ pc'[t] = "passLoop"
          /\ state'[t] = "WaitingForGcThreadFlip" => cont[t] = "jniWait"
      BY <1>1, <1>5 DEF TransitionToSuspended, Goto
    <2>2. state[t] # "WaitingForGcThreadFlip"
      BY <2>1 DEF WaitsAt, ResumingLabels
    <2>3. MoveStep(t)
      BY <2>1, <2>2 DEF MoveStep, WaitsAt, ResumingLabels
    <2> QED
      BY <1>2, <2>1, <2>3 DEF RunsFlips
  <1>6. CASE PassLoopExit(t)
    <2>1. UNCHANGED <<opVars, flip, state>> /\ pc[t] = "passLoop" /\ pc'[t] = cont[t]
      BY <1>1, <1>6 DEF PassLoopExit, Goto
    <2>2. MoveStep(t)
      BY <2>1 DEF MoveStep, WaitsAt, ResumingLabels
    <2> QED
      BY <1>2, <2>1, <2>2 DEF RunsFlips
  <1>7. CASE ClaimBarriers(t) \/ PassBarrier(t)
    <2>1. /\ UNCHANGED <<opVars, flip, state, cont>>
          /\ \/ pc[t] \in {"passLoop", "passSuspended"} /\ pc'[t] \in {"passLoop", "passSuspended"}
             \/ pc[t] \in {"toRunnable", "passRunnable"} /\ pc'[t] \in {"toRunnable", "passRunnable"}
      <3>1. CASE ClaimBarriers(t)
        BY <1>1, <3>1 DEF ClaimBarriers, Goto
      <3>2. CASE PassBarrier(t)
        BY <1>1, <3>2 DEF PassBarrier, Goto
      <3> QED
        BY <1>7, <3>1, <3>2
    <2>2. MoveStep(t)
      BY <2>1 DEF MoveStep, WaitsAt, ResumingLabels
    <2> QED
      BY <1>2, <2>1, <2>2 DEF RunsFlips
  <1>8. CASE BecomeRunnable(t) \/ WaitForResume(t) \/ ResumeWaitExit(t)
    <2>1. /\ UNCHANGED <<opVars, flip>> /\ pc[t] \in {"toRunnable", "resumeWait"}
          /\ pc'[t] \in {"runFlip", "toRunnable", "resumeWait"}
      BY <1>1, <1>8 DEF BecomeRunnable, WaitForResume, ResumeWaitExit, Goto
    <2>2. MoveStep(t)
      BY <2>1 DEF MoveStep, WaitsAt, ResumingLabels
    <2> QED
      BY <1>2, <2>1, <2>2 DEF RunsFlips
  <1> QED
    BY <1>3, <1>4, <1>5, <1>6, <1>7, <1>8 DEF TransitionStep, FlipsStep

\* The steps of the operations, of attaching and of detaching.
LEMMA OperationFlips ==
  ASSUME TypeInv, NEW t \in Threads, OpAt(t), DueAt(t), WaitsAt(t),
         \/ SuspendAllStep(t) \/ RunCheckpointStep(t) \/ SuspendThreadStep(t)
         \/ SynchronousStep(t) \/ AttachStep(t)
  PROVE  FlipsStep(t)
  <1>1. /\ pc \in [Threads -> Labels] /\ op \in [Threads -> OpNames \cup {"none"}]
        /\ due \in [Threads -> SUBSET Threads] /\ state \in [Threads -> States]
    BY DEF TypeInv, OpType, ThreadType
  <1> DEFINE Calm == /\ flip' = flip /\ state'[t] \in {state[t], "Suspended"}
                     /\ \A c \in Threads \ {t} : due'[c] = due[c]
  <1>2. ASSUME Calm, pc[t] \notin ResumingLabels \cup {"jniWait", "passLoop", "passSuspended"},
               pc[t] \notin RunsFlips,
               \/ due'[t] = due[t] /\ op'[t] = op[t]
               \/ op[t] # "FlipThreadRoots" /\ op'[t] # "FlipThreadRoots"
        PROVE  FlipsStep(t)
    <2>1. MoveStep(t)
      BY <1>2, MovesOn
    <2> QED
      BY <1>2, <2>1 DEF FlipsStep, QuietFlip
  <1> USE DEF threadVars, opVars
  <1>3. CASE SuspendAllStep(t)
    <2>1. /\ UNCHANGED <<flip, due, state>>
          /\ \/ pc[t] \in SuspendAllLabels /\ op' = op
             \/ pc[t] = "native" /\ op'[t] = "SuspendAll"
             \/ pc[t] = "raLock" /\ op'[t] = "none"
      <3>1. CASE CallSuspendAll(t) \/ ResumeAll(t)
        BY <1>1, <3>1 DEF CallSuspendAll, ResumeAll
      <3>2. CASE SuspendAllBegin(t) \/ SuspendAllRaise(t) \/ SuspendAllRetry(t)
        BY <3>2 DEF SuspendAllBegin, SuspendAllRaise, SuspendAllRetry, SuspendAllLabels
      <3>3. CASE SuspendAllRaiseAgain(t) \/ SuspendAllCheck(t) \/ SuspendAllUnlock(t)
        BY <3>3 DEF SuspendAllRaiseAgain, SuspendAllCheck, SuspendAllUnlock,
           SuspendAllLabels
      <3>4. CASE SuspendAllWait(t) \/ SuspendAllExclusive(t) \/ ResumeAllUnlock(t)
        BY <3>4 DEF SuspendAllWait, SuspendAllExclusive, ResumeAllUnlock,
           SuspendAllLabels
      <3> QED
        BY <1>3, <3>1, <3>2, <3>3, <3>4 DEF SuspendAllStep
    <2>2. /\ pc[t] \notin ResumingLabels \cup {"jniWait", "passLoop", "passSuspended"}
          /\ pc[t] \notin RunsFlips
      BY <2>1 DEF SuspendAllLabels, ResumingLabels, RunsFlips
    <2>3. \/ due'[t] = due[t] /\ op'[t] = op[t]
          \/ op[t] # "FlipThreadRoots" /\ op'[t] # "FlipThreadRoots"
      BY <2>1 DEF OpAt
    <2> QED
      BY <1>2, <2>1, <2>2, <2>3
  <1>4. ASSUME Calm, op[t] # "FlipThreadRoots", op'[t] # "FlipThreadRoots",
               pc[t] \in {"native", "running", "detached", "unregister", "rcWait", "stLock",
                          "stRetry", "stCheck", "stHave", "stBroadcast"}
                         \cup CheckpointLabels \cup SynchronousLabels
        PROVE  FlipsStep(t)
    <2>1. /\ pc[t] \notin ResumingLabels \cup {"jniWait", "passLoop", "passSuspended"}
          /\ pc[t] \notin RunsFlips
      BY <1>4 DEF CheckpointLabels, SynchronousLabels, ResumingLabels, RunsFlips
    <2> QED
      BY <1>2, <1>4, <2>1
  <1>5. /\ pc[t] \in {"native", "running", "detached", "unregister", "rcWait", "stLock",
                      "stRetry", "stCheck", "stHave", "stBroadcast"}
                     \cup CheckpointLabels \cup SynchronousLabels => op[t] # "FlipThreadRoots"
    BY DEF OpAt
  <1>6. CASE RunCheckpointStep(t)
    <2>1. /\ Calm /\ op'[t] \in {op[t], "RunCheckpoint", "none"}
          /\ pc[t] \in {"native", "running", "rcWait"} \cup CheckpointLabels
      <3>1. CASE CallRunCheckpoint(t) \/ RunCheckpointBegin(t) \/ RunCheckpointDone(t)
        BY <1>1, <3>1 DEF CallRunCheckpoint, RunCheckpointBegin, RunCheckpointDone,
           CheckpointLabels
      <3>2. CASE RequestCheckpoint(t) \/ RequestCheckpointFails(t) \/ KeepSuspended(t)
                 \/ KeepSuspendedRetry(t)
        BY <1>1, <3>2 DEF RequestCheckpoint, RequestCheckpointFails, KeepSuspended,
           KeepSuspendedRetry, CheckpointLabels
      <3>3. CASE RunCheckpointOnSelf(t) \/ RunCheckpointLower(t) \/ RunCheckpointBroadcast(t)
        BY <1>1, <3>3 DEF RunCheckpointOnSelf, RunCheckpointLower,
           RunCheckpointBroadcast, CheckpointLabels
      <3>4. CASE RunCheckpointOnOther(t)
        BY <1>1, <3>4 DEF RunCheckpointOnOther, CheckpointLabels
      <3> QED
        BY <1>6, <3>1, <3>2, <3>3, <3>4 DEF RunCheckpointStep
    <2> QED
      BY <1>4, <1>5, <2>1
  <1>7. CASE SuspendThreadStep(t)
    <2>1. /\ Calm /\ op'[t] \in {op[t], "SuspendThreadByThreadId", "none"}
          /\ pc[t] \in {"native", "stLock", "stRetry", "stCheck", "stHave", "stBroadcast"}
      <3>1. CASE CallSuspendThread(t) \/ SuspendTimeout(t) \/ NoSuchThread(t) \/ BackOff(t)
        BY <1>1, <3>1 DEF CallSuspendThread, SuspendTimeout, NoSuchThread, BackOff
      <3>2. CASE RequestSuspend(t) \/ RequestSuspendRetry(t) \/ SuspendThreadAgain(t)
        BY <1>1, <3>2 DEF RequestSuspend, RequestSuspendRetry, SuspendThreadAgain
      <3>3. CASE CheckSuspended(t) \/ Resume(t) \/ ResumeBroadcast(t)
        BY <1>1, <3>3 DEF CheckSuspended, Resume, ResumeBroadcast
      <3> QED
        BY <1>7, <3>1, <3>2, <3>3 DEF SuspendThreadStep
    <2> QED
      BY <1>4, <1>5, <2>1
  <1>8. CASE SynchronousStep(t)
    <2>1. /\ Calm /\ op'[t] \in {op[t], "RequestSynchronousCheckpoint", "none"}
          /\ pc[t] \in {"running"} \cup SynchronousLabels
      <3>1. CASE CallSynchronousCheckpoint(t) \/ SynchronousReturn(t) \/ SynchronousRequest(t)
        BY <1>1, <3>1 DEF CallSynchronousCheckpoint, SynchronousReturn,
           SynchronousRequest, SynchronousLabels
      <3>2. CASE SynchronousDone(t) \/ SynchronousRequestFails(t) \/ SynchronousRaise(t)
        BY <1>1, <3>2 DEF SynchronousDone, SynchronousRequestFails, SynchronousRaise,
           SynchronousLabels
      <3>3. CASE SynchronousSuspended(t) \/ SynchronousRun(t) \/ SynchronousBroadcast(t)
        BY <1>1, <3>3 DEF SynchronousSuspended, SynchronousRun, SynchronousBroadcast,
           SynchronousLabels
      <3> QED
        BY <1>8, <3>1, <3>2, <3>3 DEF SynchronousStep
    <2> QED
      BY <1>4, <1>5, <2>1
  <1>9. CASE AttachStep(t)
    <2>1. /\ Calm /\ op'[t] \in {op[t], "Detach", "none"}
          /\ pc[t] \in {"native", "detached", "unregister"}
      <3>1. CASE Register(t)
        BY <1>1, <3>1 DEF Register
      <3>2. CASE CallUnregister(t)
        BY <1>1, <3>2 DEF CallUnregister
      <3>3. CASE Unregister(t)
        BY <1>1, <3>3 DEF Unregister
      <3> QED
        BY <1>9, <3>1, <3>2, <3>3 DEF AttachStep
    <2> QED
      BY <1>4, <1>5, <2>1
  <1> QED
    BY <1>3, <1>6, <1>7, <1>8, <1>9

\* The steps of JNI critical sections and of FlipThreadRoots that run no flip function.
LEMMA FlipFlips ==
  ASSUME TypeInv, NEW t \in Threads, OpAt(t), DueAt(t), WaitsAt(t), FlipStep(t)
  PROVE  FlipsStep(t)
  <1>1. /\ pc \in [Threads -> Labels] /\ op \in [Threads -> OpNames \cup {"none"}]
        /\ due \in [Threads -> SUBSET Threads] /\ state \in [Threads -> States]
    BY DEF TypeInv, OpType, ThreadType
  <1>2. ASSUME UNCHANGED <<flip, due>>, op'[t] = op[t] \/ due[t] = {}, MoveStep(t),
               pc[t] \in RunsFlips => pc'[t] \in RunsFlips /\ todo'[t] = todo[t]
        PROVE  FlipsStep(t)
    BY <1>2 DEF FlipsStep, QuietFlip
  <1>3. ASSUME state' = state, pc[t] \in {"native", "running", "saHeld"} \cup FlipLabels
        PROVE  MoveStep(t)
    <2>1. pc[t] \notin ResumingLabels \cup {"jniWait", "passLoop", "passSuspended"}
      BY <1>3 DEF FlipLabels, ResumingLabels
    <2> QED
      BY <1>3, <2>1, MovesOn
  <1> USE DEF threadVars, opVars
  <1>4. CASE IncrementDisableThreadFlip(t) \/ DecrementDisableThreadFlip(t)
    <2>1. UNCHANGED <<flip, due, op, state>> /\ pc[t] = "running"
      BY <1>4 DEF IncrementDisableThreadFlip, DecrementDisableThreadFlip
    <2> QED
      BY <1>2, <1>3, <2>1 DEF RunsFlips
  <1>5. CASE JniCriticalWait(t) \/ JniCriticalEnter(t)
    <2>1. /\ UNCHANGED <<flip, due, op, state, cont>> /\ pc[t] = "jniWait"
          /\ pc'[t] \in {"jniWait", "toRunnable"}
      BY <1>1, <1>5 DEF JniCriticalWait, JniCriticalEnter, Goto
    <2>2. MoveStep(t)
      BY <2>1 DEF MoveStep, WaitsAt, ResumingLabels
    <2> QED
      BY <1>2, <2>1, <2>2 DEF RunsFlips
  <1>6. CASE CallFlipThreadRoots(t)
    <2>1. UNCHANGED <<flip, due, state>> /\ pc[t] = "native"
      BY <1>6 DEF CallFlipThreadRoots
    <2>2. due[t] = {}
      BY <2>1 DEF DueAt, OpAt, Requesting, FlipRan
    <2> QED
      BY <1>2, <1>3, <2>1, <2>2 DEF RunsFlips
  <1>7. CASE ThreadFlipBeginWait(t) \/ ThreadFlipBegin(t) \/ FlipCallback(t)
    <2>1. UNCHANGED <<flip, due, op, state>> /\ pc[t] \in {"flipBegin", "saHeld"}
      BY <1>7 DEF ThreadFlipBeginWait, ThreadFlipBegin, FlipCallback
    <2> QED
      BY <1>2, <1>3, <2>1 DEF RunsFlips, FlipLabels
  <1>8. CASE ThreadFlipEnd(t) \/ FlipSharedLock(t)
    <2>1. /\ UNCHANGED <<flip, due, op, state, todo>> /\ pc[t] \in {"flipEnd", "flipShared"}
          /\ pc'[t] \in {"flipShared", "flipOthers"}
      BY <1>1, <1>8 DEF ThreadFlipEnd, FlipSharedLock, Goto
    <2> QED
      BY <1>2, <1>3, <2>1 DEF RunsFlips, FlipLabels
  <1>9. CASE FlipLower(t) \/ FlipDone(t)
    <2>1. /\ UNCHANGED <<flip, due, state>> /\ pc[t] \in {"flipLower", "flipWait"}
          /\ op'[t] = op[t] \/ due[t] = {}
      BY <1>9 DEF FlipLower, FlipDone
    <2> QED
      BY <1>2, <1>3, <2>1 DEF RunsFlips, FlipLabels
  <1> QED
    BY <1>4, <1>5, <1>6, <1>7, <1>8, <1>9 DEF FlipStep, FlipsStep

\* A thread takes a flip function: it is run for every flip it was due for.
LEMMA FlipTaken ==
  ASSUME TypeInv, FlipInv, NEW u \in Threads, TakeFlipFunction(u), op' = op
  PROVE  /\ \A c \in Threads : FlipDue(c)' = FlipDue(c) \ {u}
         /\ \A v \in Threads : flip'[v] <=> \E c \in Threads : v \in FlipDue(c)'
  <1>1. flip \in [Threads -> BOOLEAN] /\ due \in [Threads -> SUBSET Threads]
    BY DEF TypeInv, ThreadType, OpType
  <1>2. \A v \in Threads : flip[v] <=> \E c \in Threads : v \in FlipDue(c)
    BY DEF FlipInv
  <1>3. ASSUME NEW c \in Threads PROVE FlipDue(c)' = FlipDue(c) \ {u}
    <2>1. due'[c] = IF flip[u] /\ op[c] = "FlipThreadRoots" THEN due[c] \ {u} ELSE due[c]
      BY DEF TakeFlipFunction
    <2>2. CASE flip[u]
      BY <2>1, <2>2 DEF FlipDue
    <2>3. CASE ~flip[u]
      <3>1. u \notin FlipDue(c)
        BY <1>2, <2>3
      <3>2. FlipDue(c)' = FlipDue(c)
        BY <2>1, <2>3 DEF FlipDue
      <3> QED
        BY <3>1, <3>2
    <2> QED
      BY <2>2, <2>3
  <1>4. ASSUME NEW v \in Threads PROVE flip'[v] <=> \E c \in Threads : v \in FlipDue(c)'
    <2>1. flip'[v] <=> flip[v] /\ v # u
      BY <1>1 DEF TakeFlipFunction
    <2> QED
      BY <1>2, <1>3, <2>1
  <1> QED
    BY <1>3, <1>4

\* What the other threads are at is the same after a step ...
OthersWait(t) ==
  \A u \in Threads \ {t} : /\ pc'[u] = pc[u] /\ cont'[u] = cont[u] /\ state'[u] = state[u]
                           /\ op'[u] = op[u] /\ todo'[u] = todo[u]

\* ... so that a thread that waits still waits.
LEMMA OthersWaiting ==
  ASSUME FlipInv, NEW t \in Threads, OthersWait(t)
  PROVE  \A u \in Threads \ {t} : WaitsAt(u)'
  BY DEF FlipInv, OthersWait, WaitsAt

\* A step that installs and runs no flip function.
LEMMA QuietFlipKept ==
  ASSUME TypeInv, FlipInv, NEW t \in Threads, OthersWait(t), flip' = flip, MoveStep(t),
         \A c \in Threads : FlipDue(c)' = FlipDue(c),
         pc[t] \in RunsFlips => pc'[t] \in RunsFlips /\ todo'[t] = todo[t]
  PROVE  FlipInv'
  <1>1. \A u \in Threads : WaitsAt(u)'
    BY OthersWaiting DEF MoveStep
  <1>2. \A u \in Threads : flip'[u] <=> \E c \in Threads : u \in FlipDue(c)'
    BY DEF FlipInv
  <1>3. \A u \in Threads : /\ pc[u] \in ResumingLabels => pc'[u] \in ResumingLabels
                           /\ state[u] = "WaitingForGcThreadFlip" =>
                                \/ state'[u] = "WaitingForGcThreadFlip"
                                \/ pc'[u] \in ResumingLabels
                           /\ pc[u] \in RunsFlips => pc'[u] \in RunsFlips /\ todo'[u] = todo[u]
    BY DEF MoveStep, OthersWait
  <1>4. \A u \in Threads : FlipDue(u) \subseteq Threads
    BY DEF TypeInv, OpType, FlipDue
  <1>5. ASSUME NEW c \in Threads, NEW u \in FlipDue(c)'
        PROVE  \/ pc'[c] \in RunsFlips /\ u \in todo'[c] \cup {c}
               \/ pc'[u] \in ResumingLabels
               \/ state'[u] = "WaitingForGcThreadFlip"
    <2>1. u \in FlipDue(c) /\ u \in Threads
      BY <1>4, <1>5
    <2>2. \/ pc[c] \in RunsFlips /\ u \in todo[c] \cup {c}
          \/ pc[u] \in ResumingLabels
          \/ state[u] = "WaitingForGcThreadFlip"
      BY <2>1 DEF FlipInv, FlipAt
    <2> QED
      BY <1>3, <2>1, <2>2
  <1>6. \A c \in Threads : FlipAt(c)'
    BY <1>5 DEF FlipAt
  <1> QED
    BY <1>1, <1>2, <1>6 DEF FlipInv

\* A step that runs one.
LEMMA TakenKept ==
  ASSUME TypeInv, FlipInv, NEW t \in Threads, OthersWait(t), NEW u \in Threads,
         TakeFlipFunction(u), UNCHANGED <<op, todo, state, cont>>, WaitsAt(t)',
         pc'[t] = pc[t] \/ u = t,
         pc[t] \in RunsFlips /\ pc'[t] \notin RunsFlips => \A v \in todo[t] : ~flip[v]
  PROVE  FlipInv'
  <1>1. /\ \A c \in Threads : FlipDue(c)' = FlipDue(c) \ {u}
        /\ \A v \in Threads : flip'[v] <=> \E c \in Threads : v \in FlipDue(c)'
    BY FlipTaken
  <1>2. \A v \in Threads : WaitsAt(v)'
    BY OthersWaiting
  <1>3. \A c \in Threads : FlipDue(c) \subseteq Threads
    BY DEF TypeInv, OpType, FlipDue
  <1>4. ASSUME NEW c \in Threads, NEW v \in FlipDue(c)'
        PROVE  \/ pc'[c] \in RunsFlips /\ v \in todo'[c] \cup {c}
               \/ pc'[v] \in ResumingLabels
               \/ state'[v] = "WaitingForGcThreadFlip"
    <2>1. v \in FlipDue(c) /\ v \in Threads /\ v # u /\ pc'[v] = pc[v] /\ flip[v]
      <3>1. v \in FlipDue(c) /\ v \in Threads /\ v # u
        BY <1>1, <1>3, <1>4
      <3> QED
        BY <3>1 DEF OthersWait, FlipInv
    <2>2. \/ pc[c] \in RunsFlips /\ v \in todo[c] \cup {c}
          \/ pc[v] \in ResumingLabels
          \/ state[v] = "WaitingForGcThreadFlip"
      BY <2>1 DEF FlipInv, FlipAt
    <2>3. CASE pc[c] \in RunsFlips /\ v \in todo[c] \cup {c}
      <3>1. CASE c = t /\ pc'[t] \notin RunsFlips
        <4>1. v \notin todo[t] /\ v # t
          BY <2>1, <2>3, <3>1
        <4> QED
          BY <2>3, <3>1, <4>1
      <3>2. CASE c # t \/ pc'[t] \in RunsFlips
        BY <2>3, <3>2 DEF OthersWait
      <3> QED
        BY <3>1, <3>2
    <2> QED
      BY <2>1, <2>2, <2>3
  <1>5. \A c \in Threads : FlipAt(c)'
    BY <1>4 DEF FlipAt
  <1> QED
    BY <1>1, <1>2, <1>5 DEF FlipInv

\* FlipThreadRoots installs them: in the middle of its own flip none is left of another.
LEMMA ResumeFlipKept ==
  ASSUME TypeInv, FlipInv, OneFlip, NEW t \in Threads, OpAt(t), DueAt(t), OthersWait(t),
         FlipResume(t)
  PROVE  FlipInv'
  <1>1. /\ flip \in [Threads -> BOOLEAN] /\ due \in [Threads -> SUBSET Threads]
        /\ todo \in [Threads -> SUBSET Threads] /\ list \subseteq Threads
        /\ pc \in [Threads -> Labels]
    BY DEF TypeInv, ThreadType, OpType, ListType
  <1>2. /\ pc[t] = "flipResume" /\ pc'[t] = "flipEnd" /\ UNCHANGED <<state, cont, op>>
        /\ flip' = [u \in Threads |-> u \in list \/ flip[u]]
        /\ todo'[t] = list \ ({t} \cup ResumedEarly(t))
        /\ due' = [due EXCEPT ![t] = list]
    BY <1>1 DEF FlipResume, Goto
  <1>3. op[t] = "FlipThreadRoots" /\ due[t] = {}
    BY <1>2 DEF OpAt, DueAt, FlipLabels, Requesting, FlipRan
  <1>4. \A c \in Threads \ {t} : op[c] # "FlipThreadRoots"
    BY <1>3 DEF OneFlip
  <1>5. FlipDue(t)' = list /\ \A c \in Threads \ {t} : FlipDue(c)' = {} /\ FlipDue(c) = {}
    BY <1>1, <1>2, <1>3, <1>4 DEF FlipDue
  <1>6. \A u \in Threads : ~flip[u]
    <2>1. FlipDue(t) = {}
      BY <1>3 DEF FlipDue
    <2> QED
      BY <1>5, <2>1 DEF FlipInv
  <1>7. \A u \in Threads : flip'[u] <=> \E c \in Threads : u \in FlipDue(c)'
    BY <1>2, <1>5, <1>6
  <1>8. WaitsAt(t)'
    BY <1>2, MovesOn DEF FlipInv, MoveStep, ResumingLabels
  <1>9. \A u \in Threads : WaitsAt(u)'
    BY <1>8, OthersWaiting
  <1>10. ASSUME NEW u \in list
         PROVE  \/ u \in todo'[t] \cup {t}
                \/ pc'[u] \in ResumingLabels
                \/ state'[u] = "WaitingForGcThreadFlip"
    <2>1. CASE u \in ResumedEarly(t)
      <3>1. u \in Threads \ {t} /\ (state[u] = "WaitingForGcThreadFlip" \/ pc[u] = "resumeWait")
        BY <1>1, <2>1 DEF ResumedEarly, IsTransitioningToRunnable
      <3> QED
        BY <3>1 DEF OthersWait, ResumingLabels
    <2>2. CASE u \notin ResumedEarly(t)
      BY <1>2, <1>10, <2>2
    <2> QED
      BY <2>1, <2>2
  <1>11. \A c \in Threads : FlipAt(c)'
    BY <1>2, <1>5, <1>10 DEF FlipAt, RunsFlips
  <1> QED
    BY <1>7, <1>9, <1>11 DEF FlipInv
\* Every step keeps the invariant of the flip functions.
LEMMA FlipsKept ==
  ASSUME StopInv, DueInv, CriticalInv, FlipInv, NEW t \in Threads, ThreadStep(t) \/ AttachStep(t)
  PROVE  FlipInv'
  <1>1. /\ ControlInv /\ TypeInv /\ CheckpointOnlyWhenRunnable /\ OpAt(t) /\ StateAt(t)
        /\ DueAt(t) /\ WaitsAt(t) /\ OneFlip
    BY DEF StopInv, CountsInv, ControlInv, LocalInv, DueInv, FlipInv, CriticalInv
  <1>2. /\ pc \in [Threads -> Labels] /\ due \in [Threads -> SUBSET Threads]
        /\ checkpoints \in [Threads -> Seq(Threads)]
    BY <1>1 DEF TypeInv, OpType, ThreadType
  <1>3. OthersWait(t)
    <2>1. Frame(t)
      BY <1>1, StepControl DEF ControlStep
    <2>2. \A u \in Threads \ {t} : todo'[u] = todo[u]
      <3>1. CASE ThreadStep(t)
        <4>1. RaisedFrame(t)
          BY <3>1, StepEffect DEF OperationStep
        <4> QED
          BY <1>1, <4>1 DEF RaisedFrame, TypeInv, OpType
      <3>2. CASE AttachStep(t)
        BY <3>2 DEF AttachStep, Register, CallUnregister, Unregister, opVars
      <3> QED
        BY <3>1, <3>2
    <2>3. /\ pc \in [Threads -> Labels] /\ cont \in [Threads -> ContLabels]
          /\ state \in [Threads -> States] /\ op \in [Threads -> OpNames \cup {"none"}]
      BY <1>1 DEF TypeInv, OpType, ThreadType
    <2>4. \A u \in Threads \ {t} : pc'[u] = pc[u] /\ cont'[u] = cont[u]
      BY <2>1, <2>3 DEF Frame
    <2>5. \A u \in Threads \ {t} : state'[u] = state[u] /\ op'[u] = op[u]
      BY <2>1, <2>3 DEF Frame
    <2> QED
      BY <2>2, <2>4, <2>5 DEF OthersWait
  <1>4. CASE QuietFlip(t)
    <2>1. \A c \in Threads : FlipDue(c)' = FlipDue(c)
      BY <1>3, <1>4 DEF QuietFlip, FlipDue, OthersWait
    <2> QED
      BY <1>1, <1>3, <1>4, <2>1, QuietFlipKept DEF QuietFlip
  <1>5. CASE RunCheckpointFunction(t)
    <2>1. /\ UNCHANGED <<flip, op, todo, pc, state, cont>>
          /\ due' = [due EXCEPT ![Head(checkpoints[t])] = @ \ {t}]
          /\ checkpoints[t] # <<>> /\ Once(checkpoints[t]) /\ checkpoints[t] \in Seq(Threads)
      BY <1>1, <1>2, <1>5 DEF RunCheckpointFunction, CheckpointOnlyWhenRunnable, DueInv
    <2>2. PICK h \in Threads : h = Head(checkpoints[t])
      BY <2>1, HoldsTail
    <2>3. t \in Queued(h)
      BY <2>1, <2>2, HoldsTail DEF Queued
    <2>4. op[h] # "FlipThreadRoots"
      BY <2>3 DEF DueInv, DueAt, Requesting
    <2>5. \A c \in Threads : FlipDue(c)' = FlipDue(c)
      BY <1>2, <2>1, <2>2, <2>4 DEF FlipDue
    <2>6. MoveStep(t)
      BY <1>1, <2>1 DEF MoveStep, WaitsAt
    <2>7. pc[t] \in RunsFlips => pc'[t] \in RunsFlips /\ todo'[t] = todo[t]
      BY <2>1
    <2> QED
      BY <1>1, <1>3, <2>1, <2>5, <2>6, <2>7, QuietFlipKept
  <1>6. CASE FlipResume(t)
    BY <1>1, <1>3, <1>6, ResumeFlipKept
  <1>7. CASE RunFlipFunction(t)
    <2>1. /\ TakeFlipFunction(t) /\ UNCHANGED <<op, todo, state, cont>> /\ pc[t] = "runFlip"
      BY <1>7 DEF RunFlipFunction
    <2>2. state[t] = "Runnable"
      BY <1>1, <2>1 DEF StateAt, RunnableLabels
    <2>3. WaitsAt(t)' /\ pc[t] \notin RunsFlips
      BY <2>1, <2>2 DEF WaitsAt, RunsFlips
    <2> QED
      BY <1>1, <1>3, <2>1, <2>3, TakenKept
  <1>8. CASE FlipOther(t) \/ FlipSelf(t)
    <2>1. UNCHANGED <<op, todo, state, cont>> /\ pc[t] = "flipOthers"
      BY <1>8 DEF FlipOther, FlipSelf
    <2>2. WaitsAt(t)'
      BY <1>1, <2>1, MovesOn DEF MoveStep, ResumingLabels
    <2>3. CASE FlipOther(t)
      <3>1. PICK u \in todo[t] : TakeFlipFunction(u)
        BY <2>3 DEF FlipOther
      <3>2. u \in Threads /\ pc' = pc
        BY <1>1, <2>3, <3>1 DEF FlipOther, TypeInv, OpType
      <3> QED
        BY <1>1, <1>3, <2>1, <2>2, <3>1, <3>2, TakenKept
    <2>4. CASE FlipSelf(t)
      <3>1. TakeFlipFunction(t) /\ \A v \in todo[t] : ~flip[v]
        BY <2>4 DEF FlipSelf
      <3> QED
        BY <1>1, <1>3, <2>1, <2>2, <3>1, TakenKept
    <2> QED
      BY <1>8, <2>3, <2>4
  <1>9. FlipsStep(t)
    BY <1>1, TransitionFlips, OperationFlips, FlipFlips DEF ThreadStep
  <1> QED
    BY <1>4, <1>5, <1>6, <1>7, <1>8, <1>9 DEF FlipsStep

-----------------------------------------------------------------------------
(* The theorems                                                            *)

Sets == INSTANCE FiniteSetTheorems

\* What is assumed above: sets of threads are finite, and counted one by one.
LEMMA ThreadsAreCounted == Counting
  <1>1. \A S : Sets!Cardinality(S) = Cardinality(S)
    BY DEF Sets!Cardinality, Cardinality
  <1>2. \A S : Sets!IsFiniteSet(S) <=> IsFiniteSet(S)
    BY DEF Sets!IsFiniteSet, IsFiniteSet
  <1>3. ASSUME NEW S \in SUBSET Threads
        PROVE  Sets!IsFiniteSet(S)
    BY <1>2, ThreadsAssumption, Sets!FS_Subset
  <1>4. Cardinality({}) = 0
    BY <1>1, Sets!FS_EmptySet
  <1>5. ASSUME NEW S \in SUBSET Threads
        PROVE  /\ Cardinality(S) \in Nat /\ (Cardinality(S) = 0 => S = {})
               /\ \A t \in Threads \ S : Cardinality(S \cup {t}) = Cardinality(S) + 1
               /\ \A t \in S : Cardinality(S \ {t}) = Cardinality(S) - 1
    BY <1>1, <1>3, Sets!FS_CardinalityType, Sets!FS_EmptySet, Sets!FS_AddElement,
       Sets!FS_RemoveElement
  <1>6. ASSUME NEW S \in SUBSET Threads, NEW t \in S
        PROVE  Cardinality(S) > 0
    BY <1>5, SMTT(60)
  <1> QED
    BY <1>4, <1>5, <1>6 DEF Counting

\* Who waits for whom, and who has stopped, at every label.
THEOREM Stops == Spec => []StopInv
  <1>1. Init => StopInv
    BY ThreadsAreCounted, InitStop
  <1>2. StopInv /\ [Next]_vars => StopInv'
    BY ThreadsAreCounted, NextStop
  <1> QED
    BY <1>1, <1>2, PTL DEF Spec

\* The fatal branches of PassActiveSuspendBarriers and of
\* TransitionFromSuspendedToRunnable cannot be reached: a thread that is not
\* runnable has no checkpoint pending, for any number of threads and calls.
THEOREM CheckpointsNeedRunnable == Spec => []CheckpointOnlyWhenRunnable
  <1>1. ControlInv => CheckpointOnlyWhenRunnable
    BY DEF ControlInv
  <1> QED
    BY <1>1, Control, PTL

\* A suspend count is exactly the number of operations in progress that have raised
\* it: ModifySuspendCount never lowers it below zero and nobody's resume is lost,
\* whatever the number of threads and of suspensions running at once.
THEOREM SuspendCountsAreExact == Spec => []SuspendCountExact
  <1>1. StopInv => SuspendCountExact
    BY DEF StopInv, CountsInv, CountInv, AllInv, SuspendCountExact, Raisers
  <1> QED
    BY <1>1, Stops, PTL

\* pending_threads counts exactly the threads that have still to pass the barrier,
\* and nobody touches it once SuspendAllInternal has returned and its stack frame is
\* gone, whatever the number of threads and of suspend-alls running at once.
THEOREM BarriersAreExact == Spec => []BarrierExact
  <1>1. StopInv => BarrierExact
    BY DEF StopInv, BarrierInv, PendingAt, BarrierExact, Unasked, Waits, InLoop,
       Installed,
       Claimed
  <1> QED
    BY <1>1, Stops, PTL

\* Between SuspendAll and ResumeAll the caller has the mutator lock to itself and
\* every other attached thread is suspended.
THEOREM SuspendAllExcludes == Spec => []Exclusion
  <1>1. ASSUME StopInv, NEW c \in Threads, pc[c] = "saHeld"
        PROVE  /\ mutatorOwner = c /\ mutatorReaders = {}
               /\ \A t \in list \ {c} : IsSuspended(t)
    <2>1. LockAt(c) /\ MutatorInv /\ RaisedAt(c) /\ StoppedAt(c) /\ list \subseteq Threads
          /\ CountsInv /\ BarrierInv
      BY <1>1, Zenon DEF StopInv, CountsInv, ControlInv, LocalInv, TypeInv, ListType
    <2>2. mutatorOwner = c /\ mutatorReaders = {}
      BY <1>1, <2>1, ThreadsAssumption DEF LockAt, MutatorInv
    <2>3. HasAll(c) /\ ~Waits(c)
      BY <1>1 DEF HasAll, Waits, InLoop
    <2>4. raised[c] = list \ {c}
      BY <2>1, <2>3 DEF RaisedAt
    <2>5. \A t \in list \ {c} : t \in Threads /\ state[t] # "Runnable"
      BY <2>1, <2>3, <2>4, NotWaitedFor DEF StoppedAt
    <2> QED
      BY <2>1, <2>2, <2>4, <2>5, ThreadsAreCounted, RaisedSuspended
  <1>2. StopInv => Exclusion
    BY <1>1 DEF Exclusion
  <1> QED
    BY <1>2, Stops, PTL

\* A thread whose stack another thread is visiting stays suspended and attached.
THEOREM VisitedAreSuspended == Spec => []VisitedSuspended
  <1>1. ASSUME StopInv, NEW c \in Threads
        PROVE  /\ pc[c] \in {"rcLower", "stHave", "scRun"} \/ cont[c] = "stHave" =>
                    IsSuspended(cur[c]) /\ cur[c] \in list
               /\ HasTodo(c) => \A t \in todo[c] : IsSuspended(t) /\ t \in list
    <2>1. /\ RaisedAt(c) /\ StoppedAt(c) /\ list \subseteq Threads
          /\ CountsInv /\ BarrierInv
      BY <1>1 DEF StopInv, CountsInv, ControlInv, TypeInv, ListType
    <2>2. ASSUME pc[c] \in {"rcLower", "stHave", "scRun"} \/ cont[c] = "stHave"
          PROVE  IsSuspended(cur[c]) /\ cur[c] \in list
      <3>1. cur[c] \in raised[c] /\ cur[c] \in list /\ cur[c] \in Threads
        BY <2>1, <2>2 DEF RaisedAt
      <3>2. state[cur[c]] # "Runnable"
        BY <2>1, <2>2 DEF StoppedAt
      <3> QED
        BY <2>1, <3>1, <3>2, ThreadsAreCounted, RaisedSuspended
    <2>3. ASSUME HasTodo(c)
          PROVE  \A t \in todo[c] : IsSuspended(t) /\ t \in list
      <3>1. raised[c] = todo[c] /\ todo[c] \subseteq list
        BY <2>1, <2>3 DEF RaisedAt
      <3>2. ~Waits(c)
        BY <2>3 DEF HasTodo, Waits, InLoop
      <3>3. \A t \in todo[c] : t \in Threads /\ state[t] # "Runnable"
        BY <2>1, <2>3, <3>1, <3>2, NotWaitedFor DEF StoppedAt
      <3> QED
        BY <2>1, <3>1, <3>3, ThreadsAreCounted, RaisedSuspended
    <2> QED
      BY <2>2, <2>3
  <1>2. StopInv => VisitedSuspended
    BY <1>1, Zenon DEF VisitedSuspended, HasTodo
  <1> QED
    BY <1>2, Stops, PTL

\* A thread waiting on resume_cond_ with a suspend count of zero is about to be
\* notified, for any number of threads and operations running at once.
THEOREM ResumesAreNotLost == Spec => []ResumeNotLost
  <1>1. Init => ResumeInv
    BY DEF Init, ResumeInv, ResumeNotLost
  <1>2. StopInv /\ ResumeInv /\ [Next]_vars => ResumeInv'
    <2>1. ASSUME StopInv, ResumeInv, UNCHANGED vars PROVE ResumeInv'
      BY <2>1 DEF vars, threadVars, ResumeInv, ResumeNotLost
    <2>2. ASSUME StopInv, ResumeInv, Next PROVE ResumeInv'
      BY <2>2, StepOfThread, ResumeKept, ThreadsAreCounted DEF ThreadStep
    <2> QED
      BY <2>1, <2>2
  <1>3. ResumeInv => ResumeNotLost
    BY DEF ResumeInv
  <1> QED
    BY <1>1, <1>2, <1>3, Stops, PTL DEF Spec

\* The invariant holds in every state.
LEMMA Criticals == Spec => []CriticalInv
  <1>1. Init => CriticalInv
    <2> SUFFICES ASSUME Init PROVE CriticalInv
      OBVIOUS
    <2>1. /\ disableFlip = [t \in Threads |-> 0] /\ disableFlipCount = 0
          /\ \A t \in Threads : /\ op[t] = "none" /\ cont[t] = "native"
                                /\ pc[t] \in {"native", "detached"}
      BY DEF Init
    <2>2. Critical = {}
      BY <2>1, SMTT(60) DEF Critical
    <2>3. Cardinality({}) = 0 /\ disableFlip \in [Threads -> Nat]
      BY <2>1, ThreadsAreCounted, SMTT(60) DEF Counting
    <2> QED
      BY <2>1, <2>2, <2>3 DEF CriticalInv, OneFlip, FlipBegun, FlipPauses,
         EnteringCritical
  <1>2. ControlInv /\ CriticalInv /\ [Next]_vars => CriticalInv'
    <2>1. ASSUME CriticalInv, UNCHANGED vars PROVE CriticalInv'
      <3>1. UNCHANGED <<disableFlip, disableFlipCount, flipRunning, op, pc, cont>>
        BY <2>1 DEF vars, flipVars, opVars
      <3> QED
        BY <2>1, <3>1 DEF CriticalInv, OneFlip, FlipBegun, FlipPauses,
           EnteringCritical, Critical
    <2>2. ASSUME ControlInv, CriticalInv, Next PROVE CriticalInv'
      BY <2>2, StepOfThread, CriticalKept, ThreadsAreCounted DEF ThreadStep
    <2> QED
      BY <2>1, <2>2
  <1> QED
    BY <1>1, <1>2, Control, PTL DEF Spec

\* No thread is in a JNI critical section while FlipThreadRoots has the world stopped,
\* and disable_thread_flip_count_ is the number of threads in one.
THEOREM FlipsExcludeCriticalSections == Spec => []CriticalExcludesFlip
  <1>1. ControlInv /\ CriticalInv => CriticalExcludesFlip
    <2> SUFFICES ASSUME ControlInv, CriticalInv PROVE CriticalExcludesFlip
      OBVIOUS
    <2>1. ASSUME NEW c \in Threads, op[c] = "FlipThreadRoots", Critical # {}
          PROVE  pc[c] \in {"flipBegin", "flipShared", "flipOthers", "flipLower", "flipWait"}
      <3>1. OpAt(c) /\ pc[c] \in Labels /\ cont[c] \in ContLabels /\ ~FlipPauses(c)
        BY <2>1 DEF ControlInv, LocalInv, TypeInv, OpType, CriticalInv
      <3> QED
        BY <2>1, <3>1, FlipperLabels DEF FlipPauses, FlipLabels
    <2> QED
      BY <2>1 DEF CriticalExcludesFlip, CriticalInv, Critical
  <1> QED
    BY <1>1, Control, Criticals, PTL

\* The invariant holds in every state.
LEMMA Due == Spec => []DueInv
  <1>1. Init => DueInv
    <2> SUFFICES ASSUME Init PROVE DueInv
      OBVIOUS
    <2>1. \A c \in Threads : /\ op[c] = "none" /\ due[c] = {} /\ checkpoints[c] = <<>>
                             /\ pc[c] \in {"native", "detached"}
      BY DEF Init
    <2>2. DOMAIN <<>> = {}
      BY SMTT(60)
    <2>3. \A c \in Threads : Queued(c) = {} /\ Once(checkpoints[c])
      BY <2>1, <2>2 DEF Queued, Holds, Once
    <2> QED
      BY <2>1, <2>3 DEF DueInv, DueAt, Requesting
  <1>2. StopInv /\ DueInv /\ [Next]_vars => DueInv'
    <2>1. ASSUME DueInv, UNCHANGED vars PROVE DueInv'
      <3>1. UNCHANGED <<checkpoints, due, op, cur, todo, raised, pc>>
        BY <2>1 DEF vars, threadVars, opVars
      <3>2. /\ \A c \in Threads : DueAt(c) /\ Queued(c)' = Queued(c)
            /\ \A u \in Threads : Once(checkpoints'[u])
        BY <2>1, <3>1, QueuesSame DEF DueInv
      <3>3. ASSUME NEW c \in Threads PROVE DueAt(c)'
        BY <3>1, <3>2, DueUnmoved
      <3> QED
        BY <3>2, <3>3 DEF DueInv
    <2>2. ASSUME StopInv, DueInv, Next PROVE DueInv'
      BY <2>2, StepOfThread, DueKept DEF ThreadStep
    <2> QED
      BY <2>1, <2>2
  <1> QED
    BY <1>1, <1>2, Stops, PTL DEF Spec

\* Two sets of threads with none in common.
LEMMA CountUnion ==
  ASSUME NEW S \in SUBSET Threads, NEW T \in SUBSET Threads, S \cap T = {}
  PROVE  Cardinality(S \cup T) = Cardinality(S) + Cardinality(T)
  <1>1. \A R : Sets!Cardinality(R) = Cardinality(R)
    BY DEF Sets!Cardinality, Cardinality
  <1>2. \A R : Sets!IsFiniteSet(R) <=> IsFiniteSet(R)
    BY DEF Sets!IsFiniteSet, IsFiniteSet
  <1>3. Sets!IsFiniteSet(S) /\ Sets!IsFiniteSet(T)
    BY <1>2, ThreadsAssumption, Sets!FS_Subset
  <1>4. Cardinality(S \cup T) = Cardinality(S) + Cardinality(T) - Cardinality({})
    <2>1. Sets!Cardinality(S \cup T) =
            Sets!Cardinality(S) + Sets!Cardinality(T) - Sets!Cardinality(S \cap T)
      BY <1>3, Sets!FS_Union
    <2> QED
      BY <1>1, <2>1
  <1>5. Cardinality(S) \in Nat /\ Cardinality(T) \in Nat /\ Cardinality({}) = 0
    BY ThreadsAreCounted DEF Counting
  <1> QED
    BY <1>4, <1>5, SMTT(60)

\* A set of one element.
LEMMA CountOne ==
  ASSUME NEW x PROVE Cardinality({x}) = 1
  <1>1. \A R : Sets!Cardinality(R) = Cardinality(R)
    BY DEF Sets!Cardinality, Cardinality
  <1> QED
    BY <1>1, Sets!FS_Singleton

\* A checkpoint of RunCheckpoint, or the closure of RequestSynchronousCheckpoint, runs
\* exactly once on every thread it is meant for, for any number of threads and of
\* checkpoints requested at once: none is lost between the queue of a runnable
\* thread and the caller that runs it on a suspended one, and none is run by both.  The
\* callers are those that wait for the barrier without a timeout.
THEOREM CheckpointsRunExactlyOnce == Spec => []CheckpointExactlyOnce
  <1>1. StopInv /\ DueInv => CheckpointExactlyOnce
    <2> SUFFICES ASSUME StopInv, DueInv, NEW c \in Threads, Requesting(c)
                 PROVE  /\ due[c] = OwnDue(c) \cup Asking(c) \cup Queued(c) \cup Kept(c)
                        /\ Cardinality(due[c]) = Cardinality(OwnDue(c)) + Cardinality(Asking(c))
                                          + Cardinality(Queued(c)) + Cardinality(Kept(c))
                        /\ \A t \in Queued(c) :
                             Cardinality({i \in DOMAIN checkpoints[t] : checkpoints[t][i] = c}) = 1
      BY DEF CheckpointExactlyOnce, Requesting, OwnDue, Asking, Queued, Holds, Kept
    <2>1. Parts(due[c], OwnDue(c), Asking(c), Queued(c), Kept(c))
      BY DEF DueInv, DueAt
    <2>2. due[c] \subseteq Threads
      BY DEF StopInv, CountsInv, ControlInv, TypeInv, OpType
    <2> DEFINE O == OwnDue(c)
               A == Asking(c)
               Q == Queued(c)
               K == Kept(c)
    <2> HIDE DEF O, A, Q, K
    <2>3. /\ due[c] = O \cup A \cup Q \cup K /\ O \cap A = {} /\ (O \cup A) \cap Q = {}
          /\ (O \cup A \cup Q) \cap K = {}
          /\ O \subseteq Threads /\ A \subseteq Threads /\ Q \subseteq Threads
          /\ K \subseteq Threads
      <3>1. Parts(due[c], O, A, Q, K)
        BY <2>1 DEF O, A, Q, K
      <3> QED
        BY <2>2, <3>1 DEF Parts
    <2>4. Cardinality(O \cup A) = Cardinality(O) + Cardinality(A)
      BY <2>3, CountUnion
    <2>5. Cardinality(O \cup A \cup Q) = Cardinality(O \cup A) + Cardinality(Q)
      <3>1. O \cup A \in SUBSET Threads
        BY <2>3
      <3> QED
        BY <2>3, <3>1, CountUnion
    <2>6. Cardinality(O \cup A \cup Q \cup K) = Cardinality(O \cup A \cup Q) + Cardinality(K)
      <3>1. O \cup A \cup Q \in SUBSET Threads
        BY <2>3
      <3> QED
        BY <2>3, <3>1, CountUnion
    <2>7. Cardinality(due[c]) = Cardinality(O) + Cardinality(A) + Cardinality(Q) + Cardinality(K)
      BY <2>3, <2>4, <2>5, <2>6
    <2>8. ASSUME NEW t \in Queued(c)
          PROVE  Cardinality({i \in DOMAIN checkpoints[t] : checkpoints[t][i] = c}) = 1
      <3>1. t \in Threads /\ Holds(checkpoints[t], c)
        BY <2>8 DEF Queued
      <3>2. PICK i \in DOMAIN checkpoints[t] : checkpoints[t][i] = c
        BY <3>1 DEF Holds
      <3>3. Once(checkpoints[t])
        BY <3>1 DEF DueInv
      <3>4. {j \in DOMAIN checkpoints[t] : checkpoints[t][j] = c} = {i}
        BY <3>2, <3>3 DEF Once
      <3> QED
        BY <3>4, CountOne
    <2> QED
      BY <2>3, <2>7, <2>8 DEF O, A, Q, K
  <1> QED
    BY <1>1, Stops, Due, PTL

\* The invariant holds in every state.
LEMMA Flipped == Spec => [](StopInv /\ DueInv /\ CriticalInv /\ FlipInv)
  <1>1. Init => FlipInv
    <2> SUFFICES ASSUME Init PROVE FlipInv
      OBVIOUS
    <2>1. \A c \in Threads : op[c] = "none" /\ state[c] = "Suspended" /\ ~flip[c]
      BY DEF Init
    <2> QED
      BY <2>1 DEF FlipInv, FlipDue, FlipAt, WaitsAt
  <1>2. StopInv /\ DueInv /\ CriticalInv /\ FlipInv /\ [Next]_vars => FlipInv'
    <2>1. ASSUME FlipInv, UNCHANGED vars PROVE FlipInv'
      <3>1. UNCHANGED <<state, flip, due, op, todo, pc, cont>>
        BY <2>1 DEF vars, threadVars, opVars
      <3> QED
        BY <2>1, <3>1 DEF FlipInv, FlipDue, FlipAt, WaitsAt
    <2>2. ASSUME StopInv, DueInv, CriticalInv, FlipInv, Next PROVE FlipInv'
      BY <2>2, StepOfThread, FlipsKept DEF ThreadStep
    <2> QED
      BY <2>1, <2>2
  <1> QED
    BY <1>1, <1>2, Stops, Due, Criticals, PTL DEF Spec

\* A thread runs the flip function of a collection before it touches the heap again,
\* and each is run once for each flip, for any number of threads that attach, detach,
\* become runnable or are suspended while FlipThreadRoots is running.
THEOREM FlipsBeforeManagedCode == Spec => []FlipBeforeManagedCode
  <1>1. StopInv /\ FlipInv /\ VisitedSuspended => FlipBeforeManagedCode
    <2> SUFFICES ASSUME StopInv, FlipInv, VisitedSuspended, NEW t \in Threads
                 PROVE  /\ state[t] = "Runnable" /\ pc[t] # "runFlip" => ~flip[t]
                        /\ flip[t] <=> \E c \in Threads : t \in FlipDue(c)
      BY DEF FlipBeforeManagedCode, FlipDue
    <2>1. flip[t] <=> \E c \in Threads : t \in FlipDue(c)
      BY DEF FlipInv
    <2>2. ASSUME NEW c \in Threads, t \in FlipDue(c), state[t] = "Runnable"
          PROVE  pc[t] = "runFlip"
      <3>1. pc[t] \in RunnableLabels \cup CheckpointLabels
        BY <2>2 DEF StopInv, CountsInv, ControlInv, LocalInv, StateAt
      <3>2. pc[t] \notin RunsFlips
        BY <3>1 DEF RunsFlips, RunnableLabels, CheckpointLabels
      <3>3. pc[c] \in RunsFlips => t \notin todo[c]
        BY <2>2 DEF VisitedSuspended, IsSuspended, RunsFlips
      <3>4. pc[t] \in ResumingLabels
        BY <2>2, <3>2, <3>3 DEF FlipInv, FlipAt
      <3> QED
        BY <3>1, <3>4 DEF ResumingLabels, RunnableLabels, CheckpointLabels
    <2> QED
      BY <2>1, <2>2
  <1> QED
    BY <1>1, Flipped, VisitedAreSuspended, PTL

\* A thread that an operation of another thread still refers to has not been deleted by
\* ThreadList::Unregister, for any number of threads and operations.
THEOREM ReferencesAreAttached == Spec => []ReferencedAttached
  <1>1. StopInv /\ DueInv /\ FlipInv => ReferencedAttached
    <2> SUFFICES ASSUME StopInv, DueInv, FlipInv, NEW c \in Threads
                 PROVE  todo[c] \cup raised[c] \cup due[c] \subseteq list
      BY DEF ReferencedAttached
    <2>1. \A t \in Threads : RaisedAt(t) /\ DueAt(t) /\ StateAt(t) /\ OpAt(t) /\ WaitsAt(t)
      BY DEF StopInv, CountsInv, ControlInv, LocalInv, DueInv, FlipInv
    <2>2. todo[c] \subseteq list /\ raised[c] \subseteq list /\ due[c] \subseteq Threads
      BY <2>1 DEF RaisedAt, StopInv, CountsInv, ControlInv, TypeInv, OpType
    <2>3. \A t \in Threads : pc[t] # "detached" => t \in list
      BY <2>1 DEF RaisedAt
    <2>4. CASE Requesting(c)
      <3>1. OwnDue(c) \subseteq list
        BY <2>3 DEF OwnDue
      <3>2. Asking(c) \subseteq list
        <4>1. pc[c] \in {"rcRaise", "rcRetry"} => cur[c] \in list
          BY <2>1 DEF RaisedAt
        <4> QED
          BY <2>2, <4>1 DEF Asking
      <3>3. Queued(c) \subseteq list
        <4>1. ASSUME NEW t \in Queued(c) PROVE t \in list
          <5>1. t \in Threads /\ Holds(checkpoints[t], c)
            BY <4>1 DEF Queued
          <5>2. DOMAIN <<>> = {}
            BY SMTT(60)
          <5>3. checkpoints[t] # <<>>
            BY <5>1, <5>2 DEF Holds
          <5>4. state[t] = "Runnable"
            BY <5>1, <5>3 DEF StopInv, CountsInv, ControlInv,
               CheckpointOnlyWhenRunnable
          <5>5. pc[t] # "detached"
            BY <2>1, <5>1, <5>4 DEF StateAt, RunnableLabels, CheckpointLabels
          <5> QED
            BY <2>3, <5>1, <5>5
        <4> QED
          BY <4>1
      <3>4. Kept(c) \subseteq list
        BY <2>2 DEF Kept
      <3>5. due[c] = OwnDue(c) \cup Asking(c) \cup Queued(c) \cup Kept(c)
        BY <2>1, <2>4 DEF DueAt, Parts
      <3> QED
        BY <2>2, <3>1, <3>2, <3>3, <3>4, <3>5
    <2>5. CASE pc[c] \in FlipRan
      <3>1. op[c] = "FlipThreadRoots" /\ pc[c] # "detached"
        BY <2>1, <2>5 DEF OpAt, FlipRan, FlipLabels
      <3>2. ASSUME NEW t \in due[c] PROVE t \in list
        <4>1. \/ t \in todo[c] \cup {c}
              \/ pc[t] \in ResumingLabels
              \/ state[t] = "WaitingForGcThreadFlip"
          BY <3>1, <3>2 DEF FlipInv, FlipAt, FlipDue
        <4>2. t \in Threads
          BY <2>2, <3>2
        <4>3. pc[t] \in ResumingLabels \/ state[t] = "WaitingForGcThreadFlip" => pc[t] # "detached"
          BY <2>1, <4>2 DEF WaitsAt, ResumingLabels
        <4> QED
          BY <2>2, <2>3, <3>1, <4>1, <4>2, <4>3
      <3> QED
        BY <2>2, <3>2
    <2>6. CASE ~Requesting(c) /\ pc[c] \notin FlipRan
      BY <2>1, <2>2, <2>6 DEF DueAt
    <2> QED
      BY <2>4, <2>5, <2>6
  <1> QED
    BY <1>1, Flipped, PTL
=============================================================================
