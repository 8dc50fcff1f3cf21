------------------------------ MODULE HeapTasks ------------------------------
(***************************************************************************)
(* The asynchronous work of the heap (runtime/gc/heap.cc): requests for a  *)
(* collector transition, a trim and a concurrent collection, each noted in *)
(* a field of the heap so that it is queued once, and the tasks that serve *)
(* them on the daemon of TaskProcessor.                                    *)
(***************************************************************************)
EXTENDS TaskProcessor, FiniteSets

CONSTANTS
  Threads,      \* the threads that make requests
  Daemon,       \* the daemon, which makes requests too
  Foreground,   \* foreground_collector_type_
  Background,   \* background_collector_type_
  Requests,     \* the requests the threads make
  Delay,        \* kCollectorTransitionWait and kHeapTrimWait
  MaxRequests   \* bound on the requests of the threads

ASSUME HeapTaskAssumption ==
  /\ Daemon \notin Threads /\ Delay \in Nat /\ MaxRequests \in Nat
  /\ Requests \subseteq {"foreground", "background", "trim", "gc", "fork"}

VARIABLES
  desired,           \* desired_collector_type_
  collectorType,     \* collector_type_
  pendingTransition, \* pending_collector_transition_
  pendingTrim,       \* pending_heap_trim_
  gcPending,         \* concurrent_gc_pending_
  shuttingDown,      \* Runtime::IsShuttingDown
  kind,              \* what each task object is
  at,                \* where each actor is in a request
  wanted,            \* delta_time, then the target time computed from it
  mine,              \* the task it has created and not yet added
  chosen,            \* the daemon's copy of desired_collector_type_
  requests           \* requests made so far

heapVars == <<desired, collectorType, pendingTransition, pendingTrim, gcPending, shuttingDown>>
callVars == <<kind, at, wanted, mine, chosen, requests>>
vars == <<processorVars, heapVars, callVars>>

Actors == Threads \cup {Daemon}

Init ==
  /\ ProcessorInit
  /\ desired = Foreground
  /\ collectorType = Foreground
  /\ pendingTransition = NoTask /\ pendingTrim = NoTask
  /\ gcPending = FALSE
  /\ shuttingDown = FALSE
  /\ kind = [t \in Tasks |-> "none"]
  /\ at = [a \in Actors |-> "idle"]
  /\ wanted = [a \in Actors |-> 0]
  /\ mine = [a \in Actors |-> NoTask]
  /\ chosen = Foreground
  /\ requests = 0

Goto(a, label) == at' = [at EXCEPT ![a] = label]

\* The objects in use; the allocator returns one of the others.
Live == Range(tasks) \cup {current} \cup {mine[a] : a \in Actors}
Fresh == CHOOSE t \in Tasks : t \notin Live
CanAllocate == Tasks \ Live # {}

CanAddHeapTask == ~shuttingDown

\* A thread makes a request of its own.
CountRequest ==
  /\ requests < MaxRequests
  /\ requests' = requests + 1

-----------------------------------------------------------------------------
(* RequestCollectorTransition                                              *)

RequestCollectorTransition(a, type) ==
  /\ at[a] = "idle"
  /\ CountRequest
  /\ desired' = type
  /\ wanted' = [wanted EXCEPT ![a] = IF type = Foreground THEN 0 ELSE Delay]
  /\ Goto(a, "compare")
  /\ UNCHANGED <<processorVars, collectorType, pendingTransition, pendingTrim, gcPending,
                 shuttingDown, kind, mine, chosen>>

\* Nothing to do, or the target time is read off the clock.
CompareCollectors(a) ==
  /\ at[a] = "compare"
  /\ IF desired = collectorType \/ ~CanAddHeapTask
     THEN Goto(a, "idle") /\ wanted' = [wanted EXCEPT ![a] = 0]
     ELSE Goto(a, "transition") /\ wanted' = [wanted EXCEPT ![a] = now + @]
  /\ UNCHANGED <<processorVars, heapVars, kind, mine, chosen, requests>>

\* Under pending_task_lock_: move the pending task, or create one.
UpdateOrNewTransition(a) ==
  /\ at[a] = "transition"
  /\ IF pendingTransition # NoTask
     THEN /\ UpdateTargetRunTime(pendingTransition, wanted[a])
          /\ wanted' = [wanted EXCEPT ![a] = 0]
          /\ Goto(a, "idle")
          /\ UNCHANGED <<pendingTransition, kind, mine>>
     ELSE /\ CanAllocate
          /\ pendingTransition' = Fresh
          /\ mine' = [mine EXCEPT ![a] = Fresh]
          /\ kind' = [kind EXCEPT ![Fresh] = "transition"]
          /\ Goto(a, "add")
          /\ UNCHANGED <<processorVars, wanted>>
  /\ UNCHANGED <<desired, collectorType, pendingTrim, gcPending, shuttingDown, chosen, requests>>

\* After the lock is released, the new task goes to the task processor.
AddNewTask(a) ==
  /\ at[a] = "add"
  /\ AddTask(mine[a], wanted[a])
  /\ mine' = [mine EXCEPT ![a] = NoTask]
  /\ wanted' = [wanted EXCEPT ![a] = 0]
  /\ Goto(a, "idle")
  /\ UNCHANGED <<heapVars, kind, chosen, requests>>

-----------------------------------------------------------------------------
(* RequestTrim, RequestConcurrentGC, PostForkChildAction                   *)

\* RequestTrim, under pending_task_lock_: at most one trim is pending.
NewTrim(a) ==
  IF CanAddHeapTask /\ pendingTrim = NoTask
  THEN /\ CanAllocate
       /\ pendingTrim' = Fresh
       /\ mine' = [mine EXCEPT ![a] = Fresh]
       /\ kind' = [kind EXCEPT ![Fresh] = "trim"]
       /\ wanted' = [wanted EXCEPT ![a] = now + Delay]
       /\ Goto(a, "add")
  ELSE UNCHANGED <<pendingTrim, mine, kind, wanted, at>>

RequestTrim(a) ==
  /\ at[a] = "idle"
  /\ CountRequest
  /\ NewTrim(a)
  /\ UNCHANGED <<processorVars, desired, collectorType, pendingTransition, gcPending,
                 shuttingDown, chosen>>

\* Mutant: the flag is looked at and set in two steps.
NewConcurrentGCUnchecked(a) ==
  IF CanAddHeapTask
  THEN /\ CanAllocate
       /\ gcPending' = TRUE
       /\ mine' = [mine EXCEPT ![a] = Fresh]
       /\ kind' = [kind EXCEPT ![Fresh] = "gc"]
       /\ wanted' = [wanted EXCEPT ![a] = now]
       /\ Goto(a, "add")
  ELSE UNCHANGED <<gcPending, mine, kind, wanted, at>>

\* RequestConcurrentGC: the compare-and-set lets one request through.
NewConcurrentGC(a) ==
  IF CanAddHeapTask /\ ~gcPending
  THEN /\ CanAllocate
       /\ gcPending' = TRUE
       /\ mine' = [mine EXCEPT ![a] = Fresh]
       /\ kind' = [kind EXCEPT ![Fresh] = "gc"]
       /\ wanted' = [wanted EXCEPT ![a] = now]
       /\ Goto(a, "add")
  ELSE UNCHANGED <<gcPending, mine, kind, wanted, at>>

RequestConcurrentGC(a) ==
  /\ at[a] = "idle"
  /\ CountRequest
  /\ NewConcurrentGC(a)
  /\ UNCHANGED <<processorVars, desired, collectorType, pendingTransition, pendingTrim,
                 shuttingDown, chosen>>

PostForkChildAction(a) ==
  /\ at[a] = "idle" /\ CanAllocate
  /\ CountRequest
  /\ mine' = [mine EXCEPT ![a] = Fresh]
  /\ kind' = [kind EXCEPT ![Fresh] = "fork"]
  /\ wanted' = [wanted EXCEPT ![a] = now + Delay]
  /\ Goto(a, "add")
  /\ UNCHANGED <<processorVars, heapVars, chosen>>

Shutdown ==
  /\ ~shuttingDown
  /\ shuttingDown' = TRUE
  /\ UNCHANGED <<processorVars, desired, collectorType, pendingTransition, pendingTrim, gcPending,
                 callVars>>

-----------------------------------------------------------------------------
(* The tasks, on the daemon                                                *)

Runs(k) == daemon = "run" /\ kind[current] = k

\* DoPendingCollectorTransition reads the desired type once.
ReadDesired ==
  /\ Runs("transition")
  /\ chosen' = desired
  /\ daemon' = "transit"
  /\ UNCHANGED <<tasks, target, isRunning, now, deadline, current, heapVars, kind, at, wanted,
                 mine, requests>>

\* Compaction leaves the collector as it is, and for the concurrent copying
\* collector is a collection that asks for a trim; the process may be in a state
\* in which it is skipped.  Any other type is installed by TransitionCollector.
DoTransition ==
  /\ daemon = "transit"
  /\ IF chosen \in {"HomogeneousSpaceCompact", "CCBackground"}
     THEN /\ \/ chosen = "CCBackground" /\ NewTrim(Daemon)
             \/ UNCHANGED <<pendingTrim, mine, kind, wanted, at>>
          /\ UNCHANGED collectorType
     ELSE /\ collectorType' = IF shuttingDown THEN collectorType ELSE chosen
          /\ UNCHANGED <<pendingTrim, mine, kind, wanted, at>>
  /\ chosen' = Foreground
  /\ daemon' = "clear"
  /\ UNCHANGED <<tasks, target, isRunning, now, deadline, current, desired, pendingTransition,
                 gcPending, shuttingDown, requests>>

Trim ==
  /\ Runs("trim")
  /\ daemon' = "clear"
  /\ UNCHANGED <<tasks, target, isRunning, now, deadline, current, heapVars, callVars>>

\* Mutant: a collection that is not run is put back into the queue.
ConcurrentGCRequeued ==
  /\ Runs("gc")
  /\ tasks' = Insert(tasks, current, now)
  /\ target' = [target EXCEPT ![current] = now]
  /\ current' = NoTask
  /\ daemon' = "look"
  /\ UNCHANGED <<isRunning, now, deadline, heapVars, callVars>>

\* ConcurrentGC: a collection asks for a trim; none is run when another thread
\* has just finished one, or the runtime shuts down.
ConcurrentGC ==
  /\ Runs("gc")
  /\ \/ ~shuttingDown /\ NewTrim(Daemon)
     \/ UNCHANGED <<pendingTrim, mine, kind, wanted, at>>
  /\ daemon' = "clear"
  /\ UNCHANGED <<tasks, target, isRunning, now, deadline, current, desired, collectorType,
                 pendingTransition, gcPending, shuttingDown, chosen, requests>>

\* TriggerPostForkCCGcTask: a collection unless there has been one.
PostForkTask ==
  /\ Runs("fork")
  /\ \/ NewConcurrentGC(Daemon)
     \/ UNCHANGED <<gcPending, mine, kind, wanted, at>>
  /\ daemon' = "clear"
  /\ UNCHANGED <<tasks, target, isRunning, now, deadline, current, desired, collectorType,
                 pendingTransition, pendingTrim, shuttingDown, chosen, requests>>

\* ClearPendingCollectorTransition, ClearPendingTrim or ClearConcurrentGCRequest.
ClearRequest ==
  /\ daemon = "clear" /\ at[Daemon] = "idle"
  /\ pendingTransition' = IF kind[current] = "transition" THEN NoTask ELSE pendingTransition
  /\ pendingTrim' = IF kind[current] = "trim" THEN NoTask ELSE pendingTrim
  /\ gcPending' = IF kind[current] = "gc" THEN FALSE ELSE gcPending
  /\ daemon' = "finalize"
  /\ UNCHANGED <<tasks, target, isRunning, now, deadline, current, desired, collectorType,
                 shuttingDown, callVars>>

Finalize ==
  /\ FinalizeTask
  /\ kind' = [kind EXCEPT ![current] = "none"]
  /\ UNCHANGED <<heapVars, at, wanted, mine, chosen, requests>>

-----------------------------------------------------------------------------
Request(a) ==
  \/ "foreground" \in Requests /\ RequestCollectorTransition(a, Foreground)
  \/ "background" \in Requests /\ RequestCollectorTransition(a, Background)
  \/ "trim" \in Requests /\ RequestTrim(a)
  \/ "gc" \in Requests /\ RequestConcurrentGC(a)
  \/ "fork" \in Requests /\ PostForkChildAction(a)

RequestStep(a) == CompareCollectors(a) \/ UpdateOrNewTransition(a) \/ AddNewTask(a)

TaskStep ==
  \/ ReadDesired \/ DoTransition \/ Trim \/ ConcurrentGC \/ PostForkTask \/ ClearRequest
  \/ Finalize

DaemonStep ==
  \/ TaskStep
  \/ (GetTask \/ CheckRunning \/ TimeOut) /\ UNCHANGED <<heapVars, callVars>>

\* The daemon is not started again once the runtime shuts down.
StartDaemon == ~shuttingDown /\ Start /\ UNCHANGED <<heapVars, callVars>>

Environment ==
  \/ (Stop \/ WakeEarly) /\ UNCHANGED <<heapVars, callVars>>
  \/ Shutdown

Clock == Tick /\ UNCHANGED <<heapVars, callVars>>

Next ==
  \/ \E a \in Threads : Request(a)
  \/ \E a \in Actors : RequestStep(a)
  \/ DaemonStep \/ StartDaemon \/ Environment \/ Clock

Spec == Init /\ [][Next]_vars

\* Threads finish their calls, the daemon runs and is started, time passes.
Fairness ==
  /\ \A a \in Actors : WF_vars(RequestStep(a))
  /\ WF_vars(DaemonStep) /\ WF_vars(StartDaemon) /\ WF_vars(Clock)

FairSpec == Spec /\ Fairness

-----------------------------------------------------------------------------
\* While the daemon sleeps nothing is due before it wakes: an added task, and a
\* task that UpdateTargetRunTime moves to the front, are announced to it, and so
\* is Stop.
DaemonWakesInTime ==
  /\ daemon = "wait" => isRunning /\ tasks = <<>>
  /\ daemon = "timedWait" => isRunning /\ \A t \in Range(tasks) : deadline <= target[t]

\* The tasks of a kind that have still to be served, wherever they are.
Outstanding(k) ==
  {t \in Tasks : kind[t] = k /\ (t \in Range(tasks) \/ \E a \in Actors : mine[a] = t)}
    \cup IF daemon \in {"run", "transit", "clear"} /\ kind[current] = k THEN {current} ELSE {}

\* A field of the heap is set exactly as long as there is one task that will
\* clear it: no request is refused for ever, none is queued twice, and the task
\* that RequestCollectorTransition hands to UpdateTargetRunTime is not deleted.
\* UpdateTargetRunTime moves a task and leaves no second entry of it behind.
RequestsExact ==
  /\ IsInjective(tasks)
  /\ Outstanding("transition") = {pendingTransition} \ {NoTask}
  /\ Outstanding("trim") = {pendingTrim} \ {NoTask}
  /\ Cardinality(Outstanding("gc")) = IF gcPending THEN 1 ELSE 0

\* A concurrent collection that was asked for is started, or not needed any more.
GcServed == gcPending ~> (~gcPending \/ shuttingDown)

\* Desired collector type: the daemon transitions the heap if it is different
\* from the collector type (comment of desired_collector_type_ in heap.h).
DesiredIsReached == (desired # collectorType) ~> (desired = collectorType \/ shuttingDown)
=============================================================================
