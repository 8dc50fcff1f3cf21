--------------------------- MODULE HeapCollections ---------------------------
(***************************************************************************)
(* Who may collect when (runtime/gc/heap.cc): collections, homogeneous     *)
(* space compactions, collector transitions and the critical sections that *)
(* pass for collections, all announced in collector_type_running_ under    *)
(* gc_complete_lock_; threads that pin objects by disabling the moving     *)
(* collectors; shutdown.  A critical section is one step; the wait on      *)
(* gc_complete_cond_ divides it.                                           *)
(***************************************************************************)
EXTENDS Naturals, FiniteSets

CONSTANTS
  Threads,     \* the threads that collect, wait and pin
  Daemon,      \* the heap task daemon, one of them
  Types        \* the collector types between which the heap can change

ASSUME DaemonAssumption == Daemon \in Threads
ASSUME ThreadsAssumption == IsFiniteSet(Threads)
ASSUME TypesAssumption == Types \subseteq {"MS", "CMS", "SS", "CC"} /\ Types # {}

VARIABLES
  running,       \* collector_type_running_
  collectorType, \* collector_type_
  pinned,        \* disable_moving_gc_count_
  blocking,      \* running_collection_is_blocking_
  lastGcType,    \* last_gc_type_
  gcDisabled,    \* gc_disabled_for_shutdown_
  shuttingDown,  \* Runtime::IsShuttingDown
  pc,            \* where each thread is
  call,          \* what it is doing
  want           \* the collector type it wants

flags == <<lastGcType, gcDisabled, shuttingDown>>
calls == <<call, want>>
vars == <<running, collectorType, pinned, blocking, flags, pc, calls>>

None == "None"

IsMovingGc(type) == type \in {"CC", "SS", "HomogeneousSpaceCompact"}

Init ==
  /\ running = None
  /\ collectorType \in Types
  /\ pinned = 0
  /\ blocking = FALSE
  /\ lastGcType = None
  /\ gcDisabled = FALSE /\ shuttingDown = FALSE
  /\ pc = [t \in Threads |-> "idle"]
  /\ call = [t \in Threads |-> None]
  /\ want = [t \in Threads |-> None]

Goto(t, label) == pc' = [pc EXCEPT ![t] = label]

-----------------------------------------------------------------------------
(* WaitForGcToCompleteLocked                                               *)

\* A collection is running: wait for it, and unless this is the daemon note
\* that it is a blocking one.
Block(t) ==
  /\ Goto(t, "waiting")
  /\ blocking' = (blocking \/ t # Daemon)

WaitForRunning(t) ==
  /\ pc[t] \in {"enter", "woken"}
  /\ running # None
  /\ Block(t)
  /\ UNCHANGED <<running, collectorType, pinned, flags, calls>>

\* Nothing is running: the caller goes on, still holding the lock.
Granted(t, c) ==
  /\ pc[t] \in {"enter", "woken"} /\ call[t] = c
  /\ running = None
  /\ blocking' = (blocking \/ t # Daemon)
  /\ UNCHANGED <<collectorType, pinned>>

\* last_gc_type: what last_gc_type_ held after the last wait.
LastSeen(t) == IF pc[t] = "woken" THEN lastGcType ELSE None

\* The caller announces a collection, goes on without one, or returns.
Begin(t, type) ==
  /\ running' = type
  /\ Goto(t, "working")
  /\ UNCHANGED calls

Continue(t, label) ==
  /\ Goto(t, label)
  /\ UNCHANGED <<running, calls>>

Return(t) ==
  /\ Goto(t, "idle")
  /\ call' = [call EXCEPT ![t] = None]
  /\ want' = [want EXCEPT ![t] = None]
  /\ UNCHANGED running

WakeEarly(t) ==
  /\ pc[t] = "waiting"
  /\ Goto(t, "woken")
  /\ UNCHANGED <<running, collectorType, pinned, blocking, flags, calls>>

-----------------------------------------------------------------------------
(* FinishGC                                                                *)

FinishGC(t, type) ==
  /\ running' = None
  /\ lastGcType' = IF type = None THEN lastGcType ELSE type
  /\ blocking' = FALSE
  /\ pc' = [u \in Threads |-> IF u = t THEN "idle"
                              ELSE IF pc[u] = "waiting" THEN "woken" ELSE pc[u]]
  /\ call' = [call EXCEPT ![t] = None]
  /\ want' = [want EXCEPT ![t] = None]
  /\ UNCHANGED <<collectorType, pinned, gcDisabled, shuttingDown>>

-----------------------------------------------------------------------------
(* The operations                                                          *)

\* A thread starts an operation that begins with WaitForGcToComplete; one that is
\* over before (ConcurrentGC at shutdown, a transition to the type the heap has)
\* takes no step.
Call(t, c, type) ==
  /\ pc[t] = "idle"
  /\ type # collectorType
  /\ c = "concurrent" => t = Daemon /\ ~shuttingDown
  /\ call' = [call EXCEPT ![t] = c]
  /\ want' = [want EXCEPT ![t] = type]
  /\ Goto(t, "enter")
  /\ UNCHANGED <<running, collectorType, pinned, blocking, flags>>

\* Mutant: a collection may begin after shutdown has disabled them.
CollectGarbageAlways(t) ==
  /\ Granted(t, "collect")
  /\ IF IsMovingGc(collectorType) /\ pinned # 0 THEN Return(t) ELSE Begin(t, collectorType)
  /\ UNCHANGED flags

\* CollectGarbageInternal gives up if objects are pinned or GC is disabled.
CollectGarbage(t) ==
  /\ Granted(t, "collect")
  /\ IF (IsMovingGc(collectorType) /\ pinned # 0) \/ gcDisabled
     THEN Return(t)
     ELSE Begin(t, collectorType)
  /\ UNCHANGED flags

WaitForGcToComplete(t) ==
  /\ Granted(t, "wait")
  /\ Return(t)
  /\ UNCHANGED flags

\* ConcurrentGC collects only if it did not have to wait for a collection.
ConcurrentGC(t) ==
  /\ Granted(t, "concurrent")
  /\ IF LastSeen(t) = None
     THEN /\ call' = [call EXCEPT ![t] = "collect"]
          /\ Goto(t, "enter")
          /\ UNCHANGED <<running, want>>
     ELSE Return(t)
  /\ UNCHANGED flags

\* Mutant: the section begins without waiting.
StartGCAtOnce(t) ==
  /\ pc[t] = "enter" /\ call[t] = "critical"
  /\ Begin(t, "Critical")
  /\ blocking' = (blocking \/ t # Daemon)
  /\ UNCHANGED <<collectorType, pinned, flags>>

\* StartGC, for a trim or a ScopedGCCriticalSection.
StartGC(t) ==
  /\ Granted(t, "critical")
  /\ Begin(t, "Critical")
  /\ UNCHANGED flags

\* Mutant: a transition is announced by its target type only.
TransitionAnnounced(t) ==
  /\ Granted(t, "transition")
  /\ LET copying == IsMovingGc(collectorType) # IsMovingGc(want[t])
     IN  \/ want[t] = collectorType /\ Return(t)
         \/ want[t] # collectorType /\ (~copying \/ pinned = 0) /\ Begin(t, want[t])
         \/ want[t] # collectorType /\ copying /\ pinned # 0 /\ Continue(t, "retry")
  /\ UNCHANGED flags

\* TransitionCollector: exit if somebody was faster, begin, or try again later
\* because objects are pinned and the transition has to move them.
TransitionCollector(t) ==
  /\ Granted(t, "transition")
  /\ LET copying == IsMovingGc(collectorType) # IsMovingGc(want[t])
     IN  \/ want[t] = collectorType /\ Return(t)
         \/ /\ want[t] # collectorType /\ (~copying \/ pinned = 0)
            /\ Begin(t, IF copying THEN "SS" ELSE want[t])
         \/ want[t] # collectorType /\ copying /\ pinned # 0 /\ Continue(t, "retry")
  /\ UNCHANGED flags

TryTransitionAgain(t) ==
  /\ pc[t] = "retry"
  /\ Continue(t, "enter")
  /\ UNCHANGED <<collectorType, pinned, blocking, flags>>

\* PerformHomogeneousSpaceCompact.
HomogeneousSpaceCompact(t) ==
  /\ Granted(t, "compact")
  /\ IF pinned # 0 \/ IsMovingGc(collectorType)
     THEN Return(t)
     ELSE Begin(t, "HomogeneousSpaceCompact")
  /\ UNCHANGED flags

\* Compaction and transition look once more at the runtime before they start.
StartMoving(t) ==
  /\ pc[t] = "working" /\ call[t] \in {"compact", "transition"}
  /\ ~shuttingDown
  /\ Continue(t, "moving")
  /\ UNCHANGED <<collectorType, pinned, blocking, flags>>

\* Mutant: an operation that finds the runtime shutting down holds still.
FinishUnlessShuttingDown(t) ==
  \/ /\ pc[t] = "working"
     /\ \/ call[t] = "collect" /\ FinishGC(t, "Full")
        \/ call[t] = "critical" /\ FinishGC(t, None)
  \/ pc[t] = "moving" /\ call[t] = "compact" /\ FinishGC(t, "Full")

\* The end of a collection, a critical section, or an operation that found the
\* runtime shutting down; the end of a compaction.
FinishCollection(t) ==
  \/ /\ pc[t] = "working"
     /\ \/ call[t] = "collect" /\ FinishGC(t, "Full")
        \/ call[t] = "critical" /\ FinishGC(t, None)
        \/ call[t] \in {"compact", "transition"} /\ shuttingDown /\ FinishGC(t, None)
  \/ pc[t] = "moving" /\ call[t] = "compact" /\ FinishGC(t, "Full")

\* TransitionCollector has moved the objects and calls ChangeCollector, with all
\* threads suspended.
ChangeCollector(t) ==
  /\ pc[t] = "moving" /\ call[t] = "transition"
  /\ collectorType' = want[t]
  /\ Continue(t, "changed")
  /\ UNCHANGED <<pinned, blocking, flags>>

FinishTransition(t) == pc[t] = "changed" /\ FinishGC(t, "Full")

-----------------------------------------------------------------------------
(* Pinning and shutdown                                                    *)

IncrementDisableMovingGC(t) ==
  /\ pc[t] = "idle"
  /\ pinned' = pinned + 1
  /\ call' = [call EXCEPT ![t] = "pin"]
  /\ IF IsMovingGc(running)
     THEN Block(t)
     ELSE Goto(t, "pinned") /\ UNCHANGED blocking
  /\ UNCHANGED <<running, collectorType, flags, want>>

PinAfterWait(t) ==
  /\ Granted(t, "pin")
  /\ Continue(t, "pinned")
  /\ UNCHANGED flags

DecrementDisableMovingGC(t) ==
  /\ pc[t] = "pinned"
  /\ pinned' = pinned - 1
  /\ Return(t)
  /\ UNCHANGED <<collectorType, blocking, flags>>

BeginShutdown(t) ==
  /\ pc[t] = "idle" /\ t # Daemon
  /\ ~shuttingDown
  /\ shuttingDown' = TRUE
  /\ Continue(t, "disable")
  /\ UNCHANGED <<collectorType, pinned, blocking, lastGcType, gcDisabled>>

\* DisableGCForShutdown; WaitForGcToComplete follows.
DisableGCForShutdown(t) ==
  /\ pc[t] = "disable"
  /\ gcDisabled' = TRUE
  /\ call' = [call EXCEPT ![t] = "shutdown"]
  /\ Goto(t, "enter")
  /\ UNCHANGED <<running, collectorType, pinned, blocking, lastGcType, shuttingDown, want>>

ShutDown(t) ==
  /\ Granted(t, "shutdown")
  /\ Continue(t, "down")
  /\ UNCHANGED flags

-----------------------------------------------------------------------------
\* The steps a thread takes inside an operation.
Progress(t) ==
  \/ WaitForRunning(t) \/ CollectGarbage(t) \/ WaitForGcToComplete(t) \/ ConcurrentGC(t)
  \/ StartGC(t) \/ TransitionCollector(t) \/ TryTransitionAgain(t)
  \/ HomogeneousSpaceCompact(t) \/ StartMoving(t) \/ FinishCollection(t) \/ ChangeCollector(t)
  \/ FinishTransition(t) \/ PinAfterWait(t) \/ DisableGCForShutdown(t) \/ ShutDown(t)

Start(t) ==
  \/ \E c \in {"collect", "wait", "concurrent", "critical", "compact"} : Call(t, c, None)
  \/ \E type \in Types : Call(t, "transition", type)
  \/ IncrementDisableMovingGC(t) \/ DecrementDisableMovingGC(t) \/ BeginShutdown(t)

Next == \E t \in Threads : Progress(t) \/ Start(t) \/ WakeEarly(t)

Spec == Init /\ [][Next]_vars

\* Threads run; collections end.
FairSpec == Spec /\ \A t \in Threads : WF_vars(Progress(t))

-----------------------------------------------------------------------------
TypeOK ==
  /\ running \in Types \cup {None, "SS", "HomogeneousSpaceCompact", "Critical"}
  /\ collectorType \in Types
  /\ pinned \in 0..Cardinality(Threads)
  /\ {blocking, gcDisabled, shuttingDown} \subseteq BOOLEAN
  /\ lastGcType \in {None, "Full"}
  /\ pc \in [Threads -> {"idle", "enter", "waiting", "woken", "retry", "working", "moving",
                         "changed", "pinned", "disable", "down"}]
  /\ call \in [Threads -> {None, "collect", "wait", "concurrent", "critical", "compact",
                           "transition", "pin", "shutdown"}]
  /\ want \in [Threads -> Types \cup {None}]

\* The threads that act as collectors.
Working == {t \in Threads : pc[t] \in {"working", "moving", "changed"}}

\* One collection, compaction, transition or critical section at a time, and
\* collector_type_running_ tells so; a collection still finds the collector type
\* that it announced, although it reads it again without the lock.
OneCollection ==
  /\ Cardinality(Working) = IF running = None THEN 0 ELSE 1
  /\ \A t \in Working : call[t] = "collect" => collectorType = running

\* The threads that move objects.
Moving ==
  {t \in Working : \/ call[t] = "collect" /\ IsMovingGc(collectorType)
                   \/ pc[t] = "moving" /\ call[t] = "compact"
                   \/ pc[t] = "moving" /\ IsMovingGc(collectorType) # IsMovingGc(want[t])}

\* While a thread has the moving collectors disabled, nothing moves objects,
\* whichever of the two came first and whatever the collector has become since.
PinnedObjectsStay == (\E t \in Threads : pc[t] = "pinned") => Moving = {}

\* Once ThreadList::ShutDown has waited for the GC to complete, nobody collects,
\* compacts or changes the collector.
ShutdownQuiesces ==
  (\E t \in Threads : pc[t] = "down") =>
    \A t \in Working : call[t] # "collect" /\ pc[t] = "working"

\* Whoever waits for a collection is woken.
WaitersWoken == \A t \in Threads : (pc[t] = "waiting") ~> (pc[t] # "waiting")
=============================================================================
