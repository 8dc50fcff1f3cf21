------------------------ MODULE HeapCollectionsProofs ------------------------
(***************************************************************************)
(* Proofs about HeapCollections, for every finite set of threads and every *)
(* set of collector types: one collection at a time, no object moves while *)
(* it is pinned, and shutdown leaves nothing collecting.                   *)
(***************************************************************************)
EXTENDS HeapCollections, TLAPS, FiniteSetTheorems

\* The types, but for the bound on disable_moving_gc_count_.
Labels == {"idle", "enter", "waiting", "woken", "retry", "working", "moving", "changed", "pinned",
           "disable", "down"}
Calls == {None, "collect", "wait", "concurrent", "critical", "compact", "transition", "pin",
          "shutdown"}
StateTypes ==
  /\ running \in Types \cup {None, "SS", "HomogeneousSpaceCompact", "Critical"}
  /\ collectorType \in Types
  /\ lastGcType \in {None, "Full"}
  /\ pc \in [Threads -> Labels]
  /\ call \in [Threads -> Calls]
  /\ want \in [Threads -> Types \cup {None}]

FlagTypes == {blocking, gcDisabled, shuttingDown} \subseteq BOOLEAN

\* What a thread is doing where it is, and what that says of the announced type.
ShapeOf(t) ==
  /\ pc[t] = "idle" => call[t] = None
  /\ pc[t] = "pinned" => call[t] = "pin"
  /\ pc[t] = "retry" => call[t] = "transition"
  /\ pc[t] = "disable" => call[t] = None
  /\ pc[t] = "down" => call[t] = "shutdown"
  /\ pc[t] = "working" => call[t] \in {"collect", "critical", "compact", "transition"}
  /\ pc[t] = "moving" => call[t] \in {"compact", "transition"}
  /\ pc[t] = "changed" => call[t] = "transition"
  /\ call[t] = "transition" => want[t] \in Types

\* collector_type_running_ announces what the working thread does, and its owner
\* alone can change what the announcement was computed from.
AnnouncedOf(t) ==
  pc[t] \in {"working", "moving", "changed"} =>
    /\ running # None
    /\ call[t] = "collect" => running = collectorType
    /\ call[t] = "compact" => running = "HomogeneousSpaceCompact"
    /\ call[t] = "transition" /\ pc[t] # "changed" =>
         running = IF IsMovingGc(collectorType) # IsMovingGc(want[t]) THEN "SS" ELSE want[t]

\* Where a thread may be beside one that has pinned objects.
KeepsStill(t) ==
  pc[t] \in {"working", "moving"} =>
    /\ call[t] # "compact"
    /\ call[t] = "collect" => ~IsMovingGc(running)
    /\ call[t] = "transition" => IsMovingGc(collectorType) = IsMovingGc(want[t])

Pinning == {t \in Threads : call[t] = "pin"}

\* Once the shutdown thread has waited, collections are disabled for good.
ShutdownInv ==
  /\ gcDisabled => shuttingDown
  /\ \A u \in Threads : pc[u] = "disable" => shuttingDown
  /\ \A u \in Threads : call[u] = "shutdown" => gcDisabled
  /\ ShutdownQuiesces

\* The inductive invariant.
Inv ==
  /\ StateTypes /\ FlagTypes
  /\ \A t \in Threads : ShapeOf(t)
  /\ \A t \in Threads : AnnouncedOf(t)
  /\ \A t, u \in Working : t = u
  /\ running # None => Working # {}
  /\ pinned = Cardinality(Pinning)
  /\ \A u \in Threads : pc[u] = "pinned" => \A t \in Threads : KeepsStill(t)
  /\ ShutdownInv

-----------------------------------------------------------------------------
\* Init establishes the invariant.
LEMMA InitInv == Init => Inv
  <1> SUFFICES ASSUME Init PROVE Inv
    OBVIOUS
  <1>2. StateTypes
    BY Zenon DEF Init, StateTypes, Labels, Calls, None
  <1>3. Pinning = {} /\ Working = {}
    BY DEF Init, Pinning, Working, None
  <1>4. pinned = Cardinality(Pinning)
    BY <1>3, FS_EmptySet DEF Init
  <1>5. \A t \in Threads : ShapeOf(t) /\ AnnouncedOf(t) /\ pc[t] = "idle" /\ call[t] = None
    BY DEF Init, ShapeOf, AnnouncedOf, None
  <1>6. running = None /\ ~gcDisabled
    BY DEF Init
  <1>7. FlagTypes
    BY Zenon DEF Init, FlagTypes
  <1> QED
    BY <1>2, <1>3, <1>4, <1>5, <1>6, <1>7, Zenon DEF Inv, ShutdownInv, ShutdownQuiesces, None

\* Nothing announced means nobody at work.
LEMMA NoneAtWork ==
  ASSUME \A t \in Threads : AnnouncedOf(t), running = None
  PROVE  Working = {}
  BY DEF AnnouncedOf, Working

\* Every action keeps the types.
LEMMA StepTypes ==
  ASSUME StateTypes, \A t \in Threads : ShapeOf(t), Next
  PROVE  StateTypes'
  <1> USE DEF StateTypes, Labels, Calls, flags, calls, Goto, Granted, Begin, Continue, Return,
      Block, FinishGC
  <1>1. PICK t \in Threads : Progress(t) \/ Start(t) \/ WakeEarly(t)
    BY DEF Next
  <1>2. CASE WaitForRunning(t)
    BY <1>2 DEF WaitForRunning
  <1>3. CASE CollectGarbage(t)
    BY <1>3 DEF CollectGarbage
  <1>4. CASE WaitForGcToComplete(t) \/ ConcurrentGC(t)
    BY <1>4 DEF WaitForGcToComplete, ConcurrentGC
  <1>5. CASE StartGC(t) \/ HomogeneousSpaceCompact(t)
    BY <1>5 DEF StartGC, HomogeneousSpaceCompact
  <1>6. CASE TransitionCollector(t)
    BY <1>6 DEF TransitionCollector, ShapeOf
  <1>7. CASE TryTransitionAgain(t) \/ StartMoving(t) \/ PinAfterWait(t) \/ ShutDown(t)
    BY <1>7 DEF TryTransitionAgain, StartMoving, PinAfterWait, ShutDown
  <1>8. CASE FinishCollection(t) \/ FinishTransition(t)
    BY <1>8 DEF FinishCollection, FinishTransition
  <1>9. CASE ChangeCollector(t)
    BY <1>9 DEF ChangeCollector, ShapeOf
  <1>10. CASE DisableGCForShutdown(t) \/ BeginShutdown(t)
    BY <1>10 DEF DisableGCForShutdown, BeginShutdown
  <1>11. ASSUME NEW c \in {"collect", "wait", "concurrent", "critical", "compact", "transition"},
                NEW type \in Types \union {None}, Call(t, c, type)
         PROVE  StateTypes'
    BY <1>11 DEF Call
  <1>12. CASE IncrementDisableMovingGC(t) \/ DecrementDisableMovingGC(t) \/ WakeEarly(t)
    BY <1>12 DEF IncrementDisableMovingGC, DecrementDisableMovingGC, WakeEarly
  <1> QED
    BY <1>1, <1>2, <1>3, <1>4, <1>5, <1>6, <1>7, <1>8, <1>9, <1>10, <1>11, <1>12
       DEF Progress, Start

\* Every action leaves its thread where it does what it says.
LEMMA StepShape ==
  ASSUME StateTypes, \A u \in Threads : ShapeOf(u), Next
  PROVE  \A u \in Threads : ShapeOf(u)'
  <1> USE TypesAssumption DEF None, StateTypes, ShapeOf, Labels, Calls, flags, calls, Goto,
      Granted, Begin, Continue, Return, Block, FinishGC
  <1>1. PICK t \in Threads : Progress(t) \/ Start(t) \/ WakeEarly(t)
    BY DEF Next
  <1>2. CASE WaitForRunning(t)
    BY <1>2 DEF WaitForRunning
  <1>3. CASE CollectGarbage(t)
    BY <1>3 DEF CollectGarbage
  <1>4. CASE WaitForGcToComplete(t) \/ ConcurrentGC(t)
    BY <1>4 DEF WaitForGcToComplete, ConcurrentGC
  <1>5. CASE StartGC(t) \/ HomogeneousSpaceCompact(t)
    BY <1>5 DEF StartGC, HomogeneousSpaceCompact
  <1>6. CASE TransitionCollector(t)
    BY <1>6 DEF TransitionCollector
  <1>7. CASE TryTransitionAgain(t) \/ StartMoving(t) \/ PinAfterWait(t) \/ ShutDown(t)
    BY <1>7 DEF TryTransitionAgain, StartMoving, PinAfterWait, ShutDown
  <1>8. CASE FinishCollection(t) \/ FinishTransition(t)
    BY <1>8 DEF FinishCollection, FinishTransition
  <1>9. CASE ChangeCollector(t)
    BY <1>9 DEF ChangeCollector
  <1>10. CASE DisableGCForShutdown(t) \/ BeginShutdown(t)
    BY <1>10 DEF DisableGCForShutdown, BeginShutdown
  <1>11. ASSUME NEW c \in {"collect", "wait", "concurrent", "critical", "compact"}, Call(t, c, None)
         PROVE  \A u \in Threads : ShapeOf(u)'
    BY <1>11 DEF Call, None
  <1>12. ASSUME NEW type \in Types, Call(t, "transition", type)
         PROVE  \A u \in Threads : ShapeOf(u)'
    BY <1>12 DEF Call
  <1>13. CASE IncrementDisableMovingGC(t) \/ DecrementDisableMovingGC(t) \/ WakeEarly(t)
    BY <1>13 DEF IncrementDisableMovingGC, DecrementDisableMovingGC, WakeEarly
  <1> QED
    BY <1>1, <1>2, <1>3, <1>4, <1>5, <1>6, <1>7, <1>8, <1>9, <1>10, <1>11, <1>12, <1>13
       DEF Progress, Start

\* No step changes what another thread has announced.
LEMMA StepAnnounced ==
  ASSUME StateTypes, \A u \in Threads : ShapeOf(u) /\ AnnouncedOf(u),
         \A u, v \in Working : u = v, Next
  PROVE  \A u \in Threads : AnnouncedOf(u)'
  <1> USE TypesAssumption DEF None, StateTypes, ShapeOf, AnnouncedOf, Working, flags, calls,
      Goto, Granted, Begin, Continue, Return, Block, FinishGC
  <1>1. PICK t \in Threads : Progress(t) \/ Start(t) \/ WakeEarly(t)
    BY DEF Next
  <1>2. CASE WaitForRunning(t)
    BY <1>2 DEF WaitForRunning
  <1>3. CASE CollectGarbage(t)
    BY <1>3 DEF CollectGarbage
  <1>4. CASE WaitForGcToComplete(t) \/ ConcurrentGC(t)
    BY <1>4 DEF WaitForGcToComplete, ConcurrentGC
  <1>5. CASE StartGC(t) \/ HomogeneousSpaceCompact(t)
    BY <1>5 DEF StartGC, HomogeneousSpaceCompact
  <1>6. CASE TransitionCollector(t)
    BY <1>6 DEF TransitionCollector
  <1>7. CASE TryTransitionAgain(t) \/ StartMoving(t) \/ PinAfterWait(t) \/ ShutDown(t)
    BY <1>7 DEF TryTransitionAgain, StartMoving, PinAfterWait, ShutDown
  <1>8. CASE FinishCollection(t) \/ FinishTransition(t)
    BY <1>8 DEF FinishCollection, FinishTransition
  <1>9. CASE ChangeCollector(t)
    BY <1>9 DEF ChangeCollector
  <1>10. CASE DisableGCForShutdown(t) \/ BeginShutdown(t)
    BY <1>10 DEF DisableGCForShutdown, BeginShutdown
  <1>11. ASSUME NEW c \in {"collect", "wait", "concurrent", "critical", "compact"}, Call(t, c, None)
         PROVE  \A u \in Threads : AnnouncedOf(u)'
    BY <1>11 DEF Call, None
  <1>12. ASSUME NEW type \in Types, Call(t, "transition", type)
         PROVE  \A u \in Threads : AnnouncedOf(u)'
    BY <1>12 DEF Call
  <1>13. CASE IncrementDisableMovingGC(t) \/ DecrementDisableMovingGC(t) \/ WakeEarly(t)
    BY <1>13 DEF IncrementDisableMovingGC, DecrementDisableMovingGC, WakeEarly
  <1> QED
    BY <1>1, <1>2, <1>3, <1>4, <1>5, <1>6, <1>7, <1>8, <1>9, <1>10, <1>11, <1>12, <1>13
       DEF Progress, Start

\* One thread at a time is at work.
LEMMA StepSingle ==
  ASSUME StateTypes, \A u \in Threads : ShapeOf(u) /\ AnnouncedOf(u), \A u, v \in Working : u = v,
         running # None => Working # {}, Next
  PROVE  (\A u, v \in Working : u = v)' /\ (running # None => Working # {})'
  <1> USE TypesAssumption DEF None, StateTypes, ShapeOf, AnnouncedOf, Working, flags, calls,
      Goto, Granted, Begin, Continue, Return, Block, FinishGC
  <1>1. PICK t \in Threads : Progress(t) \/ Start(t) \/ WakeEarly(t)
    BY DEF Next
  <1>2. CASE WaitForRunning(t)
    BY <1>2 DEF WaitForRunning
  <1>3. CASE CollectGarbage(t)
    BY <1>3 DEF CollectGarbage
  <1>4. CASE WaitForGcToComplete(t) \/ ConcurrentGC(t)
    BY <1>4 DEF WaitForGcToComplete, ConcurrentGC
  <1>5. CASE StartGC(t) \/ HomogeneousSpaceCompact(t)
    BY <1>5 DEF StartGC, HomogeneousSpaceCompact
  <1>6. CASE TransitionCollector(t)
    BY <1>6 DEF TransitionCollector
  <1>7. CASE TryTransitionAgain(t) \/ StartMoving(t) \/ PinAfterWait(t) \/ ShutDown(t)
    BY <1>7 DEF TryTransitionAgain, StartMoving, PinAfterWait, ShutDown
  <1>8. CASE FinishCollection(t) \/ FinishTransition(t)
    BY <1>8 DEF FinishCollection, FinishTransition
  <1>9. CASE ChangeCollector(t)
    BY <1>9 DEF ChangeCollector
  <1>10. CASE DisableGCForShutdown(t) \/ BeginShutdown(t)
    BY <1>10 DEF DisableGCForShutdown, BeginShutdown
  <1>11. ASSUME NEW c \in {"collect", "wait", "concurrent", "critical", "compact"}, Call(t, c, None)
         PROVE  (\A u, v \in Working : u = v)' /\ (running # None => Working # {})'
    BY <1>11 DEF Call, None
  <1>12. ASSUME NEW type \in Types, Call(t, "transition", type)
         PROVE  (\A u, v \in Working : u = v)' /\ (running # None => Working # {})'
    BY <1>12 DEF Call
  <1>13. CASE IncrementDisableMovingGC(t) \/ DecrementDisableMovingGC(t) \/ WakeEarly(t)
    BY <1>13 DEF IncrementDisableMovingGC, DecrementDisableMovingGC, WakeEarly
  <1> QED
    BY <1>1, <1>2, <1>3, <1>4, <1>5, <1>6, <1>7, <1>8, <1>9, <1>10, <1>11, <1>12, <1>13
       DEF Progress, Start

\* Nobody pins objects under a thread that moves them, nor moves them under it.
LEMMA StepStill ==
  ASSUME StateTypes, \A u \in Threads : ShapeOf(u) /\ AnnouncedOf(u), \A u, v \in Working : u = v,
         pinned = 0 => \A u \in Threads : call[u] # "pin",
         \A u, v \in Threads : pc[u] = "pinned" => KeepsStill(v), Next
  PROVE  \A u, v \in Threads : (pc[u] = "pinned" => KeepsStill(v))'
  <1> USE TypesAssumption DEF None, StateTypes, ShapeOf, AnnouncedOf, Working, KeepsStill,
      IsMovingGc, flags, calls, Goto, Granted, Begin, Continue, Return, Block, FinishGC
  <1>1. PICK t \in Threads : Progress(t) \/ Start(t) \/ WakeEarly(t)
    BY DEF Next
  <1>2. CASE WaitForRunning(t)
    BY <1>2 DEF WaitForRunning
  <1>3. CASE CollectGarbage(t)
    BY <1>3 DEF CollectGarbage
  <1>4. CASE WaitForGcToComplete(t) \/ ConcurrentGC(t)
    BY <1>4 DEF WaitForGcToComplete, ConcurrentGC
  <1>5. CASE StartGC(t) \/ HomogeneousSpaceCompact(t)
    BY <1>5 DEF StartGC, HomogeneousSpaceCompact
  <1>6. CASE TransitionCollector(t)
    BY <1>6 DEF TransitionCollector
  <1>7. CASE TryTransitionAgain(t) \/ StartMoving(t) \/ PinAfterWait(t) \/ ShutDown(t)
    BY <1>7 DEF TryTransitionAgain, StartMoving, PinAfterWait, ShutDown
  <1>8. CASE FinishCollection(t) \/ FinishTransition(t)
    BY <1>8 DEF FinishCollection, FinishTransition
  <1>9. CASE ChangeCollector(t)
    BY <1>9 DEF ChangeCollector
  <1>10. CASE DisableGCForShutdown(t) \/ BeginShutdown(t)
    BY <1>10 DEF DisableGCForShutdown, BeginShutdown
  <1>11. ASSUME NEW c \in {"collect", "wait", "concurrent", "critical", "compact"}, Call(t, c, None)
         PROVE  \A u, v \in Threads : (pc[u] = "pinned" => KeepsStill(v))'
    BY <1>11 DEF Call, None
  <1>12. ASSUME NEW type \in Types, Call(t, "transition", type)
         PROVE  \A u, v \in Threads : (pc[u] = "pinned" => KeepsStill(v))'
    BY <1>12 DEF Call
  <1>13. CASE IncrementDisableMovingGC(t) \/ DecrementDisableMovingGC(t) \/ WakeEarly(t)
    BY <1>13 DEF IncrementDisableMovingGC, DecrementDisableMovingGC, WakeEarly
  <1> QED
    BY <1>1, <1>2, <1>3, <1>4, <1>5, <1>6, <1>7, <1>8, <1>9, <1>10, <1>11, <1>12, <1>13
       DEF Progress, Start

\* disable_moving_gc_count_ stays, or a thread comes or goes with it.
PinMove ==
  \/ pinned' = pinned /\ Pinning' = Pinning
  \/ \E u \in Threads \ Pinning : pinned' = pinned + 1 /\ Pinning' = Pinning \union {u}
  \/ \E u \in Pinning : pinned' = pinned - 1 /\ Pinning' = Pinning \ {u}

\* disable_moving_gc_count_ follows the threads that come and go.
LEMMA StepPinning ==
  ASSUME StateTypes, \A u \in Threads : ShapeOf(u), Next
  PROVE  PinMove
  <1> USE DEF StateTypes, ShapeOf, Pinning, PinMove, None, flags, calls, Goto, Granted, Begin,
      Continue, Return, Block, FinishGC
  <1>1. PICK t \in Threads : Progress(t) \/ Start(t) \/ WakeEarly(t)
    BY DEF Next
  <1>2. CASE WaitForRunning(t)
    BY <1>2 DEF WaitForRunning
  <1>3. CASE CollectGarbage(t)
    BY <1>3 DEF CollectGarbage
  <1>4. CASE WaitForGcToComplete(t) \/ ConcurrentGC(t)
    BY <1>4 DEF WaitForGcToComplete, ConcurrentGC
  <1>5. CASE StartGC(t) \/ HomogeneousSpaceCompact(t)
    BY <1>5 DEF StartGC, HomogeneousSpaceCompact
  <1>6. CASE TransitionCollector(t)
    BY <1>6 DEF TransitionCollector
  <1>7. CASE TryTransitionAgain(t) \/ StartMoving(t) \/ PinAfterWait(t) \/ ShutDown(t)
    BY <1>7 DEF TryTransitionAgain, StartMoving, PinAfterWait, ShutDown
  <1>8. CASE FinishCollection(t) \/ FinishTransition(t)
    BY <1>8 DEF FinishCollection, FinishTransition
  <1>9. CASE ChangeCollector(t)
    BY <1>9 DEF ChangeCollector
  <1>10. CASE DisableGCForShutdown(t) \/ BeginShutdown(t)
    BY <1>10 DEF DisableGCForShutdown, BeginShutdown
  <1>11. ASSUME NEW c \in {"collect", "wait", "concurrent", "critical", "compact"}, Call(t, c, None)
         PROVE  PinMove
    BY <1>11 DEF Call, None
  <1>12. ASSUME NEW type \in Types, Call(t, "transition", type)
         PROVE  PinMove
    BY <1>12 DEF Call
  <1>13. CASE IncrementDisableMovingGC(t) \/ DecrementDisableMovingGC(t) \/ WakeEarly(t)
    BY <1>13 DEF IncrementDisableMovingGC, DecrementDisableMovingGC, WakeEarly
  <1> QED
    BY <1>1, <1>2, <1>3, <1>4, <1>5, <1>6, <1>7, <1>8, <1>9, <1>10, <1>11, <1>12, <1>13
       DEF Progress, Start

\* After the shutdown thread has waited, no collection begins and nothing moves.
LEMMA StepShutdown ==
  ASSUME StateTypes, \A u \in Threads : ShapeOf(u) /\ AnnouncedOf(u), ShutdownInv, Next
  PROVE  ShutdownInv'
  <1> USE DEF StateTypes, ShapeOf, AnnouncedOf, Working, ShutdownInv, ShutdownQuiesces, None,
      flags, calls, Goto, Granted, Begin, Continue, Return, Block, FinishGC
  <1>1. PICK t \in Threads : Progress(t) \/ Start(t) \/ WakeEarly(t)
    BY DEF Next
  <1>2. CASE WaitForRunning(t)
    BY <1>2 DEF WaitForRunning
  <1>3. CASE CollectGarbage(t)
    BY <1>3 DEF CollectGarbage
  <1>4. CASE WaitForGcToComplete(t) \/ ConcurrentGC(t)
    BY <1>4 DEF WaitForGcToComplete, ConcurrentGC
  <1>5. CASE StartGC(t) \/ HomogeneousSpaceCompact(t)
    BY <1>5 DEF StartGC, HomogeneousSpaceCompact
  <1>6. CASE TransitionCollector(t)
    BY <1>6 DEF TransitionCollector
  <1>7. CASE TryTransitionAgain(t) \/ StartMoving(t) \/ PinAfterWait(t) \/ ShutDown(t)
    BY <1>7 DEF TryTransitionAgain, StartMoving, PinAfterWait, ShutDown
  <1>8. CASE FinishCollection(t) \/ FinishTransition(t)
    BY <1>8 DEF FinishCollection, FinishTransition
  <1>9. CASE ChangeCollector(t)
    BY <1>9 DEF ChangeCollector
  <1>10. CASE DisableGCForShutdown(t) \/ BeginShutdown(t)
    BY <1>10 DEF DisableGCForShutdown, BeginShutdown
  <1>11. ASSUME NEW c \in {"collect", "wait", "concurrent", "critical", "compact"}, Call(t, c, None)
         PROVE  ShutdownInv'
    BY <1>11 DEF Call, None
  <1>12. ASSUME NEW type \in Types, Call(t, "transition", type)
         PROVE  ShutdownInv'
    BY <1>12 DEF Call
  <1>13. CASE IncrementDisableMovingGC(t) \/ DecrementDisableMovingGC(t) \/ WakeEarly(t)
    BY <1>13 DEF IncrementDisableMovingGC, DecrementDisableMovingGC, WakeEarly
  <1> QED
    BY <1>1, <1>2, <1>3, <1>4, <1>5, <1>6, <1>7, <1>8, <1>9, <1>10, <1>11, <1>12, <1>13
       DEF Progress, Start

\* The flags stay Boolean.
LEMMA StepFlags ==
  ASSUME FlagTypes, Next
  PROVE  FlagTypes'
  <1> USE DEF FlagTypes, flags, calls, Goto, Granted, Begin, Continue, Return, Block, FinishGC
  <1>1. PICK t \in Threads : Progress(t) \/ Start(t) \/ WakeEarly(t)
    BY DEF Next
  <1>2. CASE WaitForRunning(t)
    BY <1>2, Zenon DEF WaitForRunning
  <1>3. CASE CollectGarbage(t)
    BY <1>3, Zenon DEF CollectGarbage
  <1>4. CASE WaitForGcToComplete(t) \/ ConcurrentGC(t)
    BY <1>4, Zenon DEF WaitForGcToComplete, ConcurrentGC
  <1>5. CASE StartGC(t) \/ HomogeneousSpaceCompact(t)
    BY <1>5, Zenon DEF StartGC, HomogeneousSpaceCompact
  <1>6. CASE TransitionCollector(t)
    BY <1>6, Zenon DEF TransitionCollector
  <1>7. CASE TryTransitionAgain(t) \/ StartMoving(t) \/ PinAfterWait(t) \/ ShutDown(t)
    BY <1>7, Zenon DEF TryTransitionAgain, StartMoving, PinAfterWait, ShutDown
  <1>8. CASE FinishCollection(t) \/ FinishTransition(t)
    BY <1>8, Zenon DEF FinishCollection, FinishTransition
  <1>9. CASE ChangeCollector(t)
    BY <1>9, Zenon DEF ChangeCollector
  <1>10. CASE DisableGCForShutdown(t) \/ BeginShutdown(t)
    BY <1>10, Zenon DEF DisableGCForShutdown, BeginShutdown
  <1>11. ASSUME NEW c \in {"collect", "wait", "concurrent", "critical", "compact"}, Call(t, c, None)
         PROVE  FlagTypes'
    BY <1>11, Zenon DEF Call, None
  <1>12. ASSUME NEW type \in Types, Call(t, "transition", type)
         PROVE  FlagTypes'
    BY <1>12, Zenon DEF Call
  <1>13. CASE IncrementDisableMovingGC(t) \/ DecrementDisableMovingGC(t) \/ WakeEarly(t)
    BY <1>13, Zenon DEF IncrementDisableMovingGC, DecrementDisableMovingGC, WakeEarly
  <1> QED
    BY <1>1, <1>2, <1>3, <1>4, <1>5, <1>6, <1>7, <1>8, <1>9, <1>10, <1>11, <1>12, <1>13, Zenon
       DEF Progress, Start

-----------------------------------------------------------------------------
\* The count of pins is zero only if nobody has one.
LEMMA NoPins ==
  ASSUME pinned = Cardinality(Pinning), pinned = 0
  PROVE  \A u \in Threads : call[u] # "pin"
  <1>1. IsFiniteSet(Pinning)
    BY ThreadsAssumption, FS_Subset DEF Pinning
  <1>2. Pinning = {}
    BY <1>1, FS_EmptySet
  <1> QED
    BY <1>2 DEF Pinning

\* The count stays exact, whichever thread comes or goes.
LEMMA StepCount ==
  ASSUME StateTypes, \A t \in Threads : ShapeOf(t), pinned = Cardinality(Pinning), Next
  PROVE  pinned' = Cardinality(Pinning')
  <1>1. IsFiniteSet(Pinning)
    BY ThreadsAssumption, FS_Subset DEF Pinning
  <1>2. Cardinality(Pinning) \in Nat
    BY <1>1, FS_CardinalityType
  <1>3. \A u \in Threads \ Pinning : Cardinality(Pinning \union {u}) = Cardinality(Pinning) + 1
    BY <1>1, FS_AddElement
  <1>4. \A u \in Pinning : Cardinality(Pinning \ {u}) = Cardinality(Pinning) - 1
    BY <1>1, FS_RemoveElement
  <1> QED
    BY <1>2, <1>3, <1>4, StepPinning DEF PinMove

\* The invariant is inductive.
LEMMA StepInv == Inv /\ [Next]_vars => Inv'
  <1>1. ASSUME Inv, Next PROVE Inv'
    <2>1. StateTypes' /\ FlagTypes'
      BY <1>1, StepTypes, StepFlags DEF Inv
    <2>2. \A t \in Threads : ShapeOf(t)' /\ AnnouncedOf(t)'
      BY <1>1, StepShape, StepAnnounced DEF Inv
    <2>3. (\A t, u \in Working : t = u)' /\ (running # None => Working # {})'
      BY <1>1, StepSingle DEF Inv
    <2>4. pinned' = Cardinality(Pinning')
      BY <1>1, StepCount DEF Inv
    <2>5. \A u, v \in Threads : (pc[u] = "pinned" => KeepsStill(v))'
      BY <1>1, StepStill, NoPins DEF Inv
    <2> QED
      BY <1>1, <2>1, <2>2, <2>3, <2>4, <2>5, StepShutdown, Zenon DEF Inv
  <1>2. ASSUME Inv, UNCHANGED vars PROVE Inv'
    <2>1. UNCHANGED <<running, collectorType, pinned, blocking, lastGcType, gcDisabled,
                      shuttingDown, pc, call, want>>
      BY <1>2 DEF vars, flags, calls
    <2> QED
      BY <1>2, <2>1, Zenon DEF Inv, StateTypes, FlagTypes, ShapeOf, AnnouncedOf, KeepsStill,
         Working,
         Pinning, ShutdownInv, ShutdownQuiesces
  <1> QED
    BY <1>1, <1>2

\* The inductive invariant holds of every reachable state.
THEOREM Invariance == Spec => []Inv
  BY InitInv, StepInv, PTL DEF Spec

\* Every variable keeps its type, and disable_moving_gc_count_, which is an
\* unsigned word in the code, is never decremented below zero.
THEOREM TypeCorrect == Spec => []TypeOK
  <1>1. ASSUME Inv PROVE TypeOK
    <2>1. IsFiniteSet(Pinning) /\ Cardinality(Pinning) <= Cardinality(Threads)
      BY ThreadsAssumption, FS_Subset DEF Pinning
    <2>2. pinned \in 0..Cardinality(Threads)
      BY <1>1, <2>1, ThreadsAssumption, FS_CardinalityType DEF Inv
    <2> QED
      BY <1>1, <2>2, Zenon DEF Inv, TypeOK, StateTypes, FlagTypes, Labels, Calls
  <1> QED
    BY <1>1, Invariance, PTL

\* At most one thread collects, compacts, transitions or holds a GC critical
\* section, collector_type_running_ says whether one does, and a collection finds
\* the collector_type_ it announced although it reads it again without the lock.
THEOREM CollectionsExclude == Spec => []OneCollection
  <1>1. ASSUME Inv PROVE OneCollection
    <2>1. CASE running = None
      BY <1>1, <2>1, NoneAtWork, FS_EmptySet DEF Inv, OneCollection
    <2>2. CASE running # None
      <3>1. PICK t \in Working : Working = {t}
        BY <1>1, <2>2 DEF Inv
      <3>2. Cardinality(Working) = 1
        BY <3>1, FS_Singleton, Zenon
      <3> QED
        BY <1>1, <2>2, <3>2 DEF Inv, OneCollection, AnnouncedOf, Working
    <2> QED
      BY <2>1, <2>2
  <1> QED
    BY <1>1, Invariance, PTL

\* No object moves while a thread has the moving collectors disabled
\* (IncrementDisableMovingGC), whatever collections, compactions and transitions
\* other threads ask for.
THEOREM PinsHold == Spec => []PinnedObjectsStay
  <1>1. ASSUME Inv PROVE PinnedObjectsStay
    BY <1>1 DEF Inv, PinnedObjectsStay, Moving, Working, KeepsStill, AnnouncedOf, ShapeOf
  <1> QED
    BY <1>1, Invariance, PTL

\* Once the shutdown has waited for the last collection, none begins and nothing
\* moves.
THEOREM ShutdownIsQuiet == Spec => []ShutdownQuiesces
  <1>1. Inv => ShutdownQuiesces
    BY DEF Inv, ShutdownInv
  <1> QED
    BY <1>1, Invariance, PTL
=============================================================================
