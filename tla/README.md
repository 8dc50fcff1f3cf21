# Verification of the ART runtime's thread coordination

ART is the Android runtime; this repository is a fork of it with an LLVM back
end. Its hard part, for a test, is not bytecode but the way threads stop, start,
visit and wait for each other: locks built on futexes, a stop-the-world protocol
built on an atomic word per thread, checkpoints, the root flip and the concurrent
marking of the copying collector, the locks of Java objects, and the daemon and
the threads that compete to collect. This directory models those parts in TLA+,
checks them with TLC on small instances, and proves what it can with TLAPS.

## 1. Inventory

| Part | State | Operations | What is hard |
|---|---|---|---|
| `Mutex`, `ConditionVariable` (`runtime/base/mutex.cc`) | `state_and_contenders_`, `exclusive_owner_`, `recursion_count_`, `sequence_`, `num_waiters_`, the kernel's futex queues | lock, try-lock, unlock, wait, timed wait, signal, broadcast | wakeups lost between a look at the word and the sleep; a contender count kept from two places; requeued waiters |
| `ReaderWriterMutex` (same files) | `state_`, two pending counts, `exclusive_owner_` | shared and exclusive lock, timeout, try, unlock | an unlock reads three words one after the other |
| `Thread` (`runtime/thread.cc`, `thread-inl.h`, `thread.h`) | `state_and_flags`, `suspend_count`, `active_suspend_barriers`, `checkpoint_function`, `checkpoint_overflow_`, `flip_function` | transitions to and from runnable, suspend check, checkpoints, synchronous checkpoint, passing barriers | everything is read and written without a lock by one thread and with a lock by others |
| `ThreadList` (`runtime/thread_list.cc`) | `list_`, `suspend_all_count_`, two locks, the mutator lock, `resume_cond_` | SuspendAll, ResumeAll, FlipThreadRoots, RunCheckpoint, SuspendThreadByThreadId, Resume, Register, Unregister | the operations overlap; threads attach and detach in the middle; lowering a count and broadcasting are separate steps |
| Thread flip and JNI critical sections (`runtime/gc/heap.cc`) | `thread_flip_running_`, `disable_thread_flip_count_`, one counter per thread | Increment/DecrementDisableThreadFlip, ThreadFlipBegin, ThreadFlipEnd | starvation of the collector, circular waits with a suspension |
| Empty checkpoint, `Barrier` (`thread_list.cc`, `barrier.cc`, `gc/system_weak.h`) | a request flag per thread, a count, weak reference access | RunEmptyCheckpoint and the four places that answer it | a thread answers while it waits for a lock |
| Marking and reference processing (`gc/collector/concurrent_copying*`, `gc/reference_*.cc`, `read_barrier-inl.h`) | gray bits, mark bitmap, four kinds of mark stack, reference queues | read barrier, scan, mode switches, delay, preserve, clear, GetReferent | mutators push while the collector decides that it is done |
| `Monitor`, `LockWord` (`runtime/monitor.cc`, `lock_word.h`, `mirror/object.cc`) | the lock word of an object, owner, count, wait set, wake set, hash code | thin lock, inflate, deflate, wait, notify, identity hash | inflating a lock whose owner has to be suspended; freeing a monitor others have read |
| Heap tasks (`gc/task_processor.cc`, `gc/heap.cc`) | a queue by time, three "pending" fields | add, update, take, stop; requests and the tasks that serve them | signals, a field and a queue kept in step |
| Collection start and completion (`gc/heap.cc`) | `collector_type_running_`, `disable_moving_gc_count_`, shutdown flags | collect, compact, change collector, pin, wait, shut down | everybody waits on one condition |

`PROJECT.json` lists every part with its status and, under `hazards`, the lines
where something can go wrong that a test would hardly reach.

Correctness here means: a thread that has stopped the world has it to itself; a
thread's stack is visited by another only while it is suspended and attached; no
suspend count is lost or lowered twice; each checkpoint and each flip function
runs once on each thread; no mutator holds an object the collector will free; the
lock of an object is one lock, whatever it is made of; nobody waits for ever.

## 2. Modules and how they correspond to the code

Common to all modules: a thread is at a label `pc[t]`, an action is what it does
until it next touches something that others can see, and `op`, `call` or `mode`
says in which call it is. Comments on the variables name the fields they stand
for; `PROJECT.json` maps every definition to its lines.

**`FutexMutex`** is one `Mutex` with one `ConditionVariable`. The lock word is kept
as its two fields (`heldBit`, `contenders`), the kernel's futex queues are two
sets of sleeping threads. A load followed by a compare-and-set that retries is
one step; every other access made without the lock is a step of its own, so the
steps of `ExclusiveLock` are `AcquireCas`, `Contend`, `IncrementContenders`,
`FutexWait`, `DecrementContenders` and `SetOwner`. `WakeEarly` is every reason for
which a futex wait ends without a wake. `depth` is a history variable: the lock
calls of a thread less its unlock calls.

**`ReaderWriterMutex`** has `state_`, the two pending counts and `exclusive_owner_`
as separate words; an unlock changes the first and then looks at the counts one by
one (`Look`, `LookAgain`, `Wake`). **`SharedLock`** is the lock it promises: held by
one thread exclusively or by several shared.

**The thread list** is one specification in seven modules:

| Module | Code |
|---|---|
| `ThreadSuspension` | the state of every thread; what a thread does to itself: leave and enter the runnable state, run checkpoints and flip functions, claim and pass barriers, wait for resumption. Also `CanRaise`, `Raise`, `Lower`: the three outcomes of `ModifySuspendCountInternal` |
| `SuspendAll` | `SuspendAllInternal`, `SuspendAll`, `ResumeAll` |
| `ThreadFlip` | `FlipThreadRoots`, the JNI critical sections of the heap, and the wait at `gc_barrier_` in `ConcurrentCopying::FlipThreadRoots` |
| `Checkpoints` | `RunCheckpoint` and the barrier on which its callers wait, without a timeout |
| `SuspendThread` | `SuspendThreadByThreadId` and `Resume` |
| `SynchronousCheckpoint` | `Thread::RequestSynchronousCheckpoint` with the default `suspend_state`: the caller waits in a suspended state |
| `ThreadList` | `Register`, `Unregister`, the composition of all of these, and the properties |

Labels beginning with `sa`, `ra`, `flip`, `rc`, `st`, `sc` are inside an operation
`op[t]`. `cont[t]` is where a thread continues after a transition to a suspended
state. `cur`, `todo`, `raised` and `due` are the local variables of an operation:
the thread being worked on, the rest of the list, the threads whose count it has
raised (`suspended_count_modified_threads`, `suspended_thread`; for SuspendAll and
the flip, a history variable), and the threads on which its closure has still to
run (the barrier count).

`thread_list_lock_` and `thread_suspend_count_lock_` are variables. A critical
section is one step unless another thread can see its middle through
`state_and_flags`, which is read and changed without a lock: the loops of
SuspendAllInternal, RunCheckpoint and SuspendThreadByThreadId therefore take one
step per thread and per look at its state. The loops that only lower counts
(ResumeAll, the end of FlipThreadRoots) are one step: a thread freed early by such
a loop could run before the loop ends, but its steps do not read what the loop
still has to write, and every step of it that could matter to the loop needs one
of the locks. The two locks are taken in one step where they are taken together.

Thread states other than runnable and waiting-for-flip are one state
`"Suspended"`; a checkpoint is named by its caller; a closure's work is left out;
the mutator lock is a reader-writer lock with an owner and readers, and a thread's
share of it is its runnable state, as in `MutatorMutex`. Timeouts that end in a
fatal error are left out; the timeout of SuspendThreadByThreadId is `SuspendTimeout`.
The callers of RunCheckpoint that are modelled wait for it without a timeout, as
`Runtime::NotifyStartupCompleted` and `Heap::TrimIndirectReferenceTables` do; for
`ThreadList::Dump`, which has one, see section 7.

**`Barrier`** is the counting barrier; **`EmptyCheckpoint`** extends it with
`RunEmptyCheckpoint`, the mutators that answer at a suspend check, while they block
for weak reference access and while they block on a mutex, and the checkpoint by
which the collector disables weak reference access before it. There is one holder
of weak references and one expected mutex.

**`MarkStack`** is the copying phase of the concurrent copying collector from the
flip to the end of marking, over unevacuated regions: the read barrier of mutators
(`ReadState`, `Load`, `TestBitmap`, `SetGray`, `PushOntoMarkStack`), the collector's
passes (`StartPass`, `Pop`, `Scan`, `Ungray`, `EndPass`), its checkpoints, the two
changes of the mark stack mode, and the processing of one soft or weak Reference
and one FinalizerReference. A push onto a full thread-local stack hands that stack to
the revoked ones; how many objects fill a stack is left open. `ProcessReferences` and
`StartPreservingReferences` are two steps, as they are two critical sections. A field holds one object or null; the initial states are
all small heaps.

**`Monitor`** is the lock of one Java object: the lock word with its four states,
the Monitor it is inflated to, and `MonitorEnter`, `MonitorExit`, `Wait`, `Notify`,
`NotifyAll`, `IdentityHashCode` and `DeflateMonitors`. Suspension is reduced to what
ThreadList provides: a suspended thread becomes runnable only while nobody suspends
it, and a request to suspend the owner of a thin lock may fail (`OwnerNotSuspended`). **`JavaMonitor`** is what it promises: a recursive lock that `wait` gives up and
takes back whole.

**`TaskProcessor`** is the queue of `HeapTask`s and its daemon; **`HeapTasks`** extends
it with the requests of the heap (`RequestCollectorTransition`, `RequestTrim`,
`RequestConcurrentGC`, `PostForkChildAction`) and the tasks that serve them. Time is a
counter.

**`HeapCollections`** is who may collect when: everything that sets
`collector_type_running_`, waits on `gc_complete_cond_` or disables moving.

The `MC...` modules extend these for TLC.

## 3. Runs

| Run | Instance | Shows |
|---|---|---|
| `futex_mutex` | 3 threads, recursion to 2, 1 signal | exclusion, contender and recursion bookkeeping, no lost wakeup, no lost signal |
| `reader_writer_mutex` | 3 threads | the pending counts are exact, the mutex implements `SharedLock`, no wakeup is lost, a free mutex with a sleeper is taken |
| `thread_list` | 3 threads, 3 calls, every operation but JNI | exclusion, exact suspend counts and barriers, each checkpoint once and queued only on runnable threads, no lost resumption, nobody refers to a detached thread |
| `thread_list_live` | 2 threads, 2 calls, nested JNI critical sections | flip functions run before managed code, flips exclude critical sections, operations and their retries end |
| `suspend_cycle` | 2 threads, 2 calls | violated: section 6 |
| `empty_checkpoint` | 2 mutators, 1 round | the checkpoint ends, only after the accesses it found, with the exact count |
| `weak_access` | 2 mutators, 1 round | violated: section 6 |
| `mark_stack` | 1 mutator, 2 objects and the Reference, every heap | no gray object is forgotten, marking has converged when the collector takes it to have, only the collector pushes once it has the mark stack to itself, the mutator never holds an unmarked object, finalizers see cleared references |
| `monitor` | 3 threads, thin count to 1, 2 hash codes, depth 3 | the lock word and the monitor implement `JavaMonitor`; no monitor is freed under its users, no wakeup is lost, one identity hash |
| `heap_tasks` | 2 threads and the daemon, 2 requests of 5 kinds, 4 tasks | the daemon never sleeps past a task, every pending mark has exactly one task that clears it, queued once, a requested collection starts |
| `heap_tasks_desired` | 1 thread and the daemon, 2 requests | violated: section 6 |
| `heap_collections` | the daemon and 2 threads, 2 collector types | one collection at a time, nothing moves pinned objects, nobody collects after shutdown has waited, waiters are woken |

Bounds. In the thread list three threads are a caller, a target and a third party
(a second caller, or a thread that attaches), and three calls let every pair of
operations overlap with a third one in progress. The liveness run has two threads:
each is caller and target, and the retries, the cycles of threads suspending each
other and the waits for a flip all happen with two. Two nested critical sections
(`MaxNestedCritical`) distinguish outermost from nested. `MaxSuspendBarriers` is the
code's 3, which these instances cannot exhaust. `MaxSequence` bounds the number of
signals, `MaxRecursion` at 2 distinguishes the first lock from the others.
`kThinLockMaxCount` is 1 rather than 4095 so that a recursive lock overflows the thin
lock's count, with `MaxDepth` 3 beyond it; two hash codes are enough for two callers
to disagree. In `MarkStack` two objects make a chain below a root or below the
Reference; the instance with two mutators and one object has been explored as well.
Four tasks are more than can be pending at once in `heap_tasks`; `MaxTime` at `Delay`
lets a task be early, due, or overtaken. One round of the empty checkpoint starts from
any state of the mutators.

Symmetry is used in the runs without liveness properties (`thread_list`,
`mark_stack`, `monitor`), where no definition names a particular thread or object.

Deadlock is checked except where the model really may stop: `heap_tasks` and
`heap_tasks_desired` when the requests and the time are used up; `mark_stack`, which
is one collection, when it is over and the mutator holds nothing; `empty_checkpoint`,
whose instance contains the deadlock that `weak_access` reports, before the checkpoint
that the run is about begins.

Fairness. `FutexMutex`, `ReaderWriterMutex`, `HeapCollections`: weak fairness of the
steps inside a call and of unlocking; a thread that can run does, and critical sections
and collections end. Nothing is assumed about early wakeups or about calls. `ThreadList`:
strong fairness of each thread's protocol steps (`Progress`): the scheduler runs every
thread, the two locks do not pass over a waiter for ever, busy-wait loops look again, and
a runnable thread reaches its next suspend check. Strong rather than weak, because a step
that needs a lock is disabled whenever somebody holds it. `FairJniSpec` also has JNI
critical sections end, which the JNI specification asks of native code. `EmptyCheckpoint`:
weak fairness of the collector, of its timed wait and of a mutator inside a call; strong
fairness of suspend checks and of the two locks, for the same reasons. `HeapTasks`: weak
fairness of threads inside a request, of the daemon, of its start by the runtime, and of
time. Nothing obliges a thread to leave or enter the runnable state, to attach, to request
anything, or to time out. `Monitor` and `MarkStack` have no fairness: their properties are
about safety.

## 4. What is proved

All theorems are for every finite set of threads, those of `MarkStackProofs` for any set, and all
values of the other constants that satisfy the named assumptions (the threads are finite in number
and differ from the value that stands for none; bounds are natural numbers; hash codes are
positive; no object is null or the Reference).

**`FutexMutexProofs`**: `TypeCorrect` (no counter goes below zero), `MutexIsExclusive`,
`OwnerIsHolder` (the DCHECKs on `exclusive_owner_`), `ContendersAreExact` (the CHECKs on
`num_waiters_` and the contender count), `RecursionIsExact`, `NoWakeupIsLost`, and
`SignalsReach` (the action property `SignalReaches`). None of the first five is inductive alone.
`IInv` adds: `OwnerInv`, the owner at every label; `QueuesAsleep`, a futex queue holds
sleeping threads only and a thread sleeps on one futex (without it a wake could move a
running thread); `WaitLabels`, where a thread inside `Wait` can be (without it a waiter
could be counted twice); `RecursionInv`, the count at every label of the holder, and that
it is zero when nobody holds the mutex (without it `SetOwner` could start from a wrong
count). `NextInv` has one case for each action. The two cardinalities of `ContendersExact`
change by one thread at a time: `CountAdd` and `CountRemove`. `NoWakeupIsLost` needs only that
a sleeper is counted (`SleepersAreCounted`), so that the unlock that frees the mutex goes on to
wake one. `SignalsReach` needs `SequenceInv`: what a waiter on its way to `FUTEX_WAIT` compares
`sequence_` with is not above it, and below it while a signal is in progress.

**`ReaderWriterMutexProofs`**: `MutexImplementsLock` (the refinement of `SharedLock`),
`NoWakeupIsLost`, `PendingCountsAreExact`, `OwnerIsExact`, `TypeCorrect`. The inductive invariant `IInv`
adds to the properties: `HeldExact`, `state_` counts the readers or is -1 for the one
writer; `OwnerSet` and `WriterMode`, which label goes with which owner and mode;
`SleepersAsleep`; and `ExpectedTaken`, the value passed to the futex is one that keeps the
thread out, without which a thread could go to sleep beside a free mutex. Each step is first
put into one of five kinds by what it does to the holders (`HoldersStep`) and into one of
three by what it does to the pending threads (`PendingStep`); the invariant follows kind by
kind, and so does the refinement. `NoWakeupIsLost` rests on `PendingExact`: an unlock that
looks at a count sees every sleeper (`SleeperCounted`).

**The thread list**, in two modules:

- `Control`: `ControlInv`, where every thread can be in which state, holding which locks, in
  which operation.
- `CheckpointsNeedRunnable`: `CheckpointOnlyWhenRunnable`, so the two fatal branches of the
  transitions are unreachable.
- `SuspendCountsAreExact`: `SuspendCountExact`, every suspend count is the number of
  operations that have raised it and not yet lowered it.
- `BarriersAreExact`: `BarrierExact`, the count a SuspendAll or a flip waits for is the number
  of threads that have still to pass its barrier.
- `SuspendAllExcludes`: `Exclusion`, while a thread has stopped the world nobody else is
  runnable.
- `VisitedAreSuspended`: `VisitedSuspended`, a thread whose closure another thread is about to
  run for it, or whom SuspendThreadByThreadId has returned, is suspended.
- `ResumesAreNotLost`: `ResumeNotLost`, whoever waits on `resume_cond_` is suspended or about to
  be notified.
- `FlipsExcludeCriticalSections`: `CriticalExcludesFlip`, no thread is in a JNI critical section
  during the pause of a flip.
- `CheckpointsRunExactlyOnce`: `CheckpointExactlyOnce`, every checkpoint runs once on every thread
  it was requested for; its callers wait without a timeout.
- `FlipsBeforeManagedCode`: `FlipBeforeManagedCode`, a thread's flip function has run before it
  runs managed code.
- `ReferencesAreAttached`: `ReferencedAttached`, no operation is left with a thread that has
  detached.

`SuspensionProofs` shows first that the operations keep the control and who is stopped: a thread's
own transitions, SuspendAll, the flip, RunCheckpoint, the suspension of one thread and the
synchronous checkpoint; then it adds attaching and detaching and has the counts, the barriers, the
waiters and the critical sections. `ThreadListProofs` has the checkpoints and flip functions, and
the theorems. For each of these
six families of steps there is a lemma that it keeps the control (`TransitionKeepsControl`,
`SuspendAllKeepsControl`, ...) and one that it keeps who is stopped by whom
(`TransitionKeepsStops`, ...).

`CheckpointOnlyWhenRunnable` is not inductive: `Unregister` and `Register` keep it only
because a thread that detaches is not runnable, which is `StateAt`; that in turn needs `OpAt`
(a thread on its way out of the runnable state continues where its operation expects it) and
`LockAt`. A step of one thread leaves the control of all others alone (`Frame`), so each step
is looked at for the thread that takes it only (`ControlKept`). For the counts, `CountsInv`
adds `RaisedAt`, whose counts each operation has raised at each of its labels, and that
`suspend_all_count_` is the number of threads that are suspending all (`AllInv`), by which
`Register` gives a new thread the right count. Each operation is shown to leave the counts
alone, raise them for a set of threads or lower them for one (`CountStep`); `RaiseCounts` and
`LowerCounts` then say that the count moves with the set of operations that raised it.

`StopInv` adds what a raised count means for the thread it was raised for. `BarrierAt`: a caller's
barrier is active, or has been claimed and not yet passed, only on threads whose count the caller
has raised. `PendingAt`: the caller's count of pending threads is the number of those plus the
threads it has still to look at. `StoppedAt`: a thread whose count is raised by an operation that
holds it is not runnable unless a barrier of that operation is still to be passed on it. So when
the count reaches zero every other thread is suspended, and it stays so because a thread returns
to the runnable state only with a suspend count of zero, which `SuspendCountExact` rules out.
The lemmas take what they need of finite sets as a hypothesis, `Counting`, which
`ThreadsAreCounted` discharges at the end.

Four more invariants rest on `StopInv`. `ResumeInv`: a waiter on `resume_cond_` is in the loop of
its transition. `CriticalInv`: one flip runs at a time, the count of critical sections is the
number of threads in one, and where the flip is says whether it may be above zero. `DueInv`: the
threads that a checkpoint has still to run on are in four disjoint parts, the caller itself, those
it has still to ask, those that have it queued, once, and those it keeps suspended; the part that a
thread is in moves with the step that runs the checkpoint, also where the request fails because the
thread has become runnable or suspended meanwhile. `FlipInv`: a flip function that is installed
belongs to the flip that is running, and either the caller has still to run it, or its thread is on
the way to being runnable, where it runs it itself, or waits for the flip to end.

**`MonitorProofs`**:

- `MonitorImplementsJavaMonitor`: the refinement of `JavaMonitor`.
- `UsersKeepTheirMonitor`: `UsersKeepMonitor`.
- `InstallChecksHold`: `InstallChecks`.
- `IdentityHashNeverChanges`: `IdentityHashIsStable`.
- `NoWakeupIsLost`: `NoLostWakeup`.

The first half has the shapes of the word, the monitor and the threads' locals, and says of
every step what it does to the word, to the users of the monitor and to whom `num_waiters_` and
the suspend requests count. The invariant then consists of `WaitersExact`, `num_waiters_` is the
number of contenders and waiters, so that deflation sees every suspended user;
`RequestsExact`, a thread's suspend count is the number of threads inflating its lock, so that
it stays suspended until they have installed the monitor; `EnteredExact`, the depth of the lock
in each of its forms, also while it is being given up or restored, is the number of enters
without an exit; and `HashKept`, a hash code once returned is in the word or in its monitor.
The refinement follows from `EnteredExact`
and `LockEffect`, which sorts the steps into the four of `JavaMonitor` and stuttering.
`NoWakeupIsLost` adds that the two lists hold threads (`SetsInv`): the signal that goes with a
release of the monitor then puts a thread on its way or finds nobody to signal (`SignalSettles`).

**`HeapCollectionsProofs`**: `CollectionsExclude` (`OneCollection`), `PinsHold`
(`PinnedObjectsStay`), `ShutdownIsQuiet` (`ShutdownQuiesces`), `TypeCorrect`. The invariant ties
`collector_type_running_` and `disable_moving_gc_count_` to the label of every thread and of the
daemon.

**`EmptyCheckpointProofs`**: `OldAccessesEnd` (`AccessesOver`), `AnswersAreCounted`
(`BarrierExact`), `TypeCorrect`. The invariant `EInv` adds `PhaseInv`: a mutator is yet to be
asked, has been asked or is passing the barrier, and only one of these, so that what the barrier
is owed moves by one mutator at a time; and `OldInv`: a mutator in an access that began before the
checkpoint is yet to be asked or has not answered. When the count reaches zero nobody is left to
answer, so no such access is left.

**`MarkStackProofs`**, for any number of mutators and objects and all initial heaps:

- `GraysAreOnOneStack`: `GrayIsOnOneStack`.
- `MarkingEnds`: `MarkingConverges`.
- `ToSpaceHolds`: `ToSpaceInvariant`.
- `FinalizersRunAfterClearing`: the action property `FinalizedAfterClearing`.
- `MutatorsStopPushing`: `OnlyCollectorPushes`, the CHECKs of `PushOntoMarkStack`.
- `TypeCorrect`: `TypeOK`.

All follow from `Marking`, the invariance of `MarkInv`. Its parts, beside types and the labels that
go together (`PhaseAt`, `ReadAt`): `StackInv`, the gray objects are those that one of the stacks or
one thread has, and no two have the same. `SwitchInv`, once a mutator has answered the checkpoint
of the switch to the shared mode it never pushes onto a stack of its own again and reads no
Reference until weak access is back. `PassInv`, in a pass over the shared stack that has scanned
nothing so far, either something is on the stack, or a mutator that the empty checkpoint still
waits for is pushing, or nothing is gray but a delayed Reference and whoever has answered has
nothing to mark: it would have to read a gray object, and there is none it can reach. So a pass
that ends having scanned nothing ends with nothing gray, in the shared mode and after it.
`ColourInv` and `ReferenceInv` are the to-space invariant, also for a mutator between the test of
the gray bit and the load, and with the Reference as the exception that it is: it stays gray while
its referent is white. `ExclusiveInv`, while references are processed there is a set of scanned
objects, closed under their fields, that has everything the mutators hold; what the collector marks
in the meantime for soft references and finalizers is not in it, and `GetReferent` does not return
it before it is scanned. That set is named in the invariant by a quantifier: it is what was marked
when the mark stack was last found empty. Each part has a lemma for the mutators, one for the
checkpoints and one for the collector; the steps of a mutator are reduced first to what they do
(`MutatorEffects`).

## 5. Only model-checked

Liveness in all modules (`FreeMutexIsTaken`, `OperationsTerminate`, `RetryEnds`,
`CheckpointEnds`, `GcServed`, `WaitersWoken`): fairness and ENABLED are outside the prover.
Everything in `HeapTasks`: its queue is kept in order with `SelectSeq`, and what that selects from
a queue of any length takes an induction that the provers cannot do. `MarkInv` was explored with TLC before it was proved, with two mutators
and two objects.

## 6. Findings

`suspend_cycle`. `RequestSynchronousCheckpoint` raises the suspend count of a target that is
not runnable, waits for it in a suspended state (`thread.cc:1761`), and has to become runnable
again before it runs the closure and lowers the count. It does not look at its own suspend
count first, as `SuspendThreadByThreadId` does ("Its not safe to try to suspend another thread in case we get a
cycle", `thread_list.cc:1084`). If the target is between two rounds of
`SuspendThreadByThreadId` for the caller, each has raised the other's count and neither can
become runnable: both wait on `resume_cond_` for ever. The timeout of `SuspendThreadByThreadId`
does not help, as it is looked at while runnable. `thread_list_live` shows that without
synchronous checkpoints the check suffices in its instance: two threads that suspend each other
by id both return.

`heap_tasks_desired`. A request for the foreground collector that arrives while the daemon is
changing to the background collector is dropped: it either finds the pending task, which has
already left the queue, or compares equal with a type that is about to change. The desired type
then stays different from the collector type with no task queued; the comment at `heap.h:1234`
says that the daemon transitions the heap if they differ.

`weak_access`. The checkpoint that disables weak reference access is an ordinary one. A thread
that has run it can block for weak access with a mutex held that a runnable thread waits for;
that thread answers only empty checkpoints while it waits (`mutex.cc:380`), so the collector waits
for it, it for the mutex and the mutex for the collector. The list of expected mutexes is kept "to avoid a
deadlock in the empty checkpoint while weak ref access is disabled" (`locks.h:357`) and does not
help with the checkpoint before it. In this tree `jni_libraries_lock_` is such a mutex:
`UnloadNativeLibraries` reads weak globals with it held (`jni/java_vm_ext.cc:349`), runnable, after
a collection (`heap.cc:2826`) and in no GC critical section. Two threads that have collected are the
holder and the waiter while a third collects. The same cycle through `dex_lock_` is known to the
code: the two places of the class linker that may block for weak access with that lock held are
inside a `ScopedGCCriticalSection` ("Avoid a deadlock between a garbage collecting thread running a
checkpoint, ...")
(`class_linker.cc:3939` and `3984`), which keeps collections away from these two places only.

What modelling showed to matter, without a run of its own:

- The collector's wait at `gc_barrier_` after `ThreadList::FlipThreadRoots`. If `FlipDone` does
  not wait, a thread that was resumed early and has not run its flip function can enter a JNI
  critical section's wait while the next flip is announced: it waits for that flip to end, a
  SuspendAll retries on it because its flip function is pending, and holds the thread list lock
  that the flip needs.
- When a thread's barrier slots are full, `ModifySuspendCount` lets go of
  `thread_suspend_count_lock_` "to avoid deadlock" (`thread-inl.h:371`) and retries, but its
  caller keeps `thread_list_lock_`. If the target is runnable and waiting for that lock, it never
  passes its barriers and the retry never ends. TLC finds this with `MaxSuspendBarriers` at 1 and
  three threads; with the three slots of the code it takes four SuspendAll calls at once.
- The comments at `thread_list.cc:937` and `:1057` rely on a lock,
  `Locks::thread_list_suspend_thread_lock_`, that does not exist; what prevents cycles is the
  look at the caller's own suspend count (`BackOff`, `RequestSuspend`).

## 7. Not modelled

Of the modelled parts: `ThreadList::Dump`, which stops waiting for its checkpoint after a timeout
and, in a release build, goes on with its closure still queued on the slow threads (what they then
do with a closure on a stack frame that is gone is undefined, so `CheckpointExactlyOnce` says
nothing of it); callers of `RunCheckpoint` that do not wait (`Thread::ClearAllInterpreterCaches`);
`RunCheckpointOnRunnableThreads`; `SuspendThreadByPeer`, which has the loop
of `SuspendThreadByThreadId`; the `kRunnable` form of `RequestSynchronousCheckpoint`; the
debugger's and user code's suspend counts; thread creation, interruption and shutdown of daemon
threads; the lock-level checks and the pthread build of the locks; lock profiling, the pool
that recycles monitors and `MonitorList` (the wait of `Add` for weak access, and `Sweep`); evacuation with forwarding pointers, immune spaces and the card table of
the collector; phantom references and the Java queues of cleared references; allocation and the
footprint limits.

Parts that would suit a model and have none yet, in the order in which they would be taken:

1. the thread pool (`thread_pool.cc`): workers, waiting and shutdown under one mutex;
2. code cache collection against running code (`jit/jit_code_cache.cc`), which rests on
   `Checkpoints`;
3. class initialization by concurrent threads (`class_linker.cc`), which rests on `Monitor`;
4. the allocation stack and the indirect reference tables, which are mostly sequential;
5. an abstract stop-the-world specification implemented by `ThreadList`.

Left out for good: the compilers (the LLVM back end included), the interpreter, the verifier, file
formats, tools, I/O and the heap traversal of the other collectors. They are sequential, or their
state space is that of the heap.
