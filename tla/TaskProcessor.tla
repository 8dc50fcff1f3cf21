---------------------------- MODULE TaskProcessor ----------------------------
(***************************************************************************)
(* gc::TaskProcessor (runtime/gc/task_processor.cc): heap tasks ordered by *)
(* the time they should run at, and the daemon that runs them.  Everything *)
(* is guarded by lock_, so each critical section is one step.  Only the    *)
(* daemon waits on cond_.                                                  *)
(***************************************************************************)
EXTENDS Naturals, Sequences, SequencesExt

CONSTANTS
  Tasks,      \* the objects that can hold a HeapTask
  NoTask,     \* nullptr
  MaxTime     \* the clock stops here when no task is queued for later

ASSUME TaskAssumption == NoTask \notin Tasks /\ MaxTime \in Nat

VARIABLES
  tasks,      \* tasks_, in the order of its comparator
  target,     \* target_run_time_ of each task
  isRunning,  \* is_running_; running_thread_ is the daemon when it is set
  now,        \* NanoTime()
  daemon,     \* where the daemon is in RunAllTasks
  deadline,   \* when its TimedWait ends
  current     \* the task it runs

processorVars == <<tasks, target, isRunning, now, daemon, deadline, current>>

ProcessorInit ==
  /\ tasks = <<>>
  /\ target = [t \in Tasks |-> 0]
  /\ isRunning = FALSE
  /\ now = 0
  /\ daemon = "off"
  /\ deadline = 0
  /\ current = NoTask

\* std::multiset::insert: after the tasks with an equal target.
Insert(queue, t, time) ==
  SelectSeq(queue, LAMBDA u : target[u] <= time) \o <<t>>
    \o SelectSeq(queue, LAMBDA u : target[u] > time)

\* cond_.Signal: the daemon looks at the queue again.
SignalDaemon == daemon' = IF daemon \in {"wait", "timedWait"} THEN "look" ELSE daemon

AddTask(t, time) ==
  /\ tasks' = Insert(tasks, t, time)
  /\ target' = [target EXCEPT ![t] = time]
  /\ SignalDaemon
  /\ UNCHANGED <<isRunning, now, deadline, current>>

\* Mutant: no signal when the task moves to the front.
UpdateWithoutSignal(t, time) ==
  /\ IF t \in Range(tasks) /\ time # target[t]
     THEN /\ tasks' = Insert(Remove(tasks, t), t, time)
          /\ target' = [target EXCEPT ![t] = time]
     ELSE UNCHANGED <<tasks, target>>
  /\ UNCHANGED <<isRunning, now, daemon, deadline, current>>

\* Nothing happens if the daemon has taken the task, or it is not added yet.
UpdateTargetRunTime(t, time) ==
  /\ IF t \in Range(tasks) /\ time # target[t]
     THEN /\ tasks' = Insert(Remove(tasks, t), t, time)
          /\ target' = [target EXCEPT ![t] = time]
          /\ IF Head(tasks') = t THEN SignalDaemon ELSE UNCHANGED daemon
     ELSE UNCHANGED <<tasks, target, daemon>>
  /\ UNCHANGED <<isRunning, now, deadline, current>>

\* The daemon announces itself and enters RunAllTasks.
Start ==
  /\ daemon = "off"
  /\ isRunning' = TRUE
  /\ daemon' = "look"
  /\ UNCHANGED <<tasks, target, now, deadline, current>>

Stop ==
  /\ isRunning
  /\ isRunning' = FALSE
  /\ SignalDaemon
  /\ UNCHANGED <<tasks, target, now, deadline, current>>

\* One turn of GetTask: take the first task if it is due or the processor is
\* stopping, else sleep until it is due or something is added.
GetTask ==
  /\ daemon = "look"
  /\ \/ /\ tasks = <<>>
        /\ daemon' = IF isRunning THEN "wait" ELSE "check"
        /\ UNCHANGED <<tasks, deadline, current>>
     \/ /\ tasks # <<>>
        /\ ~isRunning \/ target[Head(tasks)] <= now
        /\ current' = Head(tasks)
        /\ tasks' = Tail(tasks)
        /\ daemon' = "run"
        /\ UNCHANGED deadline
     \/ /\ tasks # <<>>
        /\ isRunning /\ target[Head(tasks)] > now
        /\ deadline' = target[Head(tasks)]
        /\ daemon' = "timedWait"
        /\ UNCHANGED <<tasks, current>>
  /\ UNCHANGED <<target, isRunning, now>>

\* RunAllTasks got no task: it returns unless the processor was started again.
CheckRunning ==
  /\ daemon = "check"
  /\ daemon' = IF isRunning THEN "look" ELSE "off"
  /\ UNCHANGED <<tasks, target, isRunning, now, deadline, current>>

TimeOut ==
  /\ daemon = "timedWait" /\ deadline <= now
  /\ daemon' = "look"
  /\ UNCHANGED <<tasks, target, isRunning, now, deadline, current>>

\* The condition variable may return early.
WakeEarly ==
  /\ daemon \in {"wait", "timedWait"}
  /\ daemon' = "look"
  /\ UNCHANGED <<tasks, target, isRunning, now, deadline, current>>

\* Run has returned; Finalize deletes the task.
FinalizeTask ==
  /\ daemon = "finalize"
  /\ current' = NoTask
  /\ target' = [target EXCEPT ![current] = 0]
  /\ daemon' = "look"
  /\ UNCHANGED <<tasks, isRunning, now, deadline>>

Tick ==
  /\ now < MaxTime \/ \E t \in Range(tasks) : target[t] > now
  /\ now' = now + 1
  /\ UNCHANGED <<tasks, target, isRunning, daemon, deadline, current>>
=============================================================================
