-------------------------- MODULE JavaMonitor --------------------------
(***************************************************************************)
(* What synchronized, Object.wait and MonitorExit promise a Java program   *)
(* about one object, whatever its lock is made of: a lock one thread holds *)
(* to the depth of its synchronized blocks, which wait gives up whole and  *)
(* takes back whole.                                                       *)
(***************************************************************************)
EXTENDS Naturals

CONSTANTS Threads, None

VARIABLES holder,   \* the thread that holds the lock, or None
          depth,    \* how often it has locked it
          entered,  \* how many enters of each thread are without an exit yet
          waiting   \* the threads in wait

Init ==
  /\ holder = None
  /\ depth = 0
  /\ entered = [t \in Threads |-> 0]
  /\ waiting = {}

Enter(t) ==
  /\ holder \in {None, t} /\ t \notin waiting
  /\ holder' = t /\ depth' = depth + 1
  /\ entered' = [entered EXCEPT ![t] = @ + 1]
  /\ waiting' = waiting

Exit(t) ==
  /\ holder = t
  /\ depth' = depth - 1
  /\ holder' = IF depth = 1 THEN None ELSE t
  /\ entered' = [entered EXCEPT ![t] = @ - 1]
  /\ waiting' = waiting

BeginWait(t) ==
  /\ holder = t
  /\ holder' = None /\ depth' = 0
  /\ waiting' = waiting \union {t}
  /\ entered' = entered

EndWait(t) ==
  /\ holder = None /\ t \in waiting
  /\ holder' = t /\ depth' = entered[t]
  /\ waiting' = waiting \ {t}
  /\ entered' = entered

Next == \E t \in Threads : Enter(t) \/ Exit(t) \/ BeginWait(t) \/ EndWait(t)

Spec == Init /\ [][Next]_<<holder, depth, entered, waiting>>
====
