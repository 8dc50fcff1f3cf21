SPECIFICATION FairSpec
CONSTANTS
  Tasks = {k1, k2, k3, k4}
  NoTask = NoTask
  MaxTime = 1
  Threads = {a, b}
  Daemon = Daemon
  Foreground = "CC"
  Background = "CCBackground"
  Requests = {"foreground", "background", "trim", "gc", "fork"}
  Delay = 1
  MaxRequests = 2
INVARIANTS DaemonWakesInTime RequestsExact
PROPERTIES GcServed
CHECK_DEADLOCK FALSE
