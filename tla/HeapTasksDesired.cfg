SPECIFICATION FairSpec
CONSTANTS
  Tasks = {k1, k2, k3, k4, k5}
  NoTask = NoTask
  MaxTime = 1
  Threads = {a}
  Daemon = Daemon
  Foreground = "CMS"
  Background = "SS"
  Requests = {"foreground", "background"}
  Delay = 1
  MaxRequests = 2
PROPERTIES DesiredIsReached
CHECK_DEADLOCK FALSE
