SPECIFICATION FairSpec
CONSTANTS
  Threads = {d, a, b}
  Daemon = d
  Types = {"CMS", "SS"}
INVARIANTS OneCollection PinnedObjectsStay ShutdownQuiesces
PROPERTIES WaitersWoken
