SPECIFICATION MCSpec
CONSTANTS
  Procs = {"p1", "p2"}
  MaxSessions = 2
  MaxCrashes = 1
  MaxLosses = 1
INVARIANTS FilesKept OneOwner
CHECK_DEADLOCK FALSE
