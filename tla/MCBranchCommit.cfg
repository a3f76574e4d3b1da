SPECIFICATION MCSpec
CONSTANTS
  Procs = {"p1", "p2"}
  MaxSessions = 2
  MaxCrashes = 1
  MaxLosses = 1
INVARIANT BranchBytesKept
CHECK_DEADLOCK FALSE
