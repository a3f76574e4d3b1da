SPECIFICATION Spec
CONSTANTS
  Dispatchers = {web, channel}
  Nobody = nobody
  MaxInputs = 3
  MaxRuns = 2
  MaxPending = 2
  MaxDirect = 1
  MaxCrashes = 1
INVARIANTS QueueExact
PROPERTIES QueueOrderly
CHECK_DEADLOCK FALSE
