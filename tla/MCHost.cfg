SPECIFICATION MCSpec
CONSTANTS
  MaxRuns = 2
  MaxHostCalls = 2
  ModelRetries = 1
  MaxCrashes = 1
  MaxOps = 2
  MaxFaults = 2
  MaxRestarts = 1
  HookCalls = {"c1", "c2"}
  HookRuns = {"r"}
  Signatures = {"s1", "s2"}
  MaxStarts = 3
  Requesters = {"h1", "h2"}
  MaxCalls = 1
  MaxResumes = 1
  Callers = {"c1"}
  Handlers = {"h1", "h2"}
  MaxSlots = 1
  AllowRequests = TRUE
  MaxReplies = 2
  Reject = "reject"
INVARIANTS WorkflowHonest ProcessOwned CallsSettled 
PROPERTIES HostFacts
CHECK_DEADLOCK FALSE
