SPECIFICATION MCSpec
CONSTANTS
  MaxRuns = 2
  MaxAttempts = 4
  MaxSteps = 0
  ModelRetries = 1
  MaxRounds = 2
  MaxCalls = 2
  MaxInputs = 1
  MaxCrashes = 1
  WritesMayFail = FALSE
INVARIANTS RunHonest 
PROPERTIES RunFacts
CHECK_DEADLOCK FALSE
