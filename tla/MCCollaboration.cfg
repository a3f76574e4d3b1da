SPECIFICATION Spec
CONSTANTS
  MaxChildren = 2
  Initial = {1}
  Results = {2}
  ReadOnly = {1, 2}
  MaxModelCalls = 2
  MaxToolCalls = 1
  MaxOutput = 5
  MaxConcurrent = 2
  MaxReplans = 1
  CallOutput = 2
  ChildOutput = 4
  Sizes = {1, 3}
  MaxEvents = 2
INVARIANTS AccountsHonest DispatchHonest CompletionHonest
CHECK_DEADLOCK FALSE
