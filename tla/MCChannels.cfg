SPECIFICATION MCSpec
CONSTANTS
  Ops = {1, 2}
  Mixes <- TwoMixes
  MaxAttempts = 2
  Batch = 1
  Contents = {1, 2}
  MaxLoad = 3
  Scripts <- ThreeScripts
  N = 3
  MaxUpsets = 1
  MaxOwners = 2
INVARIANTS  OutboxHonest EntranceGuarded
PROPERTIES  KeepsPromise SessionsEnd
CHECK_DEADLOCK FALSE
