SPECIFICATION MCSpec
CONSTANTS
  MaxExecs = 2
  MaxTexts = 1
  MaxRestarts = 1
  LogSize = 2
  Buffer = 2
  Ids = {"e1", "e2", "e3"}
  First = "e1"
  Clients = {"c1", "c2", "agent"}
  Agent = "agent"
  Keys = {"k1", "k2"}
  Actions = {"create", "update", "delete", "disable", "enable", "pin", "unpin"}
  Scopes = {"private", "task", "knowledge"}
  MaxRev = 3
  MaxSends = 2
INVARIANTS MemoryExact ContextWhole  ViewsWhole
PROPERTIES  IdleViewComplete
CHECK_DEADLOCK FALSE
