SPECIFICATION MCSpec
CONSTANTS
  Workers = {"w1", "w2"}
  Chats = {"c1", "c2"}
  Callers = {"m1", "m2"}
  HandlerCallers = {"m2"}
  NoChat = "none"
  MaxForegroundRuns = 2
  ModelSlots = 1
  MaxProcesses = 1
PROPERTIES NobodyWaits CallsReturn
CHECK_DEADLOCK FALSE
