SPECIFICATION MCSpec
CONSTANTS
  w1 = w1  w2 = w2  w3 = w3
  c1 = c1  c2 = c2  c3 = c3
  m1 = m1  m2 = m2
  Workers <- ThreeWorkers
  Chats <- ThreeChats
  Callers <- TwoCallers
  HandlerCallers <- OneHandler
  NoChat = NoChat
  MaxForegroundRuns = 2
  ModelSlots = 2
  MaxProcesses = 1
  Background = {"b"}
  Services = {"s"}
  Foreground = {"f"}
  OtherProfile = {"s"}
  Duration = 1
  ReadyTimeout = 1
  MaxTotal = 2
  MaxAge = 3
  MaxCrashes = 1
INVARIANTS GateSafe CommandsKept 
PROPERTIES WorkEnds OwnerEnds
CHECK_DEADLOCK FALSE
