SPECIFICATION MCSpec
CONSTANTS
  Chats = {"c1", "c2"}
  Reqs = {"r1", "r2"}
  MaxForegroundRuns = 2
  Processes = {"owner", "cli"}
  Ids = {"k"}
  Bases = {"A", "B"}
  MaxSecrets = 1
  MaxPublished = 2
  MaxKills = 1
  Runs = {"r1"}
  Modes = {0, 1, 2}
  MaxSpaces = 2
  MaxRevision = 2
  Models = {"a", "b", "c"}
  Strength <- StrengthOf
  Capacity <- CapacityOf
  Default = "a"
  Assessor = "b"
  MaxAssessments = 1
  MaxUpgrades = 1
  ModelRetries = 1
  Addrs = {"A", "B"}
  MaxEdits = 2
  MaxAttempts = 2
  MaxSize = 2
  MaxSwitches = 1
INVARIANTS DecisionsHonest KeysHonest RoutingBounded UnderGrant EndIsQuiet
 
CHECK_DEADLOCK FALSE
