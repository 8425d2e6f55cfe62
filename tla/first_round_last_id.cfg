SPECIFICATION Spec
CHECK_DEADLOCK FALSE
CONSTANTS
  SlotNumber = 2
  WindowSize = 2
  QueueSize = 2
  RoundIds = 3
  UsedInMesh = TRUE
  HeardRound <- HeardLastRound
  Overlap = FALSE
  Faults = {}
  RolesGiven = {"CLIENT"}
  MaxSetRole = 1
  MaxStart = 1
PROPERTIES
  SkipsOnlySynced
