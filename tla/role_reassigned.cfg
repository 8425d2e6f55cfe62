SPECIFICATION FairSpec
CHECK_DEADLOCK FALSE
CONSTANTS
  SlotNumber = 2
  WindowSize = 2
  QueueSize = 2
  RoundIds = 3
  UsedInMesh = FALSE
  HeardRound <- HeardOneBurst
  Overlap = FALSE
  Faults = {}
  RolesGiven = {"AUTHORITY", "CLIENT"}
  MaxSetRole = 2
  MaxStart = 1
PROPERTIES
  WaitsListening
