SPECIFICATION FairSpec
CHECK_DEADLOCK FALSE
CONSTANTS
  SlotNumber = 2
  WindowSize = 2
  QueueSize = 2
  RoundIds = 3
  UsedInMesh = TRUE
  HeardRound <- HeardOneBurst
  Overlap = FALSE
  Faults = {"adv_start"}
  RolesGiven = {"CLIENT"}
  MaxSetRole = 1
  MaxStart = 1
PROPERTIES
  WaitsListening
