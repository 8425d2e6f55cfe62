SPECIFICATION Spec
CHECK_DEADLOCK FALSE
CONSTANTS
  SlotNumber = 2
  WindowSize = 2
  QueueSize = 2
  RoundIds = 3
  UsedInMesh = TRUE
  HeardRound <- HeardNothing
  Overlap = FALSE
  Faults = {}
  RolesGiven = {"AUTHORITY"}
  MaxSetRole = 1
  MaxStart = 2
INVARIANTS
  BurstIsOneRound
