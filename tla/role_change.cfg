SPECIFICATION FairSpec
CHECK_DEADLOCK FALSE
CONSTANTS
  SlotNumber = 2
  WindowSize = 2
  QueueSize = 2
  RoundIds = 3
  UsedInMesh = FALSE
  HeardRound <- HeardOneBurst
  Overlap = TRUE
  Faults = {"set_data", "adv_start", "not_sent", "late_sent", "scan_start", "scan_stop"}
  RolesGiven = {"AUTHORITY", "CLIENT"}
  MaxSetRole = 3
  MaxStart = 1
INVARIANTS
  ExpiryPending
PROPERTIES
  SyncEnds
  BurstEnds
