SPECIFICATION FairSpec
CHECK_DEADLOCK FALSE
CONSTANTS
  SlotNumber = 2
  WindowSize = 2
  QueueSize = 2
  RoundIds = 3
  UsedInMesh = TRUE
  HeardRound <- HeardOneBurst
  Overlap = FALSE
  Faults = {"set_data", "adv_start", "not_sent"}
  RolesGiven = {"AUTHORITY"}
  MaxSetRole = 1
  MaxStart = 3
INVARIANTS
  FollowUp
  SlotInBounds
  RoundAnnounced
PROPERTIES
  RequestServed
  BurstEnds
