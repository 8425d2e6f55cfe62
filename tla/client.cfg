SPECIFICATION FairSpec
CHECK_DEADLOCK FALSE
CONSTANTS
  SlotNumber = 3
  WindowSize = 2
  QueueSize = 2
  RoundIds = 3
  UsedInMesh = TRUE
  HeardRound <- HeardTwoRounds
  Overlap = FALSE
  Faults = {"set_data", "not_sent"}
  RolesGiven = {"CLIENT"}
  MaxSetRole = 1
  MaxStart = 1
INVARIANTS
  TypeOK
  PairsMatch
  ListensWhileWaiting
  ExpiryPending
  NoStrayExpiry
PROPERTIES
  AdoptsAnotherRound
  SkipsOnlySynced
  SyncEnds
  SyncForwarded
  ImplementsSession
  HistoryIsWindow
