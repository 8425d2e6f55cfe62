SPECIFICATION FairSpec
CHECK_DEADLOCK FALSE
CONSTANTS
  Last = 4
  Reach = 1
  SlotNumber = 2
  WindowSize = 2
  RoundIds = 2
  Spacing = 12
  MaxStarts = 2
  MaxIdle = 13
INVARIANTS
  TypeOK
  BurstsApart
  FromUpstream
  ExpiryAfterBurst
PROPERTIES
  RoundsAdvance
  ClientsAreSessions
  Quiesces
  Delivered
