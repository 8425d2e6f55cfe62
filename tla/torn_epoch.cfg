SPECIFICATION Spec
CHECK_DEADLOCK FALSE
CONSTANTS
  SlotNumber = 2
  ByteBits = 2
  WindowSize = 2
  Period = 128
  EpochsUs = {1000, 1800}
  MasterTimes <- OneStep
  Received = {}
  Jitters = {}
  Roles = {"AUTHORITY"}
  MaxUptime = 4
  MaxEpochs = 2
  MaxSyncs = 0
  MaxSteps = 0
INVARIANT
  ReadingIsOfTheClock
