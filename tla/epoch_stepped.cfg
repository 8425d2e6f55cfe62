SPECIFICATION Spec
CHECK_DEADLOCK FALSE
CONSTANTS
  SlotNumber = 2
  ByteBits = 2
  WindowSize = 2
  Period = 128
  EpochsUs = {}
  MasterTimes <- OneStep
  Received <- AllHeard
  Jitters <- NoError
  Roles = {"CLIENT"}
  MaxUptime = 8
  MaxEpochs = 0
  MaxSyncs = 3
  MaxSteps = 1
INVARIANT
  ShowsMasterTime
