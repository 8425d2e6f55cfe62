SPECIFICATION Spec
CHECK_DEADLOCK FALSE
CONSTANTS
  SlotNumber = 3
  ByteBits = 2
  WindowSize = 2
  Period = 128
  EpochsUs = {1000, 1800}
  MasterTimes <- OneStep
  Received <- SomeLost
  Jitters <- OneLate
  Roles = {"AUTHORITY", "CLIENT"}
  MaxUptime = 7
  MaxEpochs = 2
  MaxSyncs = 2
  MaxSteps = 1
INVARIANTS
  TypeOK
  UntornReadingIsOfTheClock
  UnixIsOfTheClock
  FitIsLeastSquares
  FollowsMaster
  UncompressRecovers
