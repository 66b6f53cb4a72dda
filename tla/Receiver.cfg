SPECIFICATION ChainSpec
CONSTANTS
  NRx = 1
  N = 4
  EqChunk = 2
  LmsChunk = 2
  LmsSlots = 8
  LmsDelay = 2
  LmsTaps = 2
  Horizon = 26
  Receptions <- MCReceptions
  Transmissions <- MCTransmissions
  Displays = {"POST_DET", "SEMI_RAW"}
  FreshRx <- MCFreshRx
  FreshTx <- MCFreshTx
  SpecFlag = TRUE
  Size = 4
  Poly = 2
  Unslewed = 1
  MaxEvents = 3
INVARIANTS InStep SnapshotInOrder
PROPERTY RxSlews
