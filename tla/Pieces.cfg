SPECIFICATION PiecesSpec
CONSTANTS
  Size = 4
  MaxRequest = 4
  MaxSent = 9
  Frames = 2
  Envelopes <- ShortEnvelopes
  RunStates = {"MUTE", "PASS", "TEST"}
  TestModes = {"TONE", "CHIRP"}
  MaxCommands = 3
  Sizes = {0, 1, 2, 3, 4, 5, 7, 8}
  Edges <- EdgesAround0
  Rate = 10
  Taps = 3
  Ratios <- SomeRatios
  Blocks = {1, 2, 3}
  MaxInput = 20
  Full = 6
  Lengths = {0, 1, 2, 3, 4}
  SpotBlock = 2
  MaxTouches = 4
  Unit = 3
  Block = 2
  Have = 0
  CpdLen = 4
  Points = {0, 1, 2, 3}
  MaxOrders = 5
  Receivers = {0, 1}
  TxModes = {"MIC", "LEVELER"}
  MaxBlocks = 2
  MaxAsked = 2
  Options = {"rate", "size", "comp", "meter_port", "rcfile"}
  MaxArgs = 3
  MaxResets = 2
INVARIANTS InOrder NoSlotRace AsDesigned Resampled SpotNoClick PacketsHonest InForce
PROPERTIES ImplementsQueue SwitchHappens
CHECK_DEADLOCK FALSE
