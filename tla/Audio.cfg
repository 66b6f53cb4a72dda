SPECIFICATION FairSpec
CONSTANTS
  Capacity = 3
  NFrames = 1
  Frames0 = 2
  SkewOffs = 0
  Offsets <- BothOffsets
  BufLens = {1, 3}
  MaxCommands = 1
  MaxPosts = 2
  Period = 2
INVARIANTS OutputLevel NoLostWakeup
PROPERTIES BlocksInPhase DspKeepsRunning
