SPECIFICATION Spec
CONSTANTS
  Capacity = 3
  NFrames = 1
  Frames0 = 2
  SkewOffs = 0
  Offsets = {}
  BufLens = {}
  MaxCommands = 0
  MaxPosts = 2
  Period = 4
PROPERTIES SkewKept
