SPECIFICATION Spec
CONSTANTS
  FIFO = 2
  Threshold = 3
  Dit = 1
  Positions <- MCPositions
  MaxPosts = 1
  MaxTones = 1
  MaxUnderway = 2
  MaxSenders = 2
INVARIANTS  NobodyHangs
CONSTRAINT Explored
ACTION_CONSTRAINT MovesSeen
