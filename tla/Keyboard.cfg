SPECIFICATION FairSpec
CONSTANTS
  Size = 2
  RingSize = 6
  Dit = 1
  Speeds = {1, 2}
  Ramp = 1
  Characters <- MCCharacters
  Threshold = 0
  MaxChars = 2
  MaxUnderway = 2
INVARIANTS SoundArrives PttAgrees
PROPERTIES Spacing PlayEnds
CONSTRAINT Explored
ACTION_CONSTRAINT InTurn
