SPECIFICATION FairSpec
CONSTANTS
  Size = 1
  Full = 2
  Ramps = {2, 3}
  MaxPosts = 1
  MaxUpdates = 1
PROPERTIES WholeTonesFade OpenKeySilences HeldKeySounds CommandsDone
