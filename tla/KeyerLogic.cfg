SPECIFICATION Spec
CONSTANTS
  DitLens = {3, 4}
  Weight = 50
  TickLens = {1, 2}
  MaxTick = 2
  Flags <- AllFlags
  MaxSilence = 5
INVARIANTS NothingUnasked
PROPERTIES WholeElements SpaceKept RemembersTap
