SPECIFICATION CoreSpec
CONSTANTS
  Start = 16
  Size = 12
  Sizes = {1, 2}
  Aligns = {1, 4}
  PadMod = 8
  PreAlloc = FALSE
  Garbage = {}
INVARIANTS TypeOK BlocksSound Tiled
CHECK_DEADLOCK FALSE
