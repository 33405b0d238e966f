SPECIFICATION Spec
CONSTANTS
  Start = 16
  Size = 12
  Sizes = {1, 3}
  Aligns = {1, 4}
  PreAlloc = FALSE
  Garbage = {}
INVARIANTS TypeOK BlocksSound
CHECK_DEADLOCK FALSE
