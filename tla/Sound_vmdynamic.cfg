SPECIFICATION SoundSpec
CONSTANTS
  Buffer = "VMDYNAMIC"
  Pattern = "BEST_FIT"
  Base = 64
  Size = 5
  Sizes = {1, 3}
  Aligns = {1, 4}
  IntMax = 1000
  PageSize = 3
  ReserveSize = 16
  U32 = 1000
INVARIANTS Contiguous NoFault BackwardList
PROPERTY Implements
CHECK_DEADLOCK FALSE
