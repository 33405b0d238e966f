SPECIFICATION SoundSpec
CONSTANTS
  Buffer = "STATIC"
  Pattern = "FIRST_FIT"
  Base = 64
  Size = 22
  Sizes = {1, 4}
  Aligns = {1}
  IntMax = 1000
  PageSize = 4
  ReserveSize = 16
  U32 = 1000
INVARIANTS Disjoint HeaderIntact NoFault ForwardList BackwardList
PROPERTY Implements
CHECK_DEADLOCK FALSE
