SPECIFICATION HeapSpec
CONSTANTS
  Buffer = "STATIC"
  Pattern = "FIRST_FIT"
  Base = 64
  Size = 14
  Sizes = {1, 2}
  Aligns = {1}
  IntMax = 1000
  PageSize = 4
  ReserveSize = 16
  U32 = 1000
INVARIANT Disjoint
CHECK_DEADLOCK FALSE
