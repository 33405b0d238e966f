SPECIFICATION Spec
CONSTANTS
  Buffer = "VMDYNAMIC"
  Pattern = "BEST_FIT"
  Base = 64
  Size = 5
  Sizes = {1}
  Aligns = {1, 4}
  IntMax = 1000
  PageSize = 4
  ReserveSize = 12
  U32 = 1000
INVARIANTS TypeOK Served
CHECK_DEADLOCK FALSE
