SPECIFICATION Spec
CONSTANTS
  NephewTestInverted = TRUE
  Start = 8
  Size = 40
  Sizes = {8}
  Aligns = {1}
  MaxDamaged = 4
INVARIANT Served
CHECK_DEADLOCK FALSE
