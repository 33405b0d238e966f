SPECIFICATION Spec
CONSTANTS
  NephewTestInverted = TRUE
  Start = 8
  Size = 40
  Sizes = {4, 6, 7, 8}
  Aligns = {2}
  MaxDamaged = 4
INVARIANTS TypeOK Tiled BlocksSound FreeBlocksKept NoFault
CHECK_DEADLOCK FALSE
