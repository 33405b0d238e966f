SPECIFICATION Spec
CONSTANTS
  NephewTestInverted = FALSE
  Keys = {1, 2, 3, 4, 5, 6}
  Twice = {3}
  MaxNodes = 6
  MaxDamaged = 3
PROPERTY RepairsClimb
INVARIANTS TypeOK RedBlackTree NothingLost NoFault
CHECK_DEADLOCK FALSE
