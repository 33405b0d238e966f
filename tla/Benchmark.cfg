SPECIFICATION BenchSpec
CONSTANTS
  Buffer = "VMDYNAMIC"
  Pattern = "FIRST_FIT"
  Base = 64
  Size = 7
  Sizes = {1, 2, 4}
  Aligns = {4}
  IntMax = 1000
  PageSize = 5
  ReserveSize = 70
  U32 = 1000
  NTests = 2
  Alignment = 4
  AllocSize <- ThreeSizes
  Flags <- NoRAND
INVARIANTS ForwardList HoldsWhatItGot
PROPERTIES Completes
CHECK_DEADLOCK FALSE
