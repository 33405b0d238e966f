SPECIFICATION SupplierSpec
CONSTANTS
  VmStart = 64
  PageSize = 2
  ReserveSize = 15
  U32 = 32
INVARIANTS VmTypeOK Backed
PROPERTY NewestHighest
CHECK_DEADLOCK FALSE
