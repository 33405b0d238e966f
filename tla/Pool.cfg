SPECIFICATION Spec
CONSTANTS
  Start = 10
  Size = 12
  PgSz = 4
  Sizes = {0, 2}
  Aligns = {2, 4}
  PreAlloc = FALSE
  MaxHeld = 3
  Junk = Junk
INVARIANTS TypeOK FreeList PagesAccounted BlocksSound
CHECK_DEADLOCK FALSE
