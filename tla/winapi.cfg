CONSTANTS
  Window = {w1, w2}
  None = none
  Sizes = {1, 2}
  Text = {0, 2}
  DestroyIn <- DestroySafely
  CursorIn <- CursorSafely
  Careful = TRUE
  RawWorks = {TRUE, FALSE}
  Sessions <- OneMatter
  MaxPosted = 2
  MaxInput = 2
  MaxNest = 2

SPECIFICATION Spec
SYMMETRY Alike
INVARIANT MouseAgrees
INVARIANT LockAgrees
PROPERTIES PaintKept TextWhole
CHECK_DEADLOCK FALSE
