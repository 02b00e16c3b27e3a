CONSTANTS
  Window = {w1, w2}
  NoWindow = none
  Seats <- SmallSeats
  Key = {k1, k2}
  NoKey = nokey
  Repeating = {k1}
  Finger = {f1, f2}
  Rates = {0, 1}
  Cursors <- AllCursors
  DestroyIn <- DestroySafely
  CursorIn <- IdleAndCross
  Careful = TRUE
  LeaveFirst = TRUE
  XkbWorks <- Works
  MaxWire = 2

SPECIFICATION Spec
SYMMETRY Alike
INVARIANT FocusAlive
INVARIANT CursorKept
INVARIANT RepeatMatches
INVARIANT TouchAgrees
CHECK_DEADLOCK FALSE
