CONSTANTS
  Window = {w1, w2}
  None = none
  Sizes = {1, 5}
  Asked = {0}
  Fallback = 1
  Key = {k1, k2}
  Shm = TRUE
  HoldBuffer = FALSE
  DestroyIn <- DestroySafely
  Looks <- SomeLooks
  Sessions <- OneKind
  MaxQueue = 2

SPECIFICATION Spec
SYMMETRY Alike
INVARIANT ListSound
INVARIANT RequestKept
INVARIANT DrawFits
INVARIANT RepeatedPress
INVARIANT PictureShown
CHECK_DEADLOCK FALSE
