CONSTANTS
  NoWindow = nowindow
  Window = {w1, w2}
  NOutputs = 1
  Surfaces = {"buffer"}
  CreateFails = TRUE
  FlipFails = TRUE
  FreeDraw = TRUE
  DestroyDeferred = TRUE
  DestroyFlipping = TRUE
  Switches = TRUE
  Hasty = TRUE
  Remodes = TRUE

SPECIFICATION Spec
INVARIANT NoTearing
INVARIANT AssertFlip
CHECK_DEADLOCK FALSE
