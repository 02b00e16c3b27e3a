CONSTANTS
  NoWindow = nowindow
  Window = {w1, w2}
  NOutputs = 1
  Surfaces = {"buffer"}
  CreateFails = TRUE
  FlipFails = FALSE
  FreeDraw = TRUE
  DestroyDeferred = FALSE
  DestroyFlipping = FALSE
  Switches = TRUE
  Hasty = FALSE
  Remodes = FALSE

SPECIFICATION FairSpec
INVARIANT SessionAgrees
PROPERTY DrawServed
PROPERTY SwitchServed
CHECK_DEADLOCK FALSE
