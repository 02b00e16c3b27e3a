CONSTANTS
  NoWindow = nowindow
  Window = {w1, w2}
  NOutputs = 2
  Surfaces = {"buffer", "gl"}
  CreateFails = TRUE
  FlipFails = FALSE
  FreeDraw = FALSE
  DestroyDeferred = FALSE
  DestroyFlipping = FALSE
  Switches = FALSE
  Hasty = FALSE
  Remodes = FALSE

SPECIFICATION Spec
PROPERTY RedrawContract
CHECK_DEADLOCK FALSE
