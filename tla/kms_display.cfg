CONSTANTS
  Window = {w1, w2}
  None = none
  Kinds = {"drm", "vk"}
  Machines <- SomeMachines
  Crtc = {1, 2}
  Key = {31, 63, 95}
  Bindings = {63}
  Button = {1}
  Places = {0, 1}
  Cursors <- SomeCursors
  SetupFails <- FailsSaved
  CreateFails = TRUE
  XkbWorks = {"ok"}
  Sessions <- OneMatter
  MaxEvents = 2

SPECIFICATION Spec
SYMMETRY Alike
INVARIANT TtyRestored
INVARIANT OutputsAgree
INVARIANT InputHeld
PROPERTY CursorPlaced
CHECK_DEADLOCK FALSE
