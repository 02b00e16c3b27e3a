CONSTANTS
  Window = {w1}
  NoWindow = none
  Kinds <- AllKinds
  Sizes = {1, 2}
  Fallback = 1
  Asks = {"maximized", "minimized"}
  CompStates = {"normal","fullscreen"}
  DestroyIn <- Careful
  PresentIn <- InDraw
  MaxWire = 2
  MaxReqs = 1

SPECIFICATION FairSpec
INVARIANT StateAgrees
PROPERTY DrawServed
CHECK_DEADLOCK FALSE
