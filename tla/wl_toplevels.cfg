CONSTANTS
  Window = {w1, w2}
  NoWindow = none
  Kinds <- ToplevelOnly
  Sizes = {1}
  Fallback = 1
  Asks = {}
  CompStates = {"normal"}
  DestroyIn <- Careful
  PresentIn <- InDraw
  MaxWire = 1
  MaxReqs = 0

SPECIFICATION Spec
INVARIANT FreedIsSilent
INVARIANT DrawSizeKnown
PROPERTY RedrawContract
CHECK_DEADLOCK FALSE
