CONSTANTS
  NFences = 3
  FreeDraw = TRUE
  Destroys = TRUE

SPECIFICATION FairSpec
INVARIANT FencesOwned
INVARIANT NoMissedSignal
PROPERTY DrawServed
CHECK_DEADLOCK FALSE
