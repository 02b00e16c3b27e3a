CONSTANTS
  NoNative = nonative
  NoQueue = noqueue
  NoWindow = nowindow
  NativeWindow = {n1, n2}
  Queue = {q1}
  Window = {w1}
  Habits <- CarefulOrFree
  MaxEvents = 1
  MaxPosted = 1

SPECIFICATION FairSpec
PROPERTY NoSleep
INVARIANT SurfaceAlive
INVARIANT DrawOnSurface
INVARIANT InputHandover
PROPERTY WaitsEnd
CHECK_DEADLOCK FALSE
