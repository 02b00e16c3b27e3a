CONSTANTS
  Offer = {o1, o2}
  None = none
  Announced <- SomeGlobals
  Bytes = {0, 1, 3}
  Chunk = 2
  BufSize = 2
  NonBlock = FALSE
  ReadFails = TRUE
  FreeInHandler = FALSE
  MaxWake = 1
  MaxRequests = 2

SPECIFICATION Spec
INVARIANT HandlerOnce
INVARIANT OffersKept
PROPERTY HandlerServed
PROPERTY WakeServed
CHECK_DEADLOCK FALSE
