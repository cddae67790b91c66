SPECIFICATION FairSpec

CONSTANTS
  HeaderLen = 2
  MaxPayload = 2
  MaxFrames = 2
  MaxPushes = 1

INVARIANTS
  FramesFaithful
  UnitsOnce
  ClientInStep
PROPERTIES
  FramesDelivered
CHECK_DEADLOCK FALSE
