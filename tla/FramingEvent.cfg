SPECIFICATION Spec

CONSTANTS
  HeaderLen = 2
  MaxPayload = 2
  MaxFrames = 2
  MaxPushes = 1

INVARIANTS
  EventsKeepStep
CHECK_DEADLOCK FALSE
