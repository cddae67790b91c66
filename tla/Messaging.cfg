SPECIFICATION MFairSpec

CONSTANTS
  f1 = f1
  f2 = f2
  s1 = s1
  s2 = s2
  s0 = s0
  sMax = sMax
  noFd = noFd
  Fds = {f1, f2}
  Sids = {s0, s1, s2, sMax}
  FrameSids = {s0, s1, s2}
  ZeroSid = s0
  NoSid = sMax
  NoFd = noFd
  MaxClients = 0
  Modes = {"BINARY"}
  DisconnectHandlerSet = FALSE
  PoolEnabled = TRUE
  HandlerMayThrow = TRUE
  RespondConfigured = TRUE
  DiscoveryConfigured = TRUE
  timer = timer
  Timer = timer
  Callers = {f1}

INVARIANTS
  AddressedToUser
PROPERTIES
  SendToIsFresh
  VisitsOnce
  BroadcastEnds
CHECK_DEADLOCK FALSE
