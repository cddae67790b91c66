SPECIFICATION SFairSpec

CONSTANTS
  f1 = f1
  f2 = f2
  s1 = s1
  s0 = s0
  sMax = sMax
  noFd = noFd
  Fds = {f1, f2}
  Sids = {s0, s1, sMax}
  FrameSids = {}
  ZeroSid = s0
  NoSid = sMax
  NoFd = noFd
  MaxClients = 1
  Modes = {"BINARY"}
  DisconnectHandlerSet = FALSE
  PoolEnabled = TRUE
  HandlerMayThrow = TRUE
  RespondConfigured = FALSE
  DiscoveryConfigured = TRUE
  Setups = {{"accept", "discovery", "announce"}, {"accept", "timer", "udp", "bus"}}

INVARIANTS
  DisableHolds
PROPERTIES
  KeepsServing
  SilentWhenTold
  LookupAnswered
  AnnouncedWhenIdle
  StopReturns
CHECK_DEADLOCK FALSE
