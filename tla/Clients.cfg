SPECIFICATION FairSpec

CONSTANTS
  f1 = f1
  f2 = f2
  f3 = f3
  s1 = s1
  s0 = s0
  sMax = sMax
  noFd = noFd
  Fds = {f1, f2, f3}
  Sids = {s0, s1, sMax}
  FrameSids = {s0, s1, sMax}
  ZeroSid = s0
  NoSid = sMax
  NoFd = noFd
  MaxClients = 2
  Modes = {"BINARY", "TEXT"}
  DisconnectHandlerSet = TRUE
  PoolEnabled = TRUE
  HandlerMayThrow = TRUE
  RespondConfigured = TRUE
  DiscoveryConfigured = TRUE

INVARIANTS
  ActiveExact
  ConnectionLimit
  SuspendedOnlyWhenFull
  RegistryLive
  UncontestedReachable
PROPERTIES
  GoneIsClosed
  DiscoveryResumes
CHECK_DEADLOCK FALSE
