SPECIFICATION Spec

CONSTANTS
  s1 = s1
  s2 = s2
  none = none
  Sids = {s1, s2}
  Chans = {"tcp", "udp"}
  Transport <- MCTransport
  Commands = {"login", "logout", "admin"}
  NeedsAuth <- MCNeedsAuth
  AllowedOn <- MCAllowedOn
  Effect <- MCEffect
  UnknownCommand = "unknown"
  NoSession = none
  MaxKeys = 2

PROPERTIES
  LoginSticks
