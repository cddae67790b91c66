SPECIFICATION Spec

CONSTANTS
  s1 = s1
  none = none
  Sids = {s1}
  Chans = {"tcp", "tcp2", "udp"}
  Transport <- MCTransport
  Commands = {"login", "logout"}
  NeedsAuth <- MCNeedsAuth
  AllowedOn <- MCAllowedOn
  Effect <- MCEffect
  UnknownCommand = "unknown"
  NoSession = none
  MaxKeys = 2

INVARIANTS
  KeyAgreement
PROPERTIES
  ImplementsSnapshots
  KeyArrives
