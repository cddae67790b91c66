SPECIFICATION Spec

CONSTANTS
  w1 = w1
  w2 = w2
  loop = loop
  Workers = {w1, w2}
  Loop = loop
  SqSize = 2
  MaxOps = 2
  MaxFailures = 0

INVARIANTS
  NothingLost
CHECK_DEADLOCK FALSE
