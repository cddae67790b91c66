SPECIFICATION Spec

CONSTANTS
  w1 = w1
  w2 = w2
  loop = loop
  Workers = {w1, w2}
  Loop = loop
  SqSize = 2
  MaxOps = 2
  MaxFailures = 3

INVARIANTS
  OnceUnlessRaced
  NullNeedsFailures
CHECK_DEADLOCK FALSE
