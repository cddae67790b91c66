SPECIFICATION FairSpec

CONSTANTS
  t1 = t1
  t2 = t2
  noThread = noThread
  Threads = {t1, t2}
  NoThread = noThread
  Levels = {0, 1}
  MaxCalls = 3
  MaxSwitches = 2

INVARIANTS
  WholeLines
  FileFollowsStderr
PROPERTIES
  CallReturns
CHECK_DEADLOCK FALSE
