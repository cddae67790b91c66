SPECIFICATION TFairSpec

CONSTANTS
  j1 = j1
  j2 = j2
  j3 = j3
  w1 = w1
  w2 = w2
  noJob = noJob
  noOp = noOp
  Jobs = {j1, j2, j3}
  Workers = {w1, w2}
  NoJob = noJob
  NoOp = noOp
  Ops <- MCOps
  SqSize = 2
  SubmitMayFail = TRUE

INVARIANTS
  WakeupExact
  NoStrandedTask
PROPERTIES
  ImplementsOffload
  EnqueueResumes
  PoolJoins
CHECK_DEADLOCK FALSE
