SPECIFICATION Spec
CONSTANTS
  Docs = {d1}
  MaxTime = 2
  SinceLastSync = TRUE
  Durable = TRUE
  Blank = {}
  MayFail = TRUE
  MaxRestarts = 0
INVARIANT SuccessfulSyncHeals
