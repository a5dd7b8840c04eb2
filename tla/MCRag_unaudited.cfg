SPECIFICATION Spec
CONSTANTS
  q1 = q1
  q2 = q2
  Requests = {q1}
  SameProcess = TRUE
  MaxWrites = 0
  MaxDeltas = 1
  MaxAttempts = 2
  MayFail = TRUE
  AuditMayFail = FALSE
  MayDisconnect = FALSE
INVARIANTS EveryRunIsAudited
CHECK_DEADLOCK FALSE
