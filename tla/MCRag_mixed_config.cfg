SPECIFICATION Spec
CONSTANTS
  q1 = q1
  q2 = q2
  Requests = {q1}
  SameProcess = FALSE
  MaxWrites = 2
  MaxDeltas = 1
  MaxAttempts = 2
  MayFail = FALSE
  AuditMayFail = FALSE
  MayDisconnect = FALSE
INVARIANTS EveryRunSeesOneConfig
CHECK_DEADLOCK FALSE
