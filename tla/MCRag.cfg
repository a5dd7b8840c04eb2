SPECIFICATION FairSpec
CONSTANTS
  q1 = q1
  q2 = q2
  Requests = {q1, q2}
  SameProcess = TRUE
  MaxWrites = 2
  MaxDeltas = 1
  MaxAttempts = 2
  MayFail = TRUE
  AuditMayFail = TRUE
  MayDisconnect = TRUE
INVARIANTS TypeOK RecordedOnce RecordIsTrue BlockingRunsSeeOneConfig
PROPERTIES NoReplay EveryRunEnds
CHECK_DEADLOCK FALSE
