SPECIFICATION FairSpec
CONSTANTS
  Docs = {d1, d2}
  MaxTime = 3
  SinceLastSync = TRUE
  Durable = FALSE
  Blank = {2}
  MayFail = TRUE
  MaxRestarts = 1
INVARIANTS
  TypeOK
  
  

  
