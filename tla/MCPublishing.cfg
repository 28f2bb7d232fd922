SPECIFICATION FairPublishSpec
CONSTANTS
  Job = {j1, j2}
  Worker = {w1}
  MaxAttempts = 2
  MaxFaults = 1
  MaxForeign = 1
  None = None
CHECK_DEADLOCK FALSE
INVARIANTS
  PendingHasAttempts
  
PROPERTIES
  RetriesSurvive
  
