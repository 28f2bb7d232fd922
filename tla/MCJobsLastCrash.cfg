SPECIFICATION FairSpec
CONSTANTS
  Job = {j1}
  Worker = {w1}
  MaxAttempts = 2
  MaxFaults = 1
CHECK_DEADLOCK FALSE
PROPERTIES
  JobsEnd
