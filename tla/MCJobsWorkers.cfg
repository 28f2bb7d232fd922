SPECIFICATION Spec
CONSTANTS
  Job = {j1, j2}
  Worker = {w1, w2, w3}
  MaxAttempts = 3
  MaxFaults = 1
SYMMETRY Symmetry
CHECK_DEADLOCK FALSE
INVARIANTS
  TypeOK
  ClaimExclusive
  EffectOnce
  AttemptHeldOnce
PROPERTIES
  LedgerSpec
