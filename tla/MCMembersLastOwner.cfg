SPECIFICATION Spec
CONSTANTS
  User = {u1, u2}
  Workspace = {ws1}
  Invite = {i1}
  Req = {r1, r2}
  MaxRequests = 4
  MaxFaults = 0
  None = None
SYMMETRY Symmetry
CHECK_DEADLOCK FALSE
INVARIANTS
  LastOwnerStays
