SPECIFICATION FocusSpec
CONSTANTS
  None = None
  u1 = u1
  f1 = f1
  f2 = f2
  pd = pd
  pf = pf
  Req = {r1, r2}
  User = {p1, p2}
  Workspace = {ws1}
  Invite = {i1}
  Viewer = {u1}
  Path = {p1, p2}
  File = {f1, f2}
  RulePath = {pd, pf}
  Covers <- MCCovers
  Length <- MCLength
  RoleOf <- MCRoleOf
  Group = {g1}
  GroupName = {n1}
  Query = {q1}
  Reader = {u1, u2}
  Link = {l1}
  Recipient = {p1, p2, u2}
  Label = {v1}
  Release = {x1, x2}
  Password = {s1}
  MaxRequests = 4
  MaxFaults = 1
  MaxAccessRequests = 2
  MaxMutations = 2
  MaxMs = 2
  MaxChanges = 3
  PageSize = 2
  MaxEntries = 4
  MaxLoads = 1
  MaxEvents = 1
  MaxAttempts = 2
  MaxPrefChanges = 1
  MaxVersionRequests = 4
  MaxAccountRequests = 5
SYMMETRY Symmetry
CHECK_DEADLOCK FALSE
INVARIANTS
  TypeOK
  Types
  OwnerKept
  AdmitsOnce
  AccessSound
  PageCurrent
  CacheCurrent
  
  
  
  MailsMatch
  VersionsWhole
  AccountSound

  
