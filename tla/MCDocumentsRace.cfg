SPECIFICATION Spec
CONSTANTS
  a = a
  b = b
  c = c
  t1 = t1
  t2 = t2
  n1 = n1
  n2 = n2
  None = None
  Path <- MCPath2
  Base <- MCBase
  Text <- MCText
  Drafts <- DraftsTexts
  Seed <- SeedOne
  User = {}
  Mutes <- MCMutes
  Actor = {None}
  Thread = {}
  Req = {r1, r2}
  Ops = {"import", "delete", "move"}
  MaxImport = 2
  MaxRequests = 2
  MaxFaults = 1
CHECK_DEADLOCK FALSE
SYMMETRY ReqSymmetry
INVARIANTS
  MirrorAgrees
  SettledInHistory
