SPECIFICATION Spec
CONSTANTS
  a = a
  b = b
  c = c
  t1 = t1
  t2 = t2
  n1 = n1
  n2 = n2
  None = None
  Path <- MCPath2
  Base <- MCBase
  Text <- MCText
  Drafts <- DraftsOne
  Seed <- SeedOne
  User = {u1}
  Mutes <- MCMutes
  Actor = {u1, None}
  Thread = {k1}
  Req = {r1}
  Ops = {"save", "move", "delete"}
  MaxImport = 2
  MaxRequests = 3
  MaxFaults = 1
CHECK_DEADLOCK FALSE

  
PROPERTIES
  WatchEndsTold
