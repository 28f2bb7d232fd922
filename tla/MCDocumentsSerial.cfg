SPECIFICATION Spec
CONSTANTS
  a = a
  b = b
  c = c
  t1 = t1
  t2 = t2
  n1 = n1
  n2 = n2
  None = None
  Path <- MCPath3
  Base <- MCBase
  Text <- MCText
  Drafts <- DraftsLinks
  Seed <- SeedLink
  User = {}
  Mutes <- MCMutes
  Actor = {None}
  Thread = {}
  Req = {r1}
  Ops = {"save", "delete", "move", "tag", "fix", "fixAll"}
  MaxImport = 2
  MaxRequests = 3
  MaxFaults = 0
CHECK_DEADLOCK FALSE
INVARIANTS
  TypeOK
  MirrorInSync
  BacklinksExact
  HistoryHead

  
