SPECIFICATION FocusSpec
CONSTANTS
  v1 = v1
  v2 = v2
  v3 = v3
  a1 = a1
  a2 = a2
  d1 = d1
  d2 = d2
  k1 = k1
  k2 = k2
  w1 = w1
  w2 = w2
  p1 = p1
  p2 = p2
  None = None
  Volume = {v1, v2, v3}
  Asset = {a1, a2}
  Place <- MCPlace
  Size <- MCSize
  Req = {r1, r2}
  MaxRequests = 4
  MaxFaults = 1
  Row = {p1, p2}
  Name = {n1, n2}
  Call = {r1, r2}
  Key = {k1, k2}
  Word = {w1, w2}
  Schemas <- MCSchemas
  Contents <- MCContents
  Bodies <- MCBodies
  Path = {p1, p2}
  Revision = {r1, r2}
  Query = {p1, p2}
  Folder = {p1, p2}
  Base = {r1, r2}
  Text = {p1, p2}
  Avatar = {a1, a2}
  MaxCalls = 3
  MaxEdits = 2
  MaxDocSteps = 5
  MaxQuerySteps = 6
  MaxDocs = 3
  MaxListSteps = 3
  MaxSaves = 2
SYMMETRY Symmetry
CHECK_DEADLOCK FALSE
INVARIANTS
  Types
  BytesSafe
  UsageExact
  PanelSound
  EditsExact
  
  
  
