SPECIFICATION Spec
CONSTANTS
  N = 3
  c1 = c1
  c2 = c2
  d1 = d1
  d2 = d2
  Conn <- Conns
  Dest <- Dests
  Detect <- MCDetect
  Level <- MCLevel
  OnAddr <- MCOnAddr
  Suits <- MCSuits
  Ttl <- MCTtl
  Pri <- MCPri
  MaxPri = 4
SYMMETRY Symmetry
INVARIANTS
  GroupsTypeOK
  ListWhole
  TriesBounded
  RequestSuits
  NextConnectionServed
PROPERTY
  SavedIsRetried
CHECK_DEADLOCK FALSE
