SPECIFICATION Spec
CONSTANTS
  r = r
  f = f
  g = g
  d = d
  u = u
  p = p
  q = q
  Self = self
  Frags = {p, q, self}
  Files <- LayerFiles
  Bare = {}
  Remote = {}
  Contents <- LayerContents
  Height <- LayerHeight
  TTL = 1
  MaxRun = 1
  MaxTime = 7
  MaxEdits = 1
INVARIANTS
  AgesAreBounded
  CachesConverge
  Following
CHECK_DEADLOCK FALSE
