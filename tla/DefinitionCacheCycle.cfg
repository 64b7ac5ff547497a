SPECIFICATION Spec
CONSTANTS
  r = r
  f = f
  g = g
  d = d
  u = u
  p = p
  q = q
  Self = self
  Frags = {p, q, self}
  Files <- TurnFiles
  Bare = {}
  Remote = {}
  Contents <- TurnContents
  Height <- TurnHeight
  TTL = 1
  MaxRun = 0
  MaxTime = 8
  MaxEdits = 1
INVARIANT CycleIsReported
CHECK_DEADLOCK FALSE
