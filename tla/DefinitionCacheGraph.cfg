SPECIFICATION FairSpec
CONSTANTS
  r = r
  f = f
  g = g
  d = d
  u = u
  p = p
  q = q
  Self = self
  Frags = {p, q, self}
  Files <- AllFiles
  Bare = {d, u}
  Remote = {u}
  Contents <- GraphContents
  Height <- GraphHeight
  TTL = 1
  MaxRun = 1
  MaxTime = 3
  MaxEdits = 0
INVARIANTS
  TypeOK
  NoFileTwice
  CachesAreTransparent
PROPERTY
  RunsEnd
  CountsDown
CHECK_DEADLOCK FALSE
