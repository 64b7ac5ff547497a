SPECIFICATION Spec
CONSTANTS
  Threads = {t1, t2, t3}
  Schemas = {a, b}
  MaxConnects = 2
INVARIANTS NoStagingVolume
CHECK_DEADLOCK FALSE
