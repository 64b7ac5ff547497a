SPECIFICATION Spec
CONSTANTS
  Threads = {t1, t2, t3}
  Schemas = {a, b}
  MaxConnects = 2
INVARIANTS TypeOK AloneStagesNothing AloneRestoresTheClass  AloneReadsItsOwn
CHECK_DEADLOCK FALSE
