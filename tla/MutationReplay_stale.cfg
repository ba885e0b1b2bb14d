SPECIFICATION Spec
CONSTANTS
  Reqs = {r1, r2}
  Paths = {p1}
  Values = {a, b}
  CacheCap = 2
  MaxBreaks = 0
  MaxTimeouts = 1
INVARIANT StaleWriteConflicts
CHECK_DEADLOCK FALSE
