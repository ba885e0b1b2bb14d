SPECIFICATION Spec
CONSTANTS
  t1 = t1
  t2 = t2
  Trees = {t1, t2}
  N = 3
  Window = 2
  Permits = 3
  Plans <- AllPlans
INVARIANTS TreeIsWhole WindowIsKept
PROPERTIES TreeSettles
CHECK_DEADLOCK FALSE
