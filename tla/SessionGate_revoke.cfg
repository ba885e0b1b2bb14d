SPECIFICATION Spec
CONSTANTS
  Devices = {d1}
  Conns = {c1, c2}
  Reqs = {r1}
  Tasks = {}
  Grace = 1
  Cap = 1
  MaxJumps = 0
INVARIANT RevokedIsOffline
CHECK_DEADLOCK FALSE
