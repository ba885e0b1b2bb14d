SPECIFICATION Spec
CONSTANTS
  Devices = {d1, d2}
  Tasks = {t1}
  Calls = {k1, k2}
  Grace = 1
  Cap = 2
  HostCap = 1
  MaxConns = 2
  MaxTime = 2
  MaxRestarts = 1
SYMMETRY ShellSymmetry
INVARIANTS ReservationsCounted AttachedIsLive TaskIsProved UnprovedOrphanDies
CHECK_DEADLOCK FALSE
