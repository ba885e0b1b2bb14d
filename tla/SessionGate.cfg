SPECIFICATION FairSpec
CONSTANTS
  Devices = {d1}
  Conns = {c1, c2, c3}
  Reqs = {r1}
  Tasks = {}
  Grace = 1
  Cap = 1
  MaxJumps = 1
INVARIANTS TelemetryAgrees SlotIsGivenBack
PROPERTIES SlotLeavesForCause WaiterMovesOn
CHECK_DEADLOCK FALSE
