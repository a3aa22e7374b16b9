SPECIFICATION Spec
CONSTANTS
  r1 = r1
  r2 = r2
  r3 = r3
  Req = {r1, r2, r3}
  Agents = {a1}
  Workers = {w1}
  MaxFaults = 0
  Asks <- KillDrillCheck
INVARIANTS KillHeeded
CHECK_DEADLOCK FALSE
