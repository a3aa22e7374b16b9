SPECIFICATION FairSpec
CONSTANTS
  r1 = r1
  r2 = r2
  r3 = r3
  Req = {r1, r2, r3}
  Agents = {a1}
  Workers = {w1, w2}
  MaxFaults = 2
  Asks <- Revokes
INVARIANTS
  RevokedOnce
PROPERTIES
  RequestsFinish
CHECK_DEADLOCK FALSE
