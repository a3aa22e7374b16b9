SPECIFICATION Spec
CONSTANTS
  r1 = r1
  r2 = r2
  r3 = r3
  Req = {r1, r2, r3}
  Agents = {a1}
  Workers = {w1}
  MaxFaults = 1
  Asks <- StopsAndChecks
INVARIANTS
  AuthorityTypeOK
  AuthorityLedgered
  LedgerFirst
  StopsHold
PROPERTIES
  RetiredFrozen
CHECK_DEADLOCK FALSE
