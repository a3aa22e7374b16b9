SPECIFICATION FairSpec
CONSTANTS
  p1 = p1
  p2 = p2
  p3 = p3
  Proc = {p1, p2}
  Role <- Writers
  Operator <- SameOperator
  MaxSeg = 3
  MaxEvents = 5
  MaxCrashes = 2
  TornLine = {"bad", "full"}
INVARIANTS
  TypeOK
  LedgerWhole
PROPERTIES
  PendingResolved
  LedgerIsAppendOnlyLog
CHECK_DEADLOCK FALSE
