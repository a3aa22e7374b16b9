SPECIFICATION Spec
CONSTANTS
  p1 = p1
  p2 = p2
  p3 = p3
  Proc = {p1, p2, p3}
  Role <- Holding
  Operator <- SameOperator
  MaxSeg = 3
  MaxEvents = 6
  MaxCrashes = 0
  TornLine = {"bad", "full"}
INVARIANTS
  RetentionEvidence
CHECK_DEADLOCK FALSE
