SPECIFICATION Spec
CONSTANTS
  p1 = p1
  p2 = p2
  p3 = p3
  Proc = {p1, p2}
  Role <- Writers
  Operator <- SameOperator
  MaxSeg = 2
  MaxEvents = 3
  MaxCrashes = 1
  TornLine = {"noeol"}
INVARIANTS AckDurable
CHECK_DEADLOCK FALSE
