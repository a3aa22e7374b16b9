SPECIFICATION Spec
CONSTANTS
  p1 = p1
  p2 = p2
  p3 = p3
  Proc = {p1, p2, p3}
  Role <- TwoArchiversHold
  Operator <- SameOperator
  MaxSeg = 2
  MaxEvents = 4
  MaxCrashes = 1
  TornLine = {"bad", "full"}
INVARIANTS
  JournalInv
  HoldLedgered
  MoveAfterCommit
PROPERTIES
  HoldStopsArchive
CHECK_DEADLOCK FALSE
