SPECIFICATION SpecReader
CONSTANTS
  p1 = p1
  p2 = p2
  Proc = {p1, p2}
  Role <- RotatorArchiver
  Operator <- SameOperator
  MaxSeg = 3
  MaxEvents = 3
  MaxCrashes = 1
  SameDay = FALSE
  TornLine = {"bad", "full"}
INVARIANTS
  ReaderSound
CHECK_DEADLOCK FALSE
