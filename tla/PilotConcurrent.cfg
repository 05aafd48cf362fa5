SPECIFICATION Spec
CONSTANTS
  Pilots = {p1, p2, p3}
  Versions = {v1}
  Procs = {c1, c2}
  Entries <- SoftHardOrDry
  StopCodes <- OperatorOnly
  ReviewMin = 1
  ReviewMax = 3
  ReviewAfter = 2
  Clocked = TRUE
  Offsets = {0}
  MaxLag = 0
  MaxTime = 0
  MaxRows = 2
  MaxFills = 2
  MaxCrashes = 1
CHECK_DEADLOCK FALSE
SYMMETRY Symmetry
INVARIANTS
  TypeOK
  OneTornFillPerCrash
  HardFillLeavesStopRow
  ActiveSessionsBounded
  TradeOverrunBounded
