SPECIFICATION FairSpec
CONSTANTS
  Pilots = {p1}
  Versions = {v1}
  Procs = {c1, c2}
  Entries <- HardOnly
  StopCodes <- OperatorOnly
  ReviewMin = 2
  ReviewMax = 3
  ReviewAfter = 2
  Clocked = FALSE
  Offsets = {0}
  MaxLag = 0
  MaxTime = 1
  MaxRows = 3
  MaxFills = 1
  MaxCrashes = 0
CHECK_DEADLOCK FALSE
PROPERTY HardFillEventuallyStops
INVARIANT FoldAgrees
