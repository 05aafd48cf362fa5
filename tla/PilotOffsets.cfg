SPECIFICATION Spec
CONSTANTS
  Pilots = {p1}
  Versions = {v1}
  Procs = {c1}
  Entries <- HardOnly
  StopCodes <- OperatorOnly
  ReviewMin = 2
  ReviewMax = 3
  ReviewAfter = 2
  Clocked = TRUE
  Offsets = {0, 1}
  MaxLag = 0
  MaxTime = 1
  MaxRows = 3
  MaxFills = 2
  MaxCrashes = 0
CHECK_DEADLOCK FALSE
INVARIANT StopTakesEffect
