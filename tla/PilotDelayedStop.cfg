SPECIFICATION Spec
CONSTANTS
  Pilots = {p1, p2}
  Versions = {v1}
  Procs = {c1}
  Entries <- CleanOrHard
  StopCodes <- OperatorOnly
  ReviewMin = 2
  ReviewMax = 3
  ReviewAfter = 2
  Clocked = TRUE
  Offsets = {0}
  MaxLag = 2
  MaxTime = 2
  MaxRows = 3
  MaxFills = 1
  MaxCrashes = 0
CHECK_DEADLOCK FALSE
SYMMETRY Symmetry
INVARIANTS
  HardStopNeedsReviewOrRestart
