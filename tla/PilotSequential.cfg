SPECIFICATION Spec
CONSTANTS
  Pilots = {p1, p2}
  Versions = {v1}
  Procs = {c1}
  Entries <- CleanOrHard
  StopCodes <- OperatorOrHard
  ReviewMin = 2
  ReviewMax = 3
  ReviewAfter = 2
  Clocked = TRUE
  Offsets = {0}
  MaxLag = 0
  MaxTime = 1
  MaxRows = 5
  MaxFills = 1
  MaxCrashes = 0
CHECK_DEADLOCK FALSE
INVARIANT HardStopNeedsReviewOrRestart
PROPERTY ImplementsLifecycle
