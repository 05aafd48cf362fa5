SPECIFICATION Spec
CONSTANTS
  Pilots = {p1}
  Versions = {v1}
  Offsets = {0}
  MaxAge = 0
  MaxLag = 0
  MaxTime = 1
  FlagChoices <- AllGiven
  Rehearsals = {TRUE}
  HardChoices = {TRUE}
  MaxRows = 6
  MaxBreaches = 1
  MaxReports = 1
CHECK_DEADLOCK FALSE
SYMMETRY Symmetry
INVARIANTS
  TypeOK
  OnlyLateRowsRewriteVerdicts
  NoGoAfterViolation
