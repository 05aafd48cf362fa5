SPECIFICATION ReportsSpec
CONSTANTS
  Pilots = {p1}
  Versions = {v1}
  Procs = {c1}
  Entries <- CleanOrRedDry
  StopCodes <- OperatorOnly
  ReviewMin = 2
  ReviewMax = 2
  ReviewAfter = 1
  Clocked = TRUE
  Offsets = {0}
  MaxLag = 1
  MaxTime = 1
  MaxRows = 1
  MaxFills = 2
  MaxCrashes = 1
  DayLength = 1
  MaxSignoffs = 1
  NoBound = NoBound
  PilotReviewMin = 1
  PilotReviewMax = 2
  PilotReviewAfter = 1
CHECK_DEADLOCK FALSE
INVARIANTS ReportTypeOK OnlyLateRowsRewriteReports ReviewNotMilder HiddenFillsBounded ViolationsShowShutdown PacketCoherent
