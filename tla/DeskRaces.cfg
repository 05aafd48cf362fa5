SPECIFICATION Spec
CONSTANTS
  None = None
  MaxPriceAge = 15  MaxChainAge = 15  ThinBuffer = 1  ElevatedIV = 30
  ClusterPct = 8  ExpirationPct = 8  HeatPct = 8  WeeklyPct = 2  MonthlyPct = 5
  MaxStoppedBaskets = 2
  MinDTE = 30  MaxDTE = 45  MinDelta = 10  MaxDelta = 25  MinCreditPct = 30  MaxLegWidth = 15
  ProfitPct = 50  LossPct = 80  CloseDTE = 10  DeltaMultiple = 2  ReviewDTE = 7  ReviewPriceAge = 15
  Workers = {w1, w2}
  Equity = 100
  Chains <- MCChains
  Sizes = {1}
  WorstCredits = {1, 3}
  Naturals = {0, 1}
  Days <- MCDays
  ExitMarkets <- MCExitMarkets
  MaxRuns = 3
  MaxCrashes = 3
SYMMETRY WorkerSymmetry
INVARIANTS TypeOK OneTornPositionPerWorker BookWithinLimits TrailLeadsRows
CHECK_DEADLOCK FALSE
