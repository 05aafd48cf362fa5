SPECIFICATION ReportSpec
CONSTANTS
  None = None
  MaxPriceAge = 15  MaxChainAge = 15  ThinBuffer = 1  ElevatedIV = 30
  ClusterPct = 20  ExpirationPct = 20  HeatPct = 20  WeeklyPct = 2  MonthlyPct = 5
  MaxStoppedBaskets = 2
  MinDTE = 30  MaxDTE = 45  MinDelta = 10  MaxDelta = 25  MinCreditPct = 30  MaxLegWidth = 15
  ProfitPct = 50  LossPct = 80  CloseDTE = 10  DeltaMultiple = 2  ReviewDTE = 7  ReviewPriceAge = 15
  Workers = {w1, w2}
  Equity = 100
  Chains <- MCChains
  Sizes = {1}
  WorstCredits = {1}
  Naturals = {1}
  Days <- MCDays
  ExitMarkets <- MCExitMarkets
  MaxRuns = 2
  MaxCrashes = 1
  LastDay = 1
SYMMETRY WorkerSymmetry
INVARIANTS ReportTypeOK RiskStatedIsWhole AdviceIsOnListedRisk
CHECK_DEADLOCK FALSE
