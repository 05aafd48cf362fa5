SPECIFICATION Spec
CONSTANTS
  None = None
  MaxPriceAge = 15  MaxChainAge = 15  ThinBuffer = 1  ElevatedIV = 30
  ClusterPct = 8  ExpirationPct = 10  HeatPct = 12  WeeklyPct = 2  MonthlyPct = 5
  MaxStoppedBaskets = 2
  MinDTE = 30  MaxDTE = 45  MinDelta = 10  MaxDelta = 25  MinCreditPct = 30  MaxLegWidth = 15
  ProfitPct = 50  LossPct = 80  CloseDTE = 10  DeltaMultiple = 2  ReviewDTE = 7  ReviewPriceAge = 15
  CleanDay <- MCCleanDay
  GoodSpread <- MCGoodSpread
  CalmHolding <- MCCalmHolding
  DayRange <- MCDayRange
  SpreadRange <- MCSpreadRange
  HeldRange <- MCHeldRange
  OpenTrades <- MCOpenTrades
  Underlying = "SPY"
  Expiration = "Jul"
  Sizes = {1, 2}
  WorstCredits = {1, 2}
  RegimePcts = {50, 100}
  MaxTroubles = 3
INVARIANTS TypeOK TicketNeedsCleanEvidence EntryIsNoExit ReviewMeansClose LimitsAgree SizeFits
PROPERTIES WorseNeverPermits WorseNeverEases
CHECK_DEADLOCK FALSE
