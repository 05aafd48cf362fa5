SPECIFICATION Spec
CONSTANTS
  None = None
  Rows <- MCRows
  StartingEquity = 60
  Multiplier = 4
  HalfSlippage = 1
  HalfCommission = 1
  RemovePct = 40
  MaxTrades = 3
CHECK_DEADLOCK FALSE
INVARIANTS TypeOK LedgerBalances DrawdownIsExact RecoveryIsExact HigherCostsLookNoBetter RemovalNeverFlatters ShuffleKeepsTotals
