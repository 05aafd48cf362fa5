---------------------------- MODULE MCDeskReport ----------------------------
(* DeskReport with the market of MCPaperDesk: two underlyings, one clean day. *)
EXTENDS DeskReport, TLC

Good == [consistent |-> TRUE, days |-> 35, shortDelta |-> 15, legWidth |-> 5, width |-> 6, credit |-> 2]
MCChains ==
  {[underlying |-> "SPY", expiration |-> "Jul", spreads |-> <<Good>>],
   [underlying |-> "QQQ", expiration |-> "Jul", spreads |-> <<Good>>]}
MCDays ==
  {[barAge |-> 1, chainAge |-> 1, malformed |-> FALSE, positionsKnown |-> TRUE, equity |-> 100,
    close |-> 110, average |-> 100, iv |-> 20, rv |-> 15, vix |-> "NORMAL", reconciled |-> TRUE,
    verified |-> TRUE, hardCap |-> FALSE, lossCap |-> FALSE, lossCluster |-> FALSE, orderRisk |-> FALSE,
    reducedSize |-> FALSE, weeklyLoss |-> 0, drawdown |-> 0, stopped |-> 0]}
MCExitMarkets ==
  {[closed |-> FALSE, days |-> 35, credit |-> 0, width |-> 0, mark |-> 1, delta0 |-> 0,
    delta |-> 15, close |-> 110, trend |-> 100, vixShock |-> FALSE, priceAge |-> 1]}
WorkerSymmetry == Permutations(Workers)
=============================================================================
