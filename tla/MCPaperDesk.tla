---------------------------- MODULE MCPaperDesk ----------------------------
(* PaperDesk with a market of small numbers: spreads 6 wide for a credit of 2,
   an account of 100 and a limit of 8 on everything that is open, on one
   expiration and on one underlying. *)
EXTENDS PaperDesk, TLC

Good == [consistent |-> TRUE, days |-> 35, shortDelta |-> 15, legWidth |-> 5, width |-> 6, credit |-> 2]
Wide == [Good EXCEPT !.legWidth = 16]

MCChains ==
  {[underlying |-> "SPY", expiration |-> "Jul", spreads |-> <<Good>>],
   [underlying |-> "QQQ", expiration |-> "Jul", spreads |-> <<Wide, Good>>]}

Clean ==
  [barAge |-> 1, chainAge |-> 1, malformed |-> FALSE, positionsKnown |-> TRUE, equity |-> 100,
   close |-> 110, average |-> 100, iv |-> 20, rv |-> 15, vix |-> "NORMAL", reconciled |-> TRUE,
   verified |-> TRUE, hardCap |-> FALSE, lossCap |-> FALSE, lossCluster |-> FALSE, orderRisk |-> FALSE,
   reducedSize |-> FALSE, weeklyLoss |-> 0, drawdown |-> 0, stopped |-> 0]
MCDays == {Clean, [Clean EXCEPT !.close = 99]}

Calm == [closed |-> FALSE, days |-> 35, credit |-> 0, width |-> 0, mark |-> 1, delta0 |-> 0,
         delta |-> 15, close |-> 110, trend |-> 100, vixShock |-> FALSE, priceAge |-> 1]
MCExitMarkets == {Calm}

WorkerSymmetry == Permutations(Workers)
=============================================================================
