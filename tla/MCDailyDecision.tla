-------------------------- MODULE MCDailyDecision --------------------------
(* DailyDecision around the thresholds: each field may be reported on both
   sides of its limit, and on the limit where the code has one. *)
EXTENDS DailyDecision

MCCleanDay ==
  [barAge |-> 1, chainAge |-> 1, malformed |-> FALSE, positionsKnown |-> TRUE, equity |-> 100,
   close |-> 110, average |-> 100, iv |-> 20, rv |-> 15, vix |-> "NORMAL", reconciled |-> TRUE,
   verified |-> TRUE, hardCap |-> FALSE, lossCap |-> FALSE, lossCluster |-> FALSE,
   orderRisk |-> FALSE, reducedSize |-> FALSE, weeklyLoss |-> 0, drawdown |-> 0, stopped |-> 0]
MCDayRange ==
  [barAge |-> {1, 15, 16, -1, None}, chainAge |-> {1, 16}, malformed |-> BOOLEAN,
   positionsKnown |-> BOOLEAN, equity |-> {100, 70, 0}, close |-> {110, 101, 100, 99},
   iv |-> {20, 30}, rv |-> {15, 21}, vix |-> {"NORMAL", "INVERTED", "UNKNOWN"},
   reconciled |-> BOOLEAN, verified |-> BOOLEAN, hardCap |-> BOOLEAN, lossCap |-> BOOLEAN,
   lossCluster |-> BOOLEAN, orderRisk |-> BOOLEAN, reducedSize |-> BOOLEAN,
   weeklyLoss |-> {0, 1, 2, -1}, drawdown |-> {0, 5}, stopped |-> {0, 2}]

MCGoodSpread ==
  [consistent |-> TRUE, days |-> 35, shortDelta |-> 15, legWidth |-> 5, width |-> 6, credit |-> 2]
MCSpreadRange ==
  [consistent |-> BOOLEAN, days |-> {35, 29, 9}, shortDelta |-> {15, 26},
   legWidth |-> {5, 16}, credit |-> {7, 4, 2, 1, 0}]

MCCalmHolding ==
  [closed |-> FALSE, days |-> 35, credit |-> 2, width |-> 6, mark |-> 2, delta0 |-> 15,
   delta |-> 15, close |-> 110, trend |-> 100, vixShock |-> FALSE, priceAge |-> 1]
MCHeldRange ==
  [closed |-> BOOLEAN, days |-> {35, 10, 7, -1}, mark |-> {2, 1, 6}, delta |-> {15, 30},
   close |-> {110, 99}, vixShock |-> BOOLEAN, priceAge |-> {1, 16}]

MCOpenTrades ==
  {[id |-> 1, underlying |-> "SPY", expiration |-> "Jul", loss |-> 4],
   [id |-> 2, underlying |-> "SPY", expiration |-> "Aug", loss |-> 1],
   [id |-> 3, underlying |-> "QQQ", expiration |-> "Jul", loss |-> 4],
   [id |-> 4, underlying |-> "QQQ", expiration |-> "Aug", loss |-> 5]}
=============================================================================
