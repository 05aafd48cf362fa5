----------------------------- MODULE MCBacktest -----------------------------
(* Small files of trades for Backtest.  A spread 16 wide for a credit of 10 costs 2 of
   slippage per side and 8 of commission: with a multiplier of 4 it wins 16 when it
   expires worthless and loses 32 at a debit of 12. *)
EXTENDS Backtest

Winner ==
  [id |-> 1, entry |-> 0, exit |-> 1, contracts |-> 1, width |-> 16, credit |-> 10, debit |-> 0,
   regime |-> "GREEN", quality |-> TRUE, kill |-> "GREEN", risk |-> TRUE,
   scanner |-> "WATCHLIST", eligibility |-> "APPROVED", fillable |-> TRUE]
Loser == [Winner EXCEPT !.debit = 12]

MCRows ==
  {[Winner EXCEPT !.id = 2, !.entry = 1, !.exit = 2],
   [Winner EXCEPT !.id = 3, !.entry = 1, !.exit = 4, !.debit = 6],
   [Loser EXCEPT !.id = 4, !.exit = 2],
   [Loser EXCEPT !.id = 2, !.entry = 2, !.exit = 4, !.debit = 14],
   [Loser EXCEPT !.id = 5, !.exit = 5, !.contracts = 2, !.regime = "YELLOW"],
   [Winner EXCEPT !.id = 6, !.exit = 3, !.contracts = 4, !.risk = FALSE],
   [Winner EXCEPT !.id = 7, !.entry = 2, !.exit = 3, !.regime = "RED"],
   [Winner EXCEPT !.id = 8, !.fillable = FALSE],
   [Winner EXCEPT !.id = 9, !.credit = 5],
   [Winner EXCEPT !.id = 9, !.entry = 2],
   [Winner EXCEPT !.id = 10, !.credit = 16]}
=============================================================================
