------------------------------ MODULE RiskBook ------------------------------
(***************************************************************************)
(* The hard risk limits of risk/sizing.py, risk/portfolio_heat.py and the  *)
(* loss limits of risk/kill_switch.py (evaluate_kill_switch).  Amounts are *)
(* whole units of account currency, limits percentages of the equity;      *)
(* comparisons are multiplied out, so nothing is rounded.  Equity 0 stands *)
(* for missing equity: the code treats the two alike.                      *)
(***************************************************************************)
EXTENDS Integers, FiniteSets, FiniteSetsExt

CONSTANTS
  ClusterPct,        \* max_risk_per_trade_cluster_pct
  ExpirationPct,     \* max_risk_per_expiration_pct
  HeatPct,           \* max_total_portfolio_heat_pct
  WeeklyPct,         \* max_weekly_loss_pct
  MonthlyPct,        \* max_monthly_drawdown_pct
  MaxStoppedBaskets  \* max_consecutive_stopped_baskets

\* validate_risk_limits
ASSUME LimitsAssumption ==
  /\ {ClusterPct, ExpirationPct, HeatPct, WeeklyPct, MonthlyPct} \subseteq 1 .. 100
  /\ MaxStoppedBaskets \in Nat

\* calculate_risk_limit_amounts, in hundredths of a unit.
LimitAmount(equity, pct) == IF equity <= 0 THEN 0 ELSE equity * pct

Exceeds(amount, equity, pct) == 100 * amount > LimitAmount(equity, pct)

\* The limits on what was lost already are hit when they are reached.
Reaches(amount, equity, pct) == 100 * amount >= LimitAmount(equity, pct)

-----------------------------------------------------------------------------
(* One trade against running totals (RiskState) *)

\* evaluate_position_sizing
SizingPasses(s) ==
  /\ s.equity > 0
  /\ s.proposed > 0
  /\ s.clusterRisk >= 0 /\ s.expirationRisk >= 0
  /\ ~Exceeds(s.clusterRisk + s.proposed, s.equity, ClusterPct)
  /\ ~Exceeds(s.expirationRisk + s.proposed, s.equity, ExpirationPct)

\* evaluate_portfolio_heat
HeatPasses(s) ==
  /\ s.heat >= 0
  /\ s.equity > 0 => ~Exceeds(s.heat + s.proposed, s.equity, HeatPct)

\* [fault] The weekly limit applies only once it is exceeded.
LossLimitsPass_Weekly(s) ==
  /\ s.weeklyLoss >= 0 /\ s.drawdown >= 0 /\ s.stopped >= 0
  /\ s.equity > 0 => /\ ~Exceeds(s.weeklyLoss, s.equity, WeeklyPct)
                     /\ ~Reaches(s.drawdown, s.equity, MonthlyPct)
  /\ s.stopped < MaxStoppedBaskets

\* evaluate_kill_switch; martingale and live orders are forbidden by the
\* configuration and never requested.
LossLimitsPass(s) ==
  /\ s.weeklyLoss >= 0 /\ s.drawdown >= 0 /\ s.stopped >= 0
  /\ s.equity > 0 => /\ ~Reaches(s.weeklyLoss, s.equity, WeeklyPct)
                     /\ ~Reaches(s.drawdown, s.equity, MonthlyPct)
  /\ s.stopped < MaxStoppedBaskets

-----------------------------------------------------------------------------
(* One trade against the open positions (PortfolioRiskInput) *)

LossOf(book) == SumFunction([p \in book |-> p.loss])

\* [fault] The projected heat leaves out the trade it is computed for.
PortfolioRiskPasses_Current(book, trade, s) ==
  /\ s.equity > 0
  /\ \A p \in book : p.loss >= 0
  /\ trade.loss > 0
  /\ s.weeklyLoss >= 0 /\ s.drawdown >= 0 /\ s.stopped >= 0
  /\ ~Exceeds(LossOf(book), s.equity, HeatPct)
  /\ ~Reaches(s.weeklyLoss, s.equity, WeeklyPct)
  /\ ~Reaches(s.drawdown, s.equity, MonthlyPct)
  /\ s.stopped < MaxStoppedBaskets

\* evaluate_portfolio_risk, on metrics that include the proposed trade.
PortfolioRiskPasses(book, trade, s) ==
  /\ s.equity > 0
  /\ \A p \in book : p.loss >= 0
  /\ trade.loss > 0
  /\ s.weeklyLoss >= 0 /\ s.drawdown >= 0 /\ s.stopped >= 0
  /\ ~Exceeds(LossOf(book) + trade.loss, s.equity, HeatPct)
  /\ ~Exceeds(LossOf({p \in book : p.expiration = trade.expiration}) + trade.loss,
              s.equity, ExpirationPct)
  /\ ~Exceeds(LossOf({p \in book : p.underlying = trade.underlying}) + trade.loss,
              s.equity, ClusterPct)
  /\ ~Reaches(s.weeklyLoss, s.equity, WeeklyPct)
  /\ ~Reaches(s.drawdown, s.equity, MonthlyPct)
  /\ s.stopped < MaxStoppedBaskets

-----------------------------------------------------------------------------
(* Size of a trade *)

\* calculate_max_loss_per_spread; not positive: the code raises.
MaxLossPerSpread(width, credit) == width - credit

\* calculate_allowed_trade_risk, in hundredths of hundredths of a unit.
AllowedTradeRisk(equity, riskPct, regimePct) == equity * riskPct * regimePct

\* [fault] The size is rounded up.
Contracts_Up(allowed, loss) == (allowed \div (10000 * loss)) + 1

\* calculate_contracts: whole contracts, 0 where the code raises.
Contracts(allowed, loss) == allowed \div (10000 * loss)
=============================================================================
