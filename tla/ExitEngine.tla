----------------------------- MODULE ExitEngine -----------------------------
(***************************************************************************)
(* Exit advice for one position, strategy/exits.py.  There are two engines *)
(* with thresholds of their own: the recommendation of the paper workflow, *)
(* from prices, delta and the verdicts of the day, and the daily review,   *)
(* from the calendar and the freshness of the price.                       *)
(*                                                                         *)
(* A position is read through a record:                                    *)
(*   closed             status CLOSED or a closed_at                       *)
(*   days               calendar days to expiration, negative when past    *)
(*   credit, width      entry credit, strike distance                      *)
(*   mark               current price of the spread                        *)
(*   delta0, delta      |short delta| at entry and now                     *)
(*   close, trend       the underlying's close and its trend filter        *)
(*   vixShock           VIX shock flag                                     *)
(*   priceAge           age of the latest price of its symbol, or None     *)
(***************************************************************************)
EXTENDS MarketGates

CONSTANTS
  ProfitPct, LossPct, CloseDTE, DeltaMultiple,  \* ExitRecommendationPolicy
  ReviewDTE, ReviewPriceAge                     \* ExitReviewPolicy

ASSUME ExitPolicyAssumption ==
  /\ {ProfitPct, LossPct} \subseteq 1 .. 100
  /\ CloseDTE \in Nat /\ ReviewDTE \in Nat /\ ReviewPriceAge \in Nat \ {0}
  /\ DeltaMultiple \in Nat \ {0, 1}

Positive(x) == IF x > 0 THEN x ELSE 0

\* [fault] The close-by-DTE rule fires on its day only.
ExitReasons_OnTheDay(p, regime, killActive) ==
  {r \in {"KILL", "LOSS", "DTE", "DELTA", "TREND", "VIX", "REGIME", "PROFIT"} :
     \/ r = "KILL" /\ killActive
     \/ r = "LOSS" /\ 100 * Positive(p.mark - p.credit) >= LossPct * (p.width - p.credit)
     \/ r = "DTE" /\ Positive(p.days) = CloseDTE
     \/ r = "DELTA" /\ p.delta >= DeltaMultiple * p.delta0
     \/ r = "TREND" /\ p.close < p.trend
     \/ r = "VIX" /\ p.vixShock
     \/ r = "REGIME" /\ regime = "RED"
     \/ r = "PROFIT" /\ 100 * Positive(p.credit - p.mark) >= ProfitPct * p.credit}

\* _recommendation_reasons of an open position.  There is no reason for BLACK:
\* that is left to the kill switch.
ExitReasons(p, regime, killActive) ==
  {r \in {"KILL", "LOSS", "DTE", "DELTA", "TREND", "VIX", "REGIME", "PROFIT"} :
     \/ r = "KILL" /\ killActive
     \/ r = "LOSS" /\ 100 * Positive(p.mark - p.credit) >= LossPct * (p.width - p.credit)
     \/ r = "DTE" /\ Positive(p.days) <= CloseDTE
     \/ r = "DELTA" /\ p.delta >= DeltaMultiple * p.delta0
     \/ r = "TREND" /\ p.close < p.trend
     \/ r = "VIX" /\ p.vixShock
     \/ r = "REGIME" /\ regime = "RED"
     \/ r = "PROFIT" /\ 100 * Positive(p.credit - p.mark) >= ProfitPct * p.credit}

\* evaluate_exit_recommendation: the gravest reason decides.
Recommendation(p, regime, killActive) ==
  LET reasons == IF p.closed THEN {} ELSE ExitReasons(p, regime, killActive) IN
  IF "KILL" \in reasons THEN "KILL_SWITCH_EXIT"
  ELSE IF reasons \cap {"LOSS", "DTE"} # {} THEN "CLOSE_POSITION"
  ELSE IF reasons \cap {"DELTA", "TREND", "VIX", "REGIME"} # {} THEN "REDUCE_RISK"
  ELSE IF "PROFIT" \in reasons THEN "TAKE_PROFIT" ELSE "HOLD"

\* evaluate_exit and, for the latest price of the symbol, evaluate_exits.
Review(p) ==
  IF p.closed \/ ~Fresh(p.priceAge, ReviewPriceAge) THEN "NO_ACTION"
  ELSE IF p.days <= ReviewDTE THEN "REVIEW_EXIT" ELSE "HOLD"
=============================================================================
