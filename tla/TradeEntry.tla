----------------------------- MODULE TradeEntry -----------------------------
(***************************************************************************)
(* From a spread of the option chain to a manual ticket:                   *)
(* strategy/eligibility.py, strategy/spread_scanner.py and                 *)
(* execution/ticket.py.  Each stage looks at the verdicts of MarketGates   *)
(* and RiskBook for itself, so the same gate is asked up to three times,   *)
(* in each place in its own way.                                           *)
(*                                                                         *)
(* A spread is a record:                                                   *)
(*   consistent         legs agree on symbol, expiration and snapshot      *)
(*   days               days to expiration when it is evaluated            *)
(*   shortDelta         |delta| of the short put, in percent               *)
(*   legWidth           widest bid-ask of the two legs, percent of mid     *)
(*   width, credit      strike distance; short bid minus long ask          *)
(***************************************************************************)
EXTENDS MarketGates, RiskBook

CONSTANTS
  MinDTE, MaxDTE, MinDelta, MaxDelta,   \* StrategyDefaults
  MinCreditPct,                         \* min_credit_to_width, in percent
  MaxLegWidth                           \* max_bid_ask_width_pct, in percent

ASSUME StrategyAssumption ==
  /\ MinDTE \in Nat /\ MaxDTE \in Nat /\ MinDTE <= MaxDTE
  /\ MinDelta \in 0 .. 100 /\ MaxDelta \in MinDelta .. 100
  /\ MinCreditPct \in 1 .. 100 /\ MaxLegWidth \in Nat

\* [fault] The window of days to expiration is not checked.
Rejections_AnyDays(spread, regime) ==
  {code \in {"REGIME", "DATA", "LIQUIDITY", "OTHER"} :
     \/ code = "REGIME" /\ regime \in {"RED", "BLACK"}
     \/ code = "DATA" /\ spread.shortDelta \notin MinDelta .. MaxDelta
     \/ code = "LIQUIDITY" /\ \/ spread.legWidth > MaxLegWidth
                              \/ spread.credit <= 0
                              \/ 100 * spread.credit < MinCreditPct * spread.width
     \/ code = "OTHER" /\ ~spread.consistent}

\* evaluate_eligibility: the groups of rejection codes the scanner tells apart.
\* BEARISH and UNKNOWN are other names of RED and BLACK.
Rejections(spread, regime) ==
  {code \in {"REGIME", "DATA", "LIQUIDITY", "OTHER"} :
     \/ code = "REGIME" /\ regime \in {"RED", "BLACK"}
     \/ code = "DATA" /\ \/ spread.days \notin MinDTE .. MaxDTE
                         \/ spread.shortDelta \notin MinDelta .. MaxDelta
     \/ code = "LIQUIDITY" /\ \/ spread.legWidth > MaxLegWidth
                              \/ spread.credit <= 0
                              \/ 100 * spread.credit < MinCreditPct * spread.width
     \/ code = "OTHER" /\ ~spread.consistent}

\* _scan_status: the first of the blocks that applies.
ScanStatus(spread, regime, budget, kill) ==
  LET codes == Rejections(spread, regime) IN
  IF ~AllowsNewTrades(kill) THEN "BLOCKED_BY_RISK"
  ELSE IF budget # None /\ (budget <= 0 \/ spread.width - spread.credit > budget)
    THEN "BLOCKED_BY_RISK"
  ELSE IF codes = {} THEN "WATCHLIST"
  ELSE IF "REGIME" \in codes THEN "BLOCKED_BY_REGIME"
  ELSE IF "DATA" \in codes THEN "BLOCKED_BY_DATA"
  ELSE IF "LIQUIDITY" \in codes THEN "BLOCKED_BY_LIQUIDITY" ELSE "REJECTED"

\* evaluate_trade_eligibility.  A missing size hides a scanner rejection that
\* is not a block: WATCHLIST, not REJECTED.
TradeStatus(scan, dataPassed, regime, riskPassed, contracts, kill) ==
  IF \/ ~dataPassed
     \/ regime \notin {"GREEN", "YELLOW"}
     \/ ~riskPassed
     \/ ~AllowsNewTrades(kill)
     \/ contracts # None /\ contracts < 1
     \/ scan \in {"BLOCKED_BY_REGIME", "BLOCKED_BY_RISK", "BLOCKED_BY_DATA"}
  THEN "NO_TRADE"
  ELSE IF contracts = None THEN "WATCHLIST"
  ELSE IF scan # "WATCHLIST" THEN "REJECTED" ELSE "APPROVED"

\* create_manual_execution_ticket raises no TicketError.  The target is the
\* natural credit of the spread, the worst acceptable credit the caller's.
TicketAccepted(spread, scan, status, equity, worst, kill) ==
  /\ AllowsNewTrades(kill)
  /\ status = "APPROVED" /\ scan = "WATCHLIST"
  /\ equity > 0
  /\ spread.credit > 0 /\ worst > 0 /\ worst <= spread.credit
  /\ spread.width > spread.credit
=============================================================================
