----------------------------- MODULE MarketGates -----------------------------
(***************************************************************************)
(* The three verdicts that open or close the desk for the day, each a      *)
(* ladder over the evidence of the moment: data_quality.py (severity),     *)
(* regime/classifier.py (GREEN to BLACK) and risk/kill_switch.py.  Each    *)
(* reads the verdict of the ones before it.                                *)
(*                                                                         *)
(* Evidence is a record; an operator reads the fields it needs:            *)
(*   barAge, chainAge   age of the latest bar and chain in minutes, None   *)
(*                      when there is none, negative for a future stamp    *)
(*   malformed          a field, price or quote check has a complaint      *)
(*   positionsKnown     the open positions snapshot was supplied           *)
(*   equity             account equity, 0 when it is missing               *)
(*   close, average     the underlying's close and its 50-day average      *)
(*   iv, rv             implied and realized volatility, in percent        *)
(*   vix                NORMAL, INVERTED or UNKNOWN term structure         *)
(*   reconciled         account_reconciliation, broker_account_reconciled  *)
(*   verified           open risk was verified by the reconciliation       *)
(*   hardCap            the hard loss cap is hit (read by the regime)       *)
(*   lossCap            a daily, weekly or monthly cap is (kill switch)     *)
(*   lossCluster        abnormal loss cluster                              *)
(*   orderRisk          duplicate or wrong-way order risk detected         *)
(*   reducedSize        reduced size was asked for                         *)
(***************************************************************************)
EXTENDS Integers

CONSTANTS
  None,          \* Python's None
  MaxPriceAge,   \* DataQualityPolicy.max_price_age, in minutes
  MaxChainAge,   \* DataQualityPolicy.max_option_chain_age, in minutes
  ThinBuffer,    \* RegimePolicy.trend_weakening_buffer_pct, in percent
  ElevatedIV     \* RegimePolicy.volatility_elevated_iv_threshold, in percent

ASSUME PolicyAssumption ==
  /\ MaxPriceAge \in Nat \ {0} /\ MaxChainAge \in Nat \ {0}
  /\ ThinBuffer \in Nat /\ ElevatedIV \in Nat \ {0}

Severities == {"INFO", "ERROR", "CRITICAL"}
States == {"GREEN", "YELLOW", "RED", "BLACK"}

ASSUME NoneAssumption == None \notin Int \cup States

-----------------------------------------------------------------------------
(* Data quality *)

\* An observation is usable when it is there, not from the future, not stale.
Fresh(age, limit) == age # None /\ 0 <= age /\ age <= limit

\* The severities of the rejection reasons; no check reports a WARNING.
Findings(e) ==
  {s \in {"ERROR", "CRITICAL"} :
     \/ s = "CRITICAL" /\ e.equity <= 0
     \/ s = "ERROR" /\ \/ ~e.positionsKnown
                       \/ e.malformed
                       \/ ~Fresh(e.barAge, MaxPriceAge)
                       \/ ~Fresh(e.chainAge, MaxChainAge)}

\* from_rejections: the worst reason decides.
Severity(e) ==
  IF "CRITICAL" \in Findings(e) THEN "CRITICAL"
  ELSE IF "ERROR" \in Findings(e) THEN "ERROR" ELSE "INFO"

DataPassed(e) == Severity(e) \notin {"ERROR", "CRITICAL"}

-----------------------------------------------------------------------------
(* Regime *)

BlackRegime(e) ==
  Severity(e) = "CRITICAL" \/ ~e.reconciled \/ ~e.verified \/ e.hardCap

\* [fault] A VIX term structure that is not known passes for a normal one.
RedRegime_UnknownVix(e) ==
  \/ e.close < e.average
  \/ e.vix = "INVERTED"
  \/ e.rv > e.iv
  \/ e.lossCluster
  \/ ~DataPassed(e)

RedRegime(e) ==
  \/ e.close < e.average
  \/ e.vix \in {"INVERTED", "UNKNOWN"}
  \/ e.rv > e.iv
  \/ e.lossCluster
  \/ ~DataPassed(e)

\* At close = average neither this nor RedRegime applies.
YellowRegime(e) ==
  /\ e.close > e.average
  /\ \/ 100 * (e.close - e.average) <= ThinBuffer * e.average
     \/ e.iv >= ElevatedIV

\* [fault] The milder state is tried before the stricter one.
Regime_Swapped(e) ==
  IF BlackRegime(e) THEN "BLACK"
  ELSE IF YellowRegime(e) THEN "YELLOW"
  ELSE IF RedRegime(e) THEN "RED" ELSE "GREEN"

Regime(e) ==
  IF BlackRegime(e) THEN "BLACK"
  ELSE IF RedRegime(e) THEN "RED"
  ELSE IF YellowRegime(e) THEN "YELLOW" ELSE "GREEN"

-----------------------------------------------------------------------------
(* Kill switch *)

\* [fault] No state without a reason.
KillSwitch_Silent(e, regime) ==
  IF \/ Severity(e) = "CRITICAL" \/ e.equity <= 0
     \/ ~e.verified \/ ~e.reconciled
     \/ e.lossCap \/ e.orderRisk
     \/ regime = "BLACK"
  THEN "BLACK"
  ELSE IF regime = "RED" THEN "RED"
  ELSE IF e.reducedSize \/ regime = "YELLOW" THEN "YELLOW" ELSE None

\* evaluate_kill_switch_state: the gravest state that has a reason.
KillSwitch(e, regime) ==
  IF \/ Severity(e) = "CRITICAL" \/ e.equity <= 0
     \/ ~e.verified \/ ~e.reconciled
     \/ e.lossCap \/ e.orderRisk
     \/ regime = "BLACK"
  THEN "BLACK"
  ELSE IF regime = "RED" THEN "RED"
  ELSE IF e.reducedSize \/ regime = "YELLOW" THEN "YELLOW" ELSE "GREEN"

\* allow_new_trades and, the same, allow_ticket_generation.  None is a caller
\* that passes no kill switch: nothing is blocked.
AllowsNewTrades(kill) == kill \in {"GREEN", "YELLOW", None}

\* risk_off_review_required, which the workflow hands on as kill_switch_active.
RiskOffReview(kill) == kill = "BLACK"
=============================================================================
