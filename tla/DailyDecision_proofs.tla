------------------------ MODULE DailyDecision_proofs ------------------------
(***************************************************************************)
(* What holds of the day's decisions for all thresholds, limits and        *)
(* evidence.  The answers are functions of the state, so every proof is    *)
(* type correctness and then a case analysis of the ladders.               *)
(***************************************************************************)
EXTENDS DailyDecision, SumLemmas

-----------------------------------------------------------------------------
(* Types *)

\* A report changes one field to a value of its range, and all stay typed.
LEMMA ReportTyped ==
  ASSUME NEW types, NEW range, NEW r, Typed(r, types), RangeTyped(range, types),
         NEW new, \E f \in DOMAIN range : \E v \in range[f] : new = [r EXCEPT ![f] = v]
  PROVE  Typed(new, types)
  BY DEF Typed, RangeTyped

\* The fields of a day that are compared or counted.
LEMMA DayFields ==
  ASSUME NEW d, Typed(d, DayTypes)
  PROVE  /\ d.equity \in Int /\ d.close \in Int /\ d.average \in Int /\ d.iv \in Int /\ d.rv \in Int
         /\ d.vix \in {"NORMAL", "INVERTED", "UNKNOWN"}
         /\ d.weeklyLoss \in Int /\ d.drawdown \in Int /\ d.stopped \in Int
         /\ d.barAge \in Int \cup {None} /\ d.chainAge \in Int \cup {None}
         /\ {d.malformed, d.positionsKnown, d.reconciled, d.verified, d.hardCap, d.lossCap,
             d.lossCluster, d.orderRisk, d.reducedSize} \subseteq BOOLEAN
  BY DEF Typed, DayTypes

LEMMA SpreadFields ==
  ASSUME NEW s, Typed(s, SpreadTypes)
  PROVE  /\ s.consistent \in BOOLEAN /\ s.days \in Int /\ s.shortDelta \in Int
         /\ s.legWidth \in Int /\ s.width \in Int /\ s.credit \in Int
  BY DEF Typed, SpreadTypes

LEMMA HeldFields ==
  ASSUME NEW h, Typed(h, HeldTypes)
  PROVE  /\ h.closed \in BOOLEAN /\ h.vixShock \in BOOLEAN /\ h.days \in Int /\ h.credit \in Int
         /\ h.width \in Int /\ h.mark \in Int /\ h.delta0 \in Int /\ h.delta \in Int
         /\ h.close \in Int /\ h.trend \in Int /\ h.priceAge \in Int \cup {None}
  BY DEF Typed, HeldTypes

\* The regime is one of the four, and so is the kill switch.
LEMMA LadderStates ==
  ASSUME NEW d
  PROVE  Regime(d) \in States /\ KillOf(d, TRUE) \in States
  BY DEF Regime, KillOf, KillSwitch, States

\* Spec => []TypeOK: every report keeps the type of its field.
THEOREM TypeCorrect == Spec => []TypeOK
<1>1. Init => TypeOK
  BY DayAssumption, LadderStates DEF Init, TypeOK
<1>2. TypeOK /\ [Next]_vars => TypeOK'
  <2> SUFFICES ASSUME TypeOK, [Next]_vars PROVE TypeOK'
    OBVIOUS
  <2>0. Regime(day') \in States /\ KillOf(day', TRUE) \in States
    BY LadderStates
  <2>day. ASSUME NEW fields, DayReport(fields) PROVE TypeOK'
    <3>1. \E f \in DOMAIN DayRange : \E v \in DayRange[f] : day' = [day EXCEPT ![f] = v]
      BY <2>day DEF DayReport
    <3>2. Typed(day', DayTypes)
      BY <3>1, ReportTyped, DayAssumption DEF TypeOK
    <3> QED
      BY <2>0, <2>day, <3>2 DEF DayReport, TypeOK
  <2>1. CASE MarketReport
    BY <2>1, <2>day DEF MarketReport
  <2>2. CASE DataReport
    BY <2>2, <2>day DEF DataReport
  <2>3. CASE AccountReport
    BY <2>3, <2>day DEF AccountReport
  <2>4. CASE ChainReport
    <3>1. \E f \in DOMAIN SpreadRange : \E v \in SpreadRange[f] : spread' = [spread EXCEPT ![f] = v]
      BY <2>4 DEF ChainReport
    <3>2. Typed(spread', SpreadTypes)
      BY <3>1, ReportTyped, DayAssumption DEF TypeOK
    <3> QED
      BY <2>0, <2>4, <3>2 DEF ChainReport, TypeOK
  <2>5. CASE HoldingReport
    <3>1. \E f \in DOMAIN HeldRange : \E v \in HeldRange[f] : held' = [held EXCEPT ![f] = v]
      BY <2>5 DEF HoldingReport
    <3>2. Typed(held', HeldTypes)
      BY <3>1, ReportTyped, DayAssumption DEF TypeOK
    <3> QED
      BY <2>0, <2>5, <3>2 DEF HoldingReport, TypeOK
  <2>6. CASE BookReport
    BY <2>0, <2>6 DEF BookReport, TypeOK
  <2>7. CASE UNCHANGED vars
    BY <2>7 DEF vars, TypeOK
  <2> QED
    BY <2>1, <2>2, <2>3, <2>4, <2>5, <2>6, <2>7 DEF Next
<1> QED
  BY <1>1, <1>2, PTL DEF Spec

-----------------------------------------------------------------------------
(* Tickets *)

\* What the last stage knows: every gate before it was open.
LEMMA TicketGates ==
  ASSUME NEW d, NEW s, NEW b, NEW asked \in BOOLEAN, NEW n, NEW worst,
         Ticketed(d, s, b, asked, n, worst)
  PROVE  /\ AllowsNewTrades(KillOf(d, asked))
         /\ DataPassed(d) /\ Regime(d) \in {"GREEN", "YELLOW"}
         /\ PortfolioRiskPasses(b, TradeOf(s, n), d)
         /\ Rejections(s, Regime(d)) = {}
         /\ d.equity > 0 /\ s.credit > 0 /\ s.width > s.credit
<1> DEFINE scan == ScanStatus(s, Regime(d), None, KillOf(d, asked))
           status == TradeStatus(scan, DataPassed(d), Regime(d),
                                 PortfolioRiskPasses(b, TradeOf(s, n), d), n, KillOf(d, asked))
<1>1. /\ scan = "WATCHLIST" /\ status = "APPROVED" /\ AllowsNewTrades(KillOf(d, asked))
      /\ d.equity > 0 /\ s.credit > 0 /\ s.width > s.credit
  BY DEF Ticketed, TicketAccepted
<1>2. /\ DataPassed(d) /\ Regime(d) \in {"GREEN", "YELLOW"}
      /\ PortfolioRiskPasses(b, TradeOf(s, n), d)
  BY <1>1 DEF TradeStatus
<1>3. Rejections(s, Regime(d)) = {}
  BY <1>1 DEF ScanStatus
<1> QED
  BY <1>1, <1>2, <1>3

\* GREEN and YELLOW leave no reason for BLACK or RED.
LEMMA OpenRegime ==
  ASSUME NEW d, Regime(d) \in {"GREEN", "YELLOW"}
  PROVE  ~BlackRegime(d) /\ ~RedRegime(d)
  BY DEF Regime

\* Data that passed have no finding at all.
LEMMA PassedData ==
  ASSUME NEW d, DataPassed(d)
  PROVE  ~(d.equity <= 0) /\ d.positionsKnown /\ ~d.malformed
         /\ Fresh(d.barAge, MaxPriceAge) /\ Fresh(d.chainAge, MaxChainAge)
<1>1. "CRITICAL" \notin Findings(d) /\ "ERROR" \notin Findings(d)
  BY DEF DataPassed, Severity
<1>2. ~(d.equity <= 0)
  BY <1>1 DEF Findings
<1>3. ~(~d.positionsKnown \/ d.malformed \/ ~Fresh(d.barAge, MaxPriceAge)
        \/ ~Fresh(d.chainAge, MaxChainAge))
  BY <1>1 DEF Findings
<1> QED
  BY <1>2, <1>3

\* Whichever gate knows it, no evidence that the chain of gates is to stop lets a ticket
\* pass, for any policy, limits and book: TicketNeedsCleanEvidence always holds.
THEOREM TicketsNeedCleanEvidence == Spec => []TicketNeedsCleanEvidence
<1>1. TypeOK => TicketNeedsCleanEvidence
  <2> SUFFICES ASSUME TypeOK, NEW asked \in BOOLEAN, NEW n \in Sizes, NEW worst \in WorstCredits,
                      Ticketed(day, spread, book, asked, n, worst)
               PROVE  /\ day.equity > 0 /\ day.positionsKnown /\ day.reconciled /\ day.verified
                      /\ ~day.malformed
                      /\ Fresh(day.barAge, MaxPriceAge) /\ Fresh(day.chainAge, MaxChainAge)
                      /\ day.close >= day.average /\ day.vix = "NORMAL" /\ day.rv <= day.iv
                      /\ ~day.lossCluster /\ ~day.hardCap
                      /\ day.stopped < MaxStoppedBaskets
                      /\ asked => ~day.lossCap /\ ~day.orderRisk
    BY DEF TicketNeedsCleanEvidence
  <2>1. /\ AllowsNewTrades(KillOf(day, asked)) /\ DataPassed(day)
        /\ Regime(day) \in {"GREEN", "YELLOW"}
        /\ PortfolioRiskPasses(book, TradeOf(spread, n), day) /\ day.equity > 0
    BY TicketGates
  <2>2. /\ day.positionsKnown /\ ~day.malformed
        /\ Fresh(day.barAge, MaxPriceAge) /\ Fresh(day.chainAge, MaxChainAge)
    BY <2>1, PassedData
  <2>3. ~BlackRegime(day) /\ ~RedRegime(day)
    BY <2>1, OpenRegime
  <2>4. day.reconciled /\ day.verified /\ ~day.hardCap
    BY <2>3 DEF BlackRegime
  <2>5. /\ ~(day.close < day.average) /\ day.vix \notin {"INVERTED", "UNKNOWN"}
        /\ ~(day.rv > day.iv) /\ ~day.lossCluster
    BY <2>3 DEF RedRegime
  <2>6. day.close >= day.average /\ day.vix = "NORMAL" /\ day.rv <= day.iv
    BY <2>5, DayFields DEF TypeOK
  <2>7. day.stopped < MaxStoppedBaskets
    BY <2>1 DEF PortfolioRiskPasses
  <2>8. ASSUME asked PROVE ~day.lossCap /\ ~day.orderRisk
    BY <2>1, <2>8, NoneAssumption DEF AllowsNewTrades, KillOf, KillSwitch, States
  <2> QED
    BY <2>1, <2>2, <2>4, <2>5, <2>6, <2>7, <2>8
<1> QED
  BY <1>1, TypeCorrect, PTL

-----------------------------------------------------------------------------
(* Exits *)

\* The thresholds are percentages and multiples of something positive.
LEMMA PositiveProduct ==
  ASSUME NEW a \in Nat, NEW b \in Nat, a > 0, b > 0
  PROVE  a * b > 0
  OBVIOUS

LEMMA ProperMultiple ==
  ASSUME NEW a \in Nat, NEW b \in Nat, a > 1, b > 0
  PROVE  a * b > b
<1>1. (a - 1) * b > 0
  BY PositiveProduct
<1>2. (a - 1) * b = a * b - b
  OBVIOUS
<1> QED
  BY <1>1, <1>2

\* Entry and exit do not contradict each other for any thresholds with an
\* entry window that ends before the closing one: EntryIsNoExit always holds.
THEOREM EntriesAreNoExits == Spec => []EntryIsNoExit
<1>1. TypeOK => EntryIsNoExit
  <2> SUFFICES ASSUME TypeOK, NEW asked \in BOOLEAN, NEW n \in Sizes, NEW worst \in WorstCredits,
                      Ticketed(day, spread, book, asked, n, worst)
               PROVE  Recommendation(
                        [closed |-> FALSE, days |-> spread.days, credit |-> spread.credit,
                         width |-> spread.width, mark |-> spread.credit,
                         delta0 |-> spread.shortDelta, delta |-> spread.shortDelta,
                         close |-> day.close, trend |-> day.average, vixShock |-> FALSE],
                        Regime(day), RiskOffReview(KillOf(day, asked))) = "HOLD"
    BY DEF EntryIsNoExit
  <2> DEFINE p == [closed |-> FALSE, days |-> spread.days, credit |-> spread.credit,
                   width |-> spread.width, mark |-> spread.credit,
                   delta0 |-> spread.shortDelta, delta |-> spread.shortDelta,
                   close |-> day.close, trend |-> day.average, vixShock |-> FALSE]
             kill == RiskOffReview(KillOf(day, asked))
  <2>1. /\ AllowsNewTrades(KillOf(day, asked)) /\ Regime(day) \in {"GREEN", "YELLOW"}
        /\ Rejections(spread, Regime(day)) = {} /\ spread.credit > 0 /\ spread.width > spread.credit
    BY TicketGates
  <2>2. /\ spread.credit \in Int /\ spread.width \in Int /\ spread.days \in Int
        /\ spread.shortDelta \in Int /\ day.close \in Int /\ day.average \in Int
    BY SpreadFields, DayFields DEF TypeOK
  <2>3. ~kill
    BY <2>1, NoneAssumption DEF AllowsNewTrades, RiskOffReview, States
  <2>4. spread.days \in MinDTE .. MaxDTE /\ spread.shortDelta \in MinDelta .. MaxDelta
    BY <2>1 DEF Rejections
  <2>5. ~(100 * Positive(p.mark - p.credit) >= LossPct * (p.width - p.credit))
    <3>1. Positive(spread.credit - spread.credit) = 0
      BY <2>2 DEF Positive
    <3>2. LossPct * (spread.width - spread.credit) > 0
      BY <2>1, <2>2, PositiveProduct, ExitPolicyAssumption
    <3>3. LossPct * (spread.width - spread.credit) \in Int
      BY <2>2, ExitPolicyAssumption
    <3> QED
      BY <3>1, <3>2, <3>3
  <2>6. ~(Positive(p.days) <= CloseDTE)
    BY <2>2, <2>4, ThresholdAssumption, StrategyAssumption, ExitPolicyAssumption DEF Positive
  <2>7. ~(p.delta >= DeltaMultiple * p.delta0)
    <3>1. spread.shortDelta \in Nat /\ spread.shortDelta > 0
      BY <2>2, <2>4, ThresholdAssumption, StrategyAssumption
    <3>2. DeltaMultiple \in Nat /\ DeltaMultiple > 1
      BY ExitPolicyAssumption
    <3>3. DeltaMultiple * spread.shortDelta > spread.shortDelta
      BY <3>1, <3>2, ProperMultiple
    <3>4. DeltaMultiple * spread.shortDelta \in Int
      BY <3>1, <3>2
    <3> QED
      BY <3>1, <3>3, <3>4
  <2>8. ~(p.close < p.trend)
    <3>1. ~RedRegime(day)
      BY <2>1, OpenRegime
    <3> QED
      BY <3>1 DEF RedRegime
  <2>9. ~(100 * Positive(p.credit - p.mark) >= ProfitPct * p.credit)
    <3>1. Positive(spread.credit - spread.credit) = 0
      BY <2>2 DEF Positive
    <3>2. ProfitPct * spread.credit > 0 /\ ProfitPct * spread.credit \in Int
      BY <2>1, <2>2, PositiveProduct, ExitPolicyAssumption
    <3> QED
      BY <3>1, <3>2
  <2>10. ExitReasons(p, Regime(day), kill) = {}
    BY <2>1, <2>3, <2>5, <2>6, <2>7, <2>8, <2>9 DEF ExitReasons
  <2> QED
    BY <2>10 DEF Recommendation
<1> QED
  BY <1>1, TypeCorrect, PTL

\* A position whose calendar asks for a review is one the recommendation
\* closes, for any two thresholds in that order: ReviewMeansClose always holds.
THEOREM ReviewsMeanClose == Spec => []ReviewMeansClose
<1>1. TypeOK => ReviewMeansClose
  <2> SUFFICES ASSUME TypeOK, Review(held) = "REVIEW_EXIT"
               PROVE  Danger(Advice(held, day)) >= 2
    BY DEF ReviewMeansClose
  <2> DEFINE kill == RiskOffReview(KillOf(day, TRUE))
  <2>1. ~held.closed /\ held.days <= ReviewDTE /\ held.days \in Int
    BY HeldFields DEF Review, TypeOK
  <2>2. Positive(held.days) <= CloseDTE
    BY <2>1, ThresholdAssumption, ExitPolicyAssumption DEF Positive
  <2>3. "DTE" \in ExitReasons(held, Regime(day), kill)
    BY <2>2 DEF ExitReasons
  <2>4. Advice(held, day) \in {"KILL_SWITCH_EXIT", "CLOSE_POSITION"}
    BY <2>1, <2>3 DEF Advice, Recommendation
  <2> QED
    BY <2>4 DEF Danger
<1> QED
  BY <1>1, TypeCorrect, PTL

-----------------------------------------------------------------------------
(* Worse evidence *)

\* What was not fresh does not become fresh by getting staler.
LEMMA StalerNotFresh ==
  ASSUME NEW x \in Int \cup {None}, NEW y \in Int \cup {None}, NEW limit \in Nat,
         Staler(x, y), Fresh(y, limit)
  PROVE  Fresh(x, limit)
  BY NoneAssumption DEF Staler, Fresh

\* The findings, and with them the severity, only grow.
LEMMA FindingsGrow ==
  ASSUME NEW a, NEW b, Typed(a, DayTypes), Typed(b, DayTypes), DayNoBetter(a, b)
  PROVE  Findings(a) \subseteq Findings(b)
<1>1. a.equity <= 0 => b.equity <= 0
  BY DayFields DEF DayNoBetter
<1>2. (b.positionsKnown => a.positionsKnown) /\ (a.malformed => b.malformed)
  BY DEF DayNoBetter
<1>3. MaxPriceAge \in Nat /\ MaxChainAge \in Nat
  BY PolicyAssumption
<1>4. Fresh(b.barAge, MaxPriceAge) => Fresh(a.barAge, MaxPriceAge)
  BY <1>3, DayFields, StalerNotFresh DEF DayNoBetter
<1>5. Fresh(b.chainAge, MaxChainAge) => Fresh(a.chainAge, MaxChainAge)
  BY <1>3, DayFields, StalerNotFresh DEF DayNoBetter
<1> QED
  BY <1>1, <1>2, <1>4, <1>5 DEF Findings

\* BLACK stays BLACK, RED stays RED or becomes BLACK, a kill switch stays BLACK.
LEMMA LaddersClimb ==
  ASSUME NEW a, NEW b, Typed(a, DayTypes), Typed(b, DayTypes), DayNoBetter(a, b)
  PROVE  /\ Regime(a) = "BLACK" => Regime(b) = "BLACK"
         /\ Regime(a) = "RED" => Regime(b) \in {"RED", "BLACK"}
         /\ KillOf(a, TRUE) = "BLACK" => KillOf(b, TRUE) = "BLACK"
<1>1. /\ Severity(a) = "CRITICAL" => Severity(b) = "CRITICAL"
      /\ DataPassed(b) => DataPassed(a)
  BY FindingsGrow DEF Severity, DataPassed
<1>2. BlackRegime(a) => BlackRegime(b)
  BY <1>1 DEF BlackRegime, DayNoBetter
<1>3. RedRegime(a) => RedRegime(b)
  <2>1. a.close < a.average => b.close < b.average
    BY DayFields DEF DayNoBetter
  <2>2. a.rv > a.iv => b.rv > b.iv
    BY DayFields DEF DayNoBetter
  <2>3. a.vix \in {"INVERTED", "UNKNOWN"} => b.vix \in {"INVERTED", "UNKNOWN"}
    BY DayFields DEF DayNoBetter
  <2>4. a.lossCluster => b.lossCluster
    BY DEF DayNoBetter
  <2> QED
    BY <1>1, <2>1, <2>2, <2>3, <2>4 DEF RedRegime
<1>4. /\ Regime(a) = "BLACK" => Regime(b) = "BLACK"
      /\ Regime(a) = "RED" => Regime(b) \in {"RED", "BLACK"}
  BY <1>2, <1>3 DEF Regime
<1>5. a.equity <= 0 => b.equity <= 0
  BY DayFields DEF DayNoBetter
<1>6. /\ b.verified => a.verified
      /\ b.reconciled => a.reconciled
      /\ a.lossCap => b.lossCap
      /\ a.orderRisk => b.orderRisk
  BY DEF DayNoBetter
<1>7. KillSwitch(a, Regime(a)) = "BLACK" => KillSwitch(b, Regime(b)) = "BLACK"
  BY <1>1, <1>4, <1>5, <1>6 DEF KillSwitch
<1> QED
  BY <1>4, <1>7 DEF KillOf

\* Every reason but the profit stays, or the kill switch comes instead.
LEMMA ReasonsStay ==
  ASSUME NEW a, NEW b, Typed(a, DayTypes), Typed(b, DayTypes), DayNoBetter(a, b),
         NEW g, NEW h, Typed(g, HeldTypes), Typed(h, HeldTypes), HoldingNoBetter(g, h)
  PROVE  LET before == ExitReasons(g, Regime(a), RiskOffReview(KillOf(a, TRUE)))
             after == ExitReasons(h, Regime(b), RiskOffReview(KillOf(b, TRUE)))
         IN  (before \ {"PROFIT"}) \subseteq after \/ "KILL" \in after
<1> DEFINE killA == RiskOffReview(KillOf(a, TRUE))
           killB == RiskOffReview(KillOf(b, TRUE))
<1>1. killA => killB
  BY LaddersClimb DEF RiskOffReview
<1>2. Regime(a) = "RED" => Regime(b) = "RED" \/ killB
  BY LaddersClimb DEF KillOf, KillSwitch, RiskOffReview
<1>3. /\ h.days <= g.days /\ g.mark <= h.mark /\ g.delta <= h.delta /\ h.close <= g.close
      /\ g.vixShock => h.vixShock
      /\ h.credit = g.credit /\ h.width = g.width /\ h.delta0 = g.delta0 /\ h.trend = g.trend
  BY DEF HoldingNoBetter
<1>4. /\ {g.days, h.days, g.mark, h.mark, g.delta, h.delta, g.close, h.close} \subseteq Int
      /\ {g.credit, g.width, g.delta0, g.trend} \subseteq Int
  BY HeldFields
<1>5. 100 * Positive(g.mark - g.credit) >= LossPct * (g.width - g.credit) =>
      100 * Positive(h.mark - h.credit) >= LossPct * (h.width - h.credit)
  <2>1. /\ Positive(g.mark - g.credit) \in Int /\ Positive(h.mark - h.credit) \in Int
        /\ Positive(g.mark - g.credit) <= Positive(h.mark - h.credit)
    BY <1>3, <1>4 DEF Positive
  <2>2. LossPct * (g.width - g.credit) \in Int
    BY <1>4, ExitPolicyAssumption
  <2> QED
    BY <1>3, <2>1, <2>2
<1>6. Positive(g.days) <= CloseDTE => Positive(h.days) <= CloseDTE
  BY <1>3, <1>4, ExitPolicyAssumption DEF Positive
<1>7. g.delta >= DeltaMultiple * g.delta0 => h.delta >= DeltaMultiple * h.delta0
  <2>1. DeltaMultiple * g.delta0 \in Int
    BY <1>4, ExitPolicyAssumption
  <2> QED
    BY <1>3, <1>4, <2>1
<1>8. g.close < g.trend => h.close < h.trend
  BY <1>3, <1>4
<1> QED
  BY <1>1, <1>2, <1>3, <1>5, <1>6, <1>7, <1>8 DEF ExitReasons

\* Worse evidence never softens an advice, for any thresholds, although it may
\* take reasons away: WorseNeverEases.
THEOREM WorseEvidenceNeverEases == Spec => WorseNeverEases
<1> DEFINE Step == DayNoBetter(day, day') /\ HoldingNoBetter(held, held') =>
                     Danger(Advice(held, day)) <= Danger(Advice(held', day'))
<1>1. TypeOK /\ TypeOK' => Step
  <2> SUFFICES ASSUME TypeOK, TypeOK', DayNoBetter(day, day'), HoldingNoBetter(held, held')
               PROVE  Danger(Advice(held, day)) <= Danger(Advice(held', day'))
    OBVIOUS
  <2> DEFINE before == ExitReasons(held, Regime(day), RiskOffReview(KillOf(day, TRUE)))
             after == ExitReasons(held', Regime(day'), RiskOffReview(KillOf(day', TRUE)))
  <2>1. (before \ {"PROFIT"}) \subseteq after \/ "KILL" \in after
    BY ReasonsStay DEF TypeOK
  <2>2. held'.closed = held.closed
    BY DEF HoldingNoBetter
  <2>3. Advice(held, day) =
          LET reasons == IF held.closed THEN {} ELSE before IN
          IF "KILL" \in reasons THEN "KILL_SWITCH_EXIT"
          ELSE IF reasons \cap {"LOSS", "DTE"} # {} THEN "CLOSE_POSITION"
          ELSE IF reasons \cap {"DELTA", "TREND", "VIX", "REGIME"} # {} THEN "REDUCE_RISK"
          ELSE IF "PROFIT" \in reasons THEN "TAKE_PROFIT" ELSE "HOLD"
    BY DEF Advice, Recommendation
  <2>4. Advice(held', day') =
          LET reasons == IF held'.closed THEN {} ELSE after IN
          IF "KILL" \in reasons THEN "KILL_SWITCH_EXIT"
          ELSE IF reasons \cap {"LOSS", "DTE"} # {} THEN "CLOSE_POSITION"
          ELSE IF reasons \cap {"DELTA", "TREND", "VIX", "REGIME"} # {} THEN "REDUCE_RISK"
          ELSE IF "PROFIT" \in reasons THEN "TAKE_PROFIT" ELSE "HOLD"
    BY DEF Advice, Recommendation
  <2> HIDE DEF before, after
  <2> QED
    BY <2>1, <2>2, <2>3, <2>4 DEF Danger
<1>2. TypeOK /\ TypeOK' => [Step]_vars
  BY <1>1
<1>3. Spec => [][Step]_vars
  BY <1>2, TypeCorrect, PTL
<1> QED
  BY <1>3 DEF WorseNeverEases

-----------------------------------------------------------------------------
(* Size of a trade *)

\* Whole division takes as much as fits and no more.
LEMMA WholeDivision ==
  ASSUME NEW x \in Nat, NEW y \in Nat \ {0}
  PROVE  /\ x \div y \in Nat
         /\ y * (x \div y) <= x
         /\ x < y * ((x \div y) + 1)
  OBVIOUS

\* Whatever equity, limit and spread: the computed size is accepted by the
\* limit it was computed from, and at the full multiplier one contract more is
\* not: SizeFits, about calculate_contracts and evaluate_position_sizing.
THEOREM SizesFit == Spec => []SizeFits
<1>1. TypeOK => SizeFits
  <2> DEFINE loss == MaxLossPerSpread(spread.width, spread.credit)
  <2> SUFFICES ASSUME TypeOK, day.equity > 0, loss > 0, NEW pct \in RegimePcts
               PROVE  LET n == Contracts(AllowedTradeRisk(day.equity, ClusterPct, pct), loss) IN
                      /\ ~Exceeds(n * loss, day.equity, ClusterPct)
                      /\ pct = 100 => Exceeds((n + 1) * loss, day.equity, ClusterPct)
    BY DEF SizeFits
  <2> DEFINE limit == day.equity * ClusterPct
             allowed == limit * pct
             n == allowed \div (10000 * loss)
  <2>1. day.equity \in Nat \ {0} /\ loss \in Nat \ {0} /\ ClusterPct \in 1 .. 100 /\ pct \in 1 .. 100
    BY DayFields, SpreadFields, LimitsAssumption, DayAssumption DEF TypeOK, MaxLossPerSpread
  <2>2. limit \in Nat
    BY <2>1
  <2>3. allowed \in Nat /\ allowed <= limit * 100 /\ (pct = 100 => allowed = limit * 100)
    <3> HIDE DEF limit
    <3> QED
      BY <2>1, <2>2
  <2>4. 10000 * loss \in Nat \ {0}
    <3> HIDE DEF loss
    <3> QED
      BY <2>1
  <2>5. n \in Nat /\ (10000 * loss) * n <= allowed /\ allowed < (10000 * loss) * (n + 1)
    <3> HIDE DEF allowed, loss
    <3> QED
      BY <2>3, <2>4, WholeDivision
  <2>6. 100 * (n * loss) <= limit /\ (pct = 100 => 100 * ((n + 1) * loss) > limit)
    <3> HIDE DEF n, allowed, loss, limit
    <3>1. (10000 * loss) * n = 100 * (100 * (n * loss)) /\ n * loss \in Int
      BY <2>1, <2>5
    <3>2. (10000 * loss) * (n + 1) = 100 * (100 * ((n + 1) * loss)) /\ (n + 1) * loss \in Int
      BY <2>1, <2>5
    <3> DEFINE u == n * loss
               v == (n + 1) * loss
    <3> HIDE DEF u, v
    <3>3. u \in Int /\ v \in Int /\ 100 * (100 * u) <= allowed /\ allowed < 100 * (100 * v)
      BY <2>5, <3>1, <3>2 DEF u, v
    <3>4. 100 * u <= limit /\ (pct = 100 => 100 * v > limit)
      BY <2>2, <2>3, <3>3
    <3> QED
      BY <3>4 DEF u, v
  <2>7. Contracts(AllowedTradeRisk(day.equity, ClusterPct, pct), loss) = n
    BY DEF Contracts, AllowedTradeRisk
  <2>8. LimitAmount(day.equity, ClusterPct) = limit
    BY <2>1 DEF LimitAmount
  <2> HIDE DEF n, loss, limit
  <2>9. /\ ~Exceeds(n * loss, day.equity, ClusterPct)
        /\ pct = 100 => Exceeds((n + 1) * loss, day.equity, ClusterPct)
    <3> DEFINE u == 100 * (n * loss)
               v == 100 * ((n + 1) * loss)
    <3>1. n * loss \in Int /\ (n + 1) * loss \in Int
      BY <2>1, <2>5
    <3>2. u \in Int /\ v \in Int
      BY <3>1
    <3>3. ~(u > limit) /\ (pct = 100 => v > limit)
      <4> HIDE DEF u, v
      <4> QED
        BY <2>2, <2>6, <3>2 DEF u, v
    <3> QED
      BY <2>8, <3>3 DEF Exceeds
  <2> QED
    BY <2>7, <2>9
<1> QED
  BY <1>1, TypeCorrect, PTL
-----------------------------------------------------------------------------
(* The book *)

\* The loss of a book of open trades is a sum of naturals.
LEMMA LossNat ==
  ASSUME NEW b, b \subseteq OpenTrades
  PROVE  LossOf(b) \in Nat
<1> DEFINE loss == [p \in b |-> p.loss]
<1>1. IsFiniteSet(b)
  BY BookAssumption, FS_Subset
<1>2. \A p \in b : loss[p] \in Nat
  BY BookAssumption
<1>3. DOMAIN loss = b
  OBVIOUS
<1> HIDE DEF loss
<1>4. SumFunctionOnSet(loss, b) \in Nat
  BY <1>1, <1>2, SumNat
<1> QED
  BY <1>3, <1>4 DEF LossOf, SumFunction, loss

\* A part of a book loses no more than the book.
LEMMA LossPart ==
  ASSUME NEW b, b \subseteq OpenTrades, NEW a, a \subseteq b
  PROVE  LossOf(a) <= LossOf(b)
<1> DEFINE f == [p \in a |-> p.loss]
           g == [p \in b |-> p.loss]
<1>1. IsFiniteSet(b) /\ IsFiniteSet(a)
  BY BookAssumption, FS_Subset
<1>2. \A p \in b : g[p] \in Nat
  BY BookAssumption
<1>3. \A p \in a : f[p] = g[p]
  OBVIOUS
<1>4. DOMAIN f = a /\ DOMAIN g = b
  OBVIOUS
<1> HIDE DEF f, g
<1>5. SumFunctionOnSet(f, a) = SumFunctionOnSet(g, a)
  BY <1>1, <1>3, SumSame
<1>6. SumFunctionOnSet(g, a) <= SumFunctionOnSet(g, b)
  BY <1>1, <1>2, SumPart
<1> QED
  BY <1>4, <1>5, <1>6 DEF LossOf, SumFunction, f, g

\* Running totals and positions give the same verdict on every trade, for any
\* limits and any book whose losses are those calculate_max_loss_per_spread
\* returns: LimitsAgree, about sizing.py, kill_switch.py and portfolio_heat.py.
THEOREM TheLimitsAgree == Spec => []LimitsAgree
<1>1. TypeOK => LimitsAgree
  <2> SUFFICES ASSUME TypeOK, NEW n \in Sizes
               PROVE  LET t == TradeOf(spread, n)
                          totals ==
                            [equity |-> day.equity, proposed |-> t.loss, heat |-> LossOf(book),
                             clusterRisk |-> LossOf({p \in book : p.underlying = Underlying}),
                             expirationRisk |-> LossOf({p \in book : p.expiration = Expiration}),
                             weeklyLoss |-> day.weeklyLoss, drawdown |-> day.drawdown,
                             stopped |-> day.stopped]
                      IN (SizingPasses(totals) /\ HeatPasses(totals) /\ LossLimitsPass(totals))
                           <=> PortfolioRiskPasses(book, t, day)
    BY DEF LimitsAgree
  <2> DEFINE t == TradeOf(spread, n)
             heat == LossOf(book)
             clusterRisk == LossOf({p \in book : p.underlying = Underlying})
             expirationRisk == LossOf({p \in book : p.expiration = Expiration})
             totals ==
               [equity |-> day.equity, proposed |-> t.loss, heat |-> heat,
                clusterRisk |-> clusterRisk, expirationRisk |-> expirationRisk,
                weeklyLoss |-> day.weeklyLoss, drawdown |-> day.drawdown, stopped |-> day.stopped]
  <2>1. heat >= 0 /\ clusterRisk >= 0 /\ expirationRisk >= 0
    <3>1. /\ book \subseteq OpenTrades
          /\ {p \in book : p.underlying = Underlying} \subseteq OpenTrades
          /\ {p \in book : p.expiration = Expiration} \subseteq OpenTrades
      BY DEF TypeOK
    <3> QED
      BY <3>1, LossNat
  <2>2. \A p \in book : p.loss >= 0
    BY BookAssumption DEF TypeOK
  <2>3. t.underlying = Underlying /\ t.expiration = Expiration
    BY DEF TradeOf
  <2> HIDE DEF heat, clusterRisk, expirationRisk, t
  <2>4. PortfolioRiskPasses(book, t, day) <=>
          /\ day.equity > 0
          /\ t.loss > 0
          /\ day.weeklyLoss >= 0 /\ day.drawdown >= 0 /\ day.stopped >= 0
          /\ ~Exceeds(heat + t.loss, day.equity, HeatPct)
          /\ ~Exceeds(expirationRisk + t.loss, day.equity, ExpirationPct)
          /\ ~Exceeds(clusterRisk + t.loss, day.equity, ClusterPct)
          /\ ~Reaches(day.weeklyLoss, day.equity, WeeklyPct)
          /\ ~Reaches(day.drawdown, day.equity, MonthlyPct)
          /\ day.stopped < MaxStoppedBaskets
    BY <2>2, <2>3, Zenon DEF PortfolioRiskPasses, heat, clusterRisk, expirationRisk
  <2>5. (SizingPasses(totals) /\ HeatPasses(totals) /\ LossLimitsPass(totals)) <=>
          /\ day.equity > 0 /\ t.loss > 0
          /\ ~Exceeds(clusterRisk + t.loss, day.equity, ClusterPct)
          /\ ~Exceeds(expirationRisk + t.loss, day.equity, ExpirationPct)
          /\ ~Exceeds(heat + t.loss, day.equity, HeatPct)
          /\ day.weeklyLoss >= 0 /\ day.drawdown >= 0 /\ day.stopped >= 0
          /\ ~Reaches(day.weeklyLoss, day.equity, WeeklyPct)
          /\ ~Reaches(day.drawdown, day.equity, MonthlyPct)
          /\ day.stopped < MaxStoppedBaskets
    BY <2>1 DEF SizingPasses, HeatPasses, LossLimitsPass
  <2> QED
    BY <2>4, <2>5, Zenon DEF t, heat, clusterRisk, expirationRisk
<1> QED
  BY <1>1, TypeCorrect, PTL

-----------------------------------------------------------------------------
(* Tickets on worse evidence *)

\* A larger amount of a smaller equity that exceeds no limit: neither does the
\* smaller amount of the larger equity.  The same for limits that are reached.
LEMMA LimitsTighten ==
  ASSUME NEW x \in Int, NEW y \in Int, x <= y, NEW e \in Int, NEW f \in Int, f <= e, f > 0,
         NEW pct \in 1 .. 100
  PROVE  /\ ~Exceeds(y, f, pct) => ~Exceeds(x, e, pct)
         /\ ~Reaches(y, f, pct) => ~Reaches(x, e, pct)
<1>1. f * pct <= e * pct
  <2>1. (e - f) \in Nat /\ pct \in Nat
    OBVIOUS
  <2>2. (e - f) * pct \in Nat
    BY <2>1
  <2>3. (e - f) * pct = e * pct - f * pct
    OBVIOUS
  <2>4. e * pct \in Int /\ f * pct \in Int
    OBVIOUS
  <2> QED
    BY <2>2, <2>3, <2>4
<1>2. LimitAmount(f, pct) = f * pct /\ LimitAmount(e, pct) = e * pct
  BY DEF LimitAmount
<1>3. f * pct \in Int /\ e * pct \in Int
  OBVIOUS
<1> QED
  BY <1>1, <1>2, <1>3 DEF Exceeds, Reaches

\* Every gate that is open on worse evidence is open on the better one.
LEMMA GatesStayOpen ==
  ASSUME NEW a, NEW b, Typed(a, DayTypes), Typed(b, DayTypes), DayNoBetter(a, b),
         NEW asked \in BOOLEAN
  PROVE  /\ DataPassed(b) => DataPassed(a)
         /\ Regime(b) \in {"GREEN", "YELLOW"} => Regime(a) \in {"GREEN", "YELLOW"}
         /\ AllowsNewTrades(KillOf(b, asked)) => AllowsNewTrades(KillOf(a, asked))
<1>1. DataPassed(b) => DataPassed(a)
  BY FindingsGrow DEF Severity, DataPassed
<1>2. /\ Regime(a) = "BLACK" => Regime(b) = "BLACK"
      /\ Regime(a) = "RED" => Regime(b) \in {"RED", "BLACK"}
      /\ KillOf(a, TRUE) = "BLACK" => KillOf(b, TRUE) = "BLACK"
  BY LaddersClimb
<1>3. Regime(a) \in States
  BY LadderStates
<1>4. Regime(b) \in {"GREEN", "YELLOW"} => Regime(a) \in {"GREEN", "YELLOW"}
  BY <1>2, <1>3 DEF States
<1>5. KillOf(a, TRUE) = "RED" => KillOf(b, TRUE) \in {"RED", "BLACK"}
  BY <1>2 DEF KillOf, KillSwitch
<1>6. AllowsNewTrades(KillOf(b, TRUE)) => AllowsNewTrades(KillOf(a, TRUE))
  <2>1. KillOf(a, TRUE) \in States
    BY LadderStates
  <2> QED
    BY <1>2, <1>5, <2>1, NoneAssumption DEF AllowsNewTrades, States
<1>7. AllowsNewTrades(KillOf(a, FALSE))
  BY DEF KillOf, AllowsNewTrades
<1> QED
  BY <1>1, <1>4, <1>6, <1>7

\* The limits that take a trade on worse evidence take the same trade, with its
\* higher credit, on the better one.
LEMMA LimitsStayOpen ==
  ASSUME NEW d, NEW e, Typed(d, DayTypes), Typed(e, DayTypes), DayNoBetter(d, e),
         NEW s, NEW u, Typed(s, SpreadTypes), Typed(u, SpreadTypes), SpreadNoBetter(s, u),
         u.credit < u.width,
         NEW b, NEW c, c \subseteq OpenTrades, b \subseteq c, NEW n \in Sizes,
         PortfolioRiskPasses(c, TradeOf(u, n), e)
  PROVE  PortfolioRiskPasses(b, TradeOf(s, n), d)
<1> DEFINE x == TradeOf(s, n).loss
           y == TradeOf(u, n).loss
<1>1. /\ u.credit \in Int /\ s.credit \in Int /\ u.width \in Int /\ s.width = u.width
      /\ u.credit <= s.credit /\ s.credit < s.width /\ n \in Nat /\ n > 0
  BY SpreadFields, DayAssumption DEF SpreadNoBetter
<1>2. x \in Int /\ y \in Int /\ x > 0 /\ x <= y
  <2> DEFINE p == s.width - s.credit
             q == u.width - u.credit
  <2>1. x = n * p /\ y = n * q
    BY DEF TradeOf, MaxLossPerSpread
  <2>2. p \in Nat /\ q \in Nat /\ p > 0 /\ q - p \in Nat
    BY <1>1
  <2> HIDE DEF p, q
  <2>3. n * p > 0 /\ n * p \in Int /\ n * q \in Int
    BY <1>1, <2>2, PositiveProduct
  <2>4. n * (q - p) \in Nat /\ n * (q - p) = n * q - n * p
    BY <1>1, <2>2
  <2> HIDE DEF x, y
  <2> QED
    BY <2>1, <2>3, <2>4
<1>3. /\ {d.equity, e.equity, d.weeklyLoss, e.weeklyLoss, d.drawdown, e.drawdown,
          d.stopped, e.stopped} \subseteq Int
      /\ e.equity <= d.equity /\ d.weeklyLoss <= e.weeklyLoss /\ d.drawdown <= e.drawdown
      /\ d.stopped <= e.stopped
      /\ (d.weeklyLoss < 0 => e.weeklyLoss < 0) /\ (d.drawdown < 0 => e.drawdown < 0)
      /\ (d.stopped < 0 => e.stopped < 0)
  BY DayFields DEF DayNoBetter
<1> DEFINE ofX(book0) == {p \in book0 : p.expiration = Expiration}
           ofU(book0) == {p \in book0 : p.underlying = Underlying}
<1>4. /\ e.equity > 0
      /\ \A p \in c : p.loss >= 0
      /\ e.weeklyLoss >= 0 /\ e.drawdown >= 0 /\ e.stopped >= 0
      /\ ~Exceeds(LossOf(c) + y, e.equity, HeatPct)
      /\ ~Exceeds(LossOf(ofX(c)) + y, e.equity, ExpirationPct)
      /\ ~Exceeds(LossOf(ofU(c)) + y, e.equity, ClusterPct)
      /\ ~Reaches(e.weeklyLoss, e.equity, WeeklyPct)
      /\ ~Reaches(e.drawdown, e.equity, MonthlyPct)
      /\ e.stopped < MaxStoppedBaskets
  <2>1. TradeOf(u, n).expiration = Expiration /\ TradeOf(u, n).underlying = Underlying
    BY DEF TradeOf
  <2> QED
    BY <2>1, Zenon DEF PortfolioRiskPasses
<1>5. /\ LossOf(b) \in Int /\ LossOf(c) \in Int /\ LossOf(b) <= LossOf(c)
      /\ LossOf(ofX(b)) \in Int /\ LossOf(ofX(c)) \in Int /\ LossOf(ofX(b)) <= LossOf(ofX(c))
      /\ LossOf(ofU(b)) \in Int /\ LossOf(ofU(c)) \in Int /\ LossOf(ofU(b)) <= LossOf(ofU(c))
  <2>1. /\ b \subseteq OpenTrades /\ ofX(b) \subseteq OpenTrades /\ ofX(c) \subseteq OpenTrades
        /\ ofU(b) \subseteq OpenTrades /\ ofU(c) \subseteq OpenTrades
        /\ ofX(b) \subseteq ofX(c) /\ ofU(b) \subseteq ofU(c)
    OBVIOUS
  <2> HIDE DEF ofX, ofU
  <2>2. /\ LossOf(b) <= LossOf(c) /\ LossOf(ofX(b)) <= LossOf(ofX(c))
        /\ LossOf(ofU(b)) <= LossOf(ofU(c))
    BY <2>1, LossPart
  <2>3. /\ LossOf(b) \in Nat /\ LossOf(c) \in Nat /\ LossOf(ofX(b)) \in Nat
        /\ LossOf(ofX(c)) \in Nat /\ LossOf(ofU(b)) \in Nat /\ LossOf(ofU(c)) \in Nat
    BY <2>1, LossNat
  <2> QED
    BY <2>2, <2>3
<1> HIDE DEF x, y, ofX, ofU
<1>6. /\ ~Exceeds(LossOf(b) + x, d.equity, HeatPct)
      /\ ~Exceeds(LossOf(ofX(b)) + x, d.equity, ExpirationPct)
      /\ ~Exceeds(LossOf(ofU(b)) + x, d.equity, ClusterPct)
      /\ ~Reaches(d.weeklyLoss, d.equity, WeeklyPct)
      /\ ~Reaches(d.drawdown, d.equity, MonthlyPct)
  <2>1. {HeatPct, ExpirationPct, ClusterPct, WeeklyPct, MonthlyPct} \subseteq 1 .. 100
    BY LimitsAssumption
  <2>2. ~Exceeds(LossOf(b) + x, d.equity, HeatPct)
    <3>1. LossOf(b) + x \in Int /\ LossOf(c) + y \in Int /\ LossOf(b) + x <= LossOf(c) + y
      BY <1>2, <1>5
    <3> QED
      BY <1>3, <1>4, <2>1, <3>1, LimitsTighten
  <2>3. ~Exceeds(LossOf(ofX(b)) + x, d.equity, ExpirationPct)
    <3>1. /\ LossOf(ofX(b)) + x \in Int /\ LossOf(ofX(c)) + y \in Int
          /\ LossOf(ofX(b)) + x <= LossOf(ofX(c)) + y
      BY <1>2, <1>5
    <3> QED
      BY <1>3, <1>4, <2>1, <3>1, LimitsTighten
  <2>4. ~Exceeds(LossOf(ofU(b)) + x, d.equity, ClusterPct)
    <3>1. /\ LossOf(ofU(b)) + x \in Int /\ LossOf(ofU(c)) + y \in Int
          /\ LossOf(ofU(b)) + x <= LossOf(ofU(c)) + y
      BY <1>2, <1>5
    <3> QED
      BY <1>3, <1>4, <2>1, <3>1, LimitsTighten
  <2>5. ~Reaches(d.weeklyLoss, d.equity, WeeklyPct)
    BY <1>3, <1>4, <2>1, LimitsTighten
  <2>6. ~Reaches(d.drawdown, d.equity, MonthlyPct)
    BY <1>3, <1>4, <2>1, LimitsTighten
  <2> QED
    BY <2>2, <2>3, <2>4, <2>5, <2>6
<1>7. /\ d.equity > 0
      /\ \A p \in b : p.loss >= 0
      /\ d.weeklyLoss >= 0 /\ d.drawdown >= 0 /\ d.stopped >= 0
      /\ d.stopped < MaxStoppedBaskets
  BY <1>3, <1>4, LimitsAssumption
<1>8. TradeOf(s, n).expiration = Expiration /\ TradeOf(s, n).underlying = Underlying
  BY DEF TradeOf
<1>9. TradeOf(s, n).loss = x /\ x > 0
  BY <1>2 DEF x
<1> QED
  BY <1>6, <1>7, <1>8, <1>9, Zenon DEF PortfolioRiskPasses, ofX, ofU

\* Nothing about the spread is rejected that was not before.
LEMMA SpreadStaysEligible ==
  ASSUME NEW s, NEW u, Typed(s, SpreadTypes), Typed(u, SpreadTypes), SpreadNoBetter(s, u),
         NEW before, NEW after, after \in {"RED", "BLACK"} \/ before \notin {"RED", "BLACK"},
         Rejections(u, after) = {}
  PROVE  Rejections(s, before) = {}
<1>1. /\ {s.credit, u.credit, s.width, u.width, s.legWidth, u.legWidth} \subseteq Int
      /\ u.credit <= s.credit /\ s.legWidth <= u.legWidth /\ s.width = u.width
      /\ s.days = u.days /\ s.shortDelta = u.shortDelta /\ (u.consistent => s.consistent)
  BY SpreadFields DEF SpreadNoBetter
<1>2. /\ after \notin {"RED", "BLACK"}
      /\ u.days \in MinDTE .. MaxDTE /\ u.shortDelta \in MinDelta .. MaxDelta
      /\ ~(u.legWidth > MaxLegWidth) /\ ~(u.credit <= 0)
      /\ ~(100 * u.credit < MinCreditPct * u.width) /\ u.consistent
  BY DEF Rejections
<1>3. ~(s.legWidth > MaxLegWidth) /\ ~(s.credit <= 0)
  BY <1>1, <1>2, StrategyAssumption
<1>4. ~(100 * s.credit < MinCreditPct * s.width)
  <2>1. MinCreditPct * u.width \in Int
    BY <1>1, StrategyAssumption
  <2> QED
    BY <1>1, <1>2, <2>1
<1> QED
  BY <1>1, <1>2, <1>3, <1>4 DEF Rejections

\* A ticket on worse evidence would have been issued on the better one.
LEMMA TicketStays ==
  ASSUME NEW d, NEW e, Typed(d, DayTypes), Typed(e, DayTypes), DayNoBetter(d, e),
         NEW s, NEW u, Typed(s, SpreadTypes), Typed(u, SpreadTypes), SpreadNoBetter(s, u),
         NEW b, NEW c, c \subseteq OpenTrades, b \subseteq c,
         NEW asked \in BOOLEAN, NEW n \in Sizes, NEW worst \in WorstCredits,
         Ticketed(e, u, c, asked, n, worst)
  PROVE  Ticketed(d, s, b, asked, n, worst)
<1>1. /\ AllowsNewTrades(KillOf(e, asked)) /\ DataPassed(e) /\ Regime(e) \in {"GREEN", "YELLOW"}
      /\ PortfolioRiskPasses(c, TradeOf(u, n), e) /\ Rejections(u, Regime(e)) = {}
      /\ e.equity > 0 /\ u.credit > 0 /\ u.width > u.credit
  BY TicketGates
<1>2. worst > 0 /\ worst <= u.credit
  BY DEF Ticketed, TicketAccepted
<1>3. /\ AllowsNewTrades(KillOf(d, asked)) /\ DataPassed(d) /\ Regime(d) \in {"GREEN", "YELLOW"}
  BY <1>1, GatesStayOpen
<1>4. /\ {s.credit, u.credit, s.width, u.width, d.equity, e.equity, worst, n} \subseteq Int
      /\ n >= 1
      /\ u.credit <= s.credit /\ s.width = u.width /\ (u.credit < u.width => s.credit < s.width)
      /\ e.equity <= d.equity
  BY SpreadFields, DayFields, DayAssumption DEF SpreadNoBetter, DayNoBetter
<1>5. /\ d.equity > 0 /\ s.credit > 0 /\ worst <= s.credit /\ s.width > s.credit
      /\ u.credit < u.width
  BY <1>1, <1>2, <1>4
<1>6. PortfolioRiskPasses(b, TradeOf(s, n), d)
  BY <1>1, <1>5, LimitsStayOpen
<1>7. Rejections(s, Regime(d)) = {}
  <2>1. Regime(d) \notin {"RED", "BLACK"}
    BY <1>3
  <2> QED
    BY <1>1, <2>1, SpreadStaysEligible
<1>8. ScanStatus(s, Regime(d), None, KillOf(d, asked)) = "WATCHLIST"
  BY <1>3, <1>7 DEF ScanStatus
<1>9. n # None /\ ~(n < 1)
  BY <1>4, NoneAssumption
<1>10. TradeStatus("WATCHLIST", DataPassed(d), Regime(d),
                   PortfolioRiskPasses(b, TradeOf(s, n), d), n, KillOf(d, asked)) = "APPROVED"
  BY <1>3, <1>6, <1>9 DEF TradeStatus
<1> QED
  BY <1>2, <1>3, <1>5, <1>8, <1>10 DEF Ticketed, TicketAccepted

\* Worse evidence never turns a refusal into a ticket, for any thresholds,
\* limits, books and sizes, although the regime alone may become milder:
\* WorseNeverPermits, about the gates of nine files together.
THEOREM WorseEvidenceNeverPermits == Spec => WorseNeverPermits
<1> DEFINE Step ==
      DayNoBetter(day, day') /\ SpreadNoBetter(spread, spread') /\ book \subseteq book' =>
        \A asked \in BOOLEAN, n \in Sizes, worst \in WorstCredits :
          Ticketed(day', spread', book', asked, n, worst) =>
          Ticketed(day, spread, book, asked, n, worst)
<1>1. TypeOK /\ TypeOK' => Step
  <2> SUFFICES ASSUME TypeOK, TypeOK', DayNoBetter(day, day'), SpreadNoBetter(spread, spread'),
                      book \subseteq book',
                      NEW asked \in BOOLEAN, NEW n \in Sizes, NEW worst \in WorstCredits,
                      Ticketed(day', spread', book', asked, n, worst)
               PROVE  Ticketed(day, spread, book, asked, n, worst)
    OBVIOUS
  <2>1. /\ Typed(day, DayTypes) /\ Typed(day', DayTypes)
        /\ Typed(spread, SpreadTypes) /\ Typed(spread', SpreadTypes)
        /\ book' \subseteq OpenTrades
    BY DEF TypeOK
  <2> QED
    BY <2>1, TicketStays
<1>2. TypeOK /\ TypeOK' => [Step]_vars
  BY <1>1
<1>3. Spec => [][Step]_vars
  BY <1>2, TypeCorrect, PTL
<1> QED
  BY <1>3 DEF WorseNeverPermits

=============================================================================
