-------------------------- MODULE Backtest_proofs --------------------------
(***************************************************************************)
(* Proofs about Backtest, for every file of trades, every account, every   *)
(* cost assumption and every shuffle of the entry dates.                   *)
(*                                                                         *)
(* What the reports of two scenarios say of each other follows from what   *)
(* one report tells (ToldInv): its totals are sums over the executed       *)
(* trades, and point k of its curve is the sum over the first k-1 of them  *)
(* in the order of the exits.                                              *)
(***************************************************************************)
EXTENDS Backtest, SumLemmas, SequenceTheorems

-----------------------------------------------------------------------------
(* Types *)

\* What a trade costs, and what the pass over the curve keeps.
CostRecord == [slippage : Nat, commission : Nat]
WalkRecord ==
  [equity : Int, peak : Nat \ {0}, peakDay : Nat, since : Nat \cup {None},
   fall : Nat, from : Nat \ {0}, recovery : Nat]

\* A sample of a scenario: valid trades under places of the file.
IsSample(s) ==
  /\ DOMAIN s \subseteq DOMAIN history /\ DOMAIN s # {}
  /\ \A i \in DOMAIN s : s[i] \in HistoricalTrade /\ Valid(s[i])

\* A set of entry days has a first one.
LEMMA FirstDayType ==
  ASSUME NEW s, DOMAIN s # {}, \A i \in DOMAIN s : s[i] \in HistoricalTrade
  PROVE  FirstEntryDay(s) \in Nat
<1> DEFINE days == {s[i].entry : i \in DOMAIN s}
<1>1. days \subseteq Nat /\ days # {}
  BY DEF HistoricalTrade
<1> HIDE DEF days
<1>2. PICK d \in days : \A e \in days : ~(<<e, d>> \in OpToRel(<, Nat))
  BY <1>1, NatLessThanWellFounded, WFMin, Zenon
<1>5. \A e \in days : ~(e < d)
  BY <1>1, <1>2, Zenon DEF OpToRel
<1>3. \A e \in days : d <= e
  BY <1>1, <1>5
<1>4. Min(days) \in days
  BY <1>3 DEF Min
<1> QED
  BY <1>1, <1>4 DEF FirstEntryDay, days

\* Scaled costs are costs.
LEMMA CostsType ==
  /\ \A h \in Nat : Costs(h) \in CostRecord
  /\ \A k \in Nat : [BaseCosts EXCEPT !.slippage = k * @] \in CostRecord
BY ConfigAssumption DEF Costs, BaseCosts, CostRecord

\* The amounts of a trade are whole numbers.
LEMMA AmountsType ==
  ASSUME NEW t \in HistoricalTrade, NEW c \in CostRecord
  PROVE  /\ GrossPnl(t) \in Int /\ SlippageDrag(t, c) \in Int /\ CommissionDrag(t, c) \in Int
         /\ NetPnl(t, c) \in Int
<1>1. /\ t.credit \in Int /\ t.debit \in Int /\ t.contracts \in Int /\ Multiplier \in Int
      /\ c.slippage \in Int /\ c.commission \in Int
  BY ConfigAssumption DEF HistoricalTrade, CostRecord
<1> QED
  BY <1>1 DEF GrossPnl, SlippageDrag, CommissionDrag, NetPnl, EntryFill, ExitFill

\* Initially every variable has its type.
LEMMA InitType == Init => TypeOK
BY ConfigAssumption, CostsType
   DEF Init, TypeOK, NoSums, Totals, Point, Modes, CostRecord, BaseCosts

\* A scenario that begins on a sample keeps the types.
LEMMA BeginType ==
  ASSUME TypeOK, phase \in {"load", "next"}, history # <<>>,
         NEW s, IsSample(s), NEW m \in Modes, NEW c \in CostRecord, Begin(s, m, c)
  PROVE  TypeOK'
<1>1. Executed(s, m) \subseteq DOMAIN s
  BY DEF Executed, Selected
<1>2. FirstEntryDay(s) \in Nat
  BY FirstDayType DEF IsSample
<1>3. NewWalk(s) \in WalkRecord
  BY <1>2, ConfigAssumption DEF NewWalk, WalkRecord
<1>4. <<[day |-> FirstEntryDay(s), equity |-> StartingEquity]>> \in Seq(Point)
  BY <1>2, ConfigAssumption DEF Point
<1>5. NoSums \in Totals
  BY DEF NoSums, Totals
<1>6. CASE \E i \in Executed(s, m) : EntryFill(s[i], c) <= 0
  <2>1. /\ sample' = s /\ costs' = c /\ mode' = m /\ phase' = "raised"
        /\ UNCHANGED <<todo, walk, sums, curve, history, reports>>
    BY <1>6 DEF Begin
  <2> QED
    BY <2>1 DEF TypeOK, IsSample, CostRecord
<1>7. CASE ~\E i \in Executed(s, m) : EntryFill(s[i], c) <= 0
  BY <1>1, <1>3, <1>4, <1>5, <1>7 DEF Begin, TypeOK, IsSample, CostRecord, WalkRecord
<1> QED
  BY <1>6, <1>7

\* A row that is loaded keeps the types.
LEMMA LoadRowType ==
  ASSUME TypeOK, NEW t \in Rows, LoadRow(t)
  PROVE  TypeOK'
<1>1. CASE Valid(t)
  <2>1. /\ history' = Append(history, t)
        /\ UNCHANGED <<phase, mode, sample, costs, todo, walk, sums, curve, reports>>
    BY <1>1 DEF LoadRow
  <2>2. history \in Seq(HistoricalTrade) /\ t \in HistoricalTrade
    BY RowsAssumption DEF TypeOK
  <2>3. /\ history' \in Seq(HistoricalTrade)
        /\ DOMAIN history \subseteq DOMAIN history'
        /\ \A i \in DOMAIN history' : Valid(history'[i])
    <3>1. /\ history' \in Seq(HistoricalTrade) /\ Len(history') = Len(history) + 1
          /\ \A i \in 1 .. Len(history) : history'[i] = history[i]
          /\ history'[Len(history) + 1] = t
      BY <2>1, <2>2, AppendProperties
    <3>2. DOMAIN history = 1 .. Len(history) /\ DOMAIN history' = 1 .. Len(history) + 1
      BY <2>2, <3>1
    <3>3. \A i \in DOMAIN history : Valid(history[i])
      BY DEF TypeOK
    <3> QED
      BY <1>1, <3>1, <3>2, <3>3
  <2> QED
    BY <2>1, <2>3 DEF TypeOK
<1>2. CASE ~Valid(t)
  BY <1>2 DEF LoadRow, TypeOK
<1> QED
  BY <1>1, <1>2

\* The loaded file is a sample, and so is what the scenarios make of it.
LEMMA FileIsSample ==
  ASSUME TypeOK, history # <<>>
  PROVE  IsSample(history)
BY SMTT(30) DEF TypeOK, IsSample

\* Removing trades leaves a sample.
LEMMA WithoutBestIsSample ==
  ASSUME TypeOK, history # <<>>
  PROVE  IsSample(WithoutBest)
<1> DEFINE done == Executed(history, mode)
           best == {i \in done : Cardinality({j \in done : Ahead(j, i)})
                                   < RemoveCount(Cardinality(done))}
           ids == {history[i].id : i \in best}
           remaining == {i \in DOMAIN history : history[i].id \notin ids}
<1>1. IsSample(history)
  BY FileIsSample
<1>2. ASSUME remaining # {}
      PROVE  IsSample([i \in remaining |-> history[i]])
  <2> HIDE DEF ids
  <2> QED
    BY <1>1, <1>2 DEF IsSample
<1>3. WithoutBest = IF remaining = {} THEN history ELSE [i \in remaining |-> history[i]]
  BY Zenon DEF WithoutBest
<1> HIDE DEF remaining
<1> QED
  BY <1>1, <1>2, <1>3

\* A trade moved to another entry day is as valid as before.
LEMMA MovedType ==
  ASSUME NEW t \in HistoricalTrade, Valid(t), NEW d \in Nat
  PROVE  Moved(t, d) \in HistoricalTrade /\ Valid(Moved(t, d))
<1>1. d + (t.exit - t.entry) \in Nat
  BY DEF HistoricalTrade, Valid
<1>2. Moved(t, d) \in HistoricalTrade
  BY <1>1 DEF Moved, HistoricalTrade
<1>3. /\ Moved(t, d).entry = d /\ Moved(t, d).exit = d + (t.exit - t.entry)
      /\ Moved(t, d).contracts = t.contracts /\ Moved(t, d).width = t.width
      /\ Moved(t, d).credit = t.credit
  BY DEF Moved, HistoricalTrade
<1>4. d + (t.exit - t.entry) >= d
  BY DEF HistoricalTrade, Valid
<1> QED
  BY <1>2, <1>3, <1>4 DEF Valid

\* Shuffling the entry days leaves a sample.
LEMMA ShuffledIsSample ==
  ASSUME TypeOK, history # <<>>, NEW order \in Shuffles
  PROVE  IsSample([i \in DOMAIN history |-> Moved(history[i], history[order[i]].entry)])
<1>1. order \in [DOMAIN history -> DOMAIN history]
  BY DEF Shuffles
<1>2. \A i \in DOMAIN history : history[i] \in HistoricalTrade /\ Valid(history[i])
  BY DEF TypeOK
<1>3. \A i \in DOMAIN history : history[order[i]].entry \in Nat
  BY <1>1, <1>2 DEF HistoricalTrade
<1>4. \A i \in DOMAIN history :
        LET t == Moved(history[i], history[order[i]].entry) IN
        t \in HistoricalTrade /\ Valid(t)
  BY <1>2, <1>3, MovedType
<1>5. history \in Seq(HistoricalTrade)
  BY DEF TypeOK
<1>6. DOMAIN history # {}
  BY <1>5
<1> QED
  BY <1>4, <1>6 DEF IsSample

\* A trade that is closed keeps the types.
LEMMA CloseType ==
  ASSUME TypeOK, NEW i \in todo, CloseTrade(i)
  PROVE  TypeOK'
<1> DEFINE net == NetPnl(sample[i], costs)
           e == walk.equity + net
           day == sample[i].exit
<1>1. sample[i] \in HistoricalTrade /\ costs \in CostRecord
  BY DEF TypeOK, CostRecord
<1>2. /\ net \in Int /\ GrossPnl(sample[i]) \in Int
      /\ SlippageDrag(sample[i], costs) \in Int /\ CommissionDrag(sample[i], costs) \in Int
  <2>1. PICK t \in HistoricalTrade, c \in CostRecord : t = sample[i] /\ c = costs
    BY <1>1
  <2>2. /\ GrossPnl(t) \in Int /\ SlippageDrag(t, c) \in Int /\ CommissionDrag(t, c) \in Int
        /\ NetPnl(t, c) \in Int
    BY AmountsType
  <2> QED
    BY <2>1, <2>2
<1> HIDE DEF net
<1>8. /\ walk \in WalkRecord /\ sums \in Totals /\ curve \in Seq(Point)
  BY DEF TypeOK, WalkRecord
<1>3. e \in Int /\ day \in Nat
  <2>1. walk.equity \in Int
    BY <1>8 DEF WalkRecord
  <2>2. sample[i].exit \in Nat
    BY <1>1 DEF HistoricalTrade
  <2> QED
    BY <1>2, <2>1, <2>2
<1> HIDE DEF e, day
<1>4. /\ todo' = todo \ {i} /\ phase = "walk"
      /\ walk' = IF e >= walk.peak THEN Recovered(walk, e, day) ELSE Underwater(walk, e)
      /\ sums' = Totalled(sample[i], costs)
      /\ curve' = Append(curve, [day |-> day, equity |-> e])
      /\ UNCHANGED <<history, mode, phase, sample, costs, reports>>
  BY DEF CloseTrade, e, net, day
<1>5. walk' \in WalkRecord
  <2>1. CASE e >= walk.peak
    <3>1. walk' = Recovered(walk, e, day)
      BY <1>4, <2>1
    <3>2. e \in Nat \ {0}
      BY <1>3, <1>8, <2>1 DEF WalkRecord
    <3>3. walk.since # None => Larger(walk.recovery, day - walk.since) \in Nat
      BY <1>3, <1>8 DEF WalkRecord, Larger
    <3> QED
      BY <1>3, <1>8, <3>1, <3>2, <3>3 DEF WalkRecord, Recovered
  <2>2. CASE ~(e >= walk.peak)
    <3>1. walk' = Underwater(walk, e)
      BY <1>4, <2>2
    <3>2. walk.peak - e \in Nat
      BY <1>3, <1>8, <2>2 DEF WalkRecord
    <3> QED
      BY <1>3, <1>8, <3>1, <3>2 DEF WalkRecord, Underwater
  <2> QED
    BY <2>1, <2>2
<1>6. sums' \in Totals
  <2>1. /\ sums.gross \in Int /\ sums.slippage \in Int /\ sums.commission \in Int
        /\ sums.won \in Int /\ sums.lost \in Int /\ sums.wins \in Int
    BY <1>8 DEF Totals
  <2>2. sums' = [gross |-> sums.gross + GrossPnl(sample[i]),
                 slippage |-> sums.slippage + SlippageDrag(sample[i], costs),
                 commission |-> sums.commission + CommissionDrag(sample[i], costs),
                 won |-> sums.won + (IF net > 0 THEN net ELSE 0),
                 lost |-> sums.lost + (IF net < 0 THEN net ELSE 0),
                 wins |-> sums.wins + (IF net > 0 THEN 1 ELSE 0)]
    BY <1>4, Zenon DEF Totalled, net
  <2>3. /\ sums.won + (IF net > 0 THEN net ELSE 0) \in Int
        /\ sums.lost + (IF net < 0 THEN net ELSE 0) \in Int
        /\ sums.wins + (IF net > 0 THEN 1 ELSE 0) \in Int
    BY <1>2, <2>1
  <2> QED
    BY <1>2, <2>1, <2>2, <2>3 DEF Totals
<1>7. curve' \in Seq(Point)
  BY <1>3, <1>4, <1>8 DEF Point
<1> QED
  BY <1>4, <1>5, <1>6, <1>7 DEF TypeOK, WalkRecord

\* A sequence of reports.
AreReports(q) ==
  /\ Len(q) \in Nat /\ q = [n \in 1 .. Len(q) |-> q[n]]
  /\ \A n \in DOMAIN q : ReportOK(q[n])

\* A report more keeps the reports a sequence.
LEMMA ReportAppended ==
  ASSUME NEW q, AreReports(q), NEW r, ReportOK(r)
  PROVE  /\ AreReports(Append(q, r))
         /\ DOMAIN Append(q, r) = DOMAIN q \cup {Len(q) + 1} /\ Append(q, r)[Len(q) + 1] = r
         /\ \A n \in DOMAIN q : Append(q, r)[n] = q[n]
<1> DEFINE S == {q[n] : n \in 1 .. Len(q)} \cup {r}
           d == Append(q, r)
<1>1. /\ Len(q) \in Nat /\ DOMAIN q = 1 .. Len(q) /\ q = [n \in 1 .. Len(q) |-> q[n]]
      /\ \A n \in 1 .. Len(q) : ReportOK(q[n])
  BY Zenon DEF AreReports
<1>2. /\ \A n \in 1 .. Len(q) : q[n] \in S
      /\ r \in S
  OBVIOUS
<1>3. \A x \in S : ReportOK(x)
  BY <1>1, Zenon
<1> HIDE DEF S
<1>4. q \in Seq(S)
  <2>1. q \in [1 .. Len(q) -> S]
    BY <1>1, <1>2, Zenon
  <2> DEFINE k == Len(q)
  <2>2. k \in Nat /\ q \in [1 .. k -> S]
    BY <2>1
  <2> HIDE DEF k
  <2> QED
    BY <2>2, SeqDef
<1>5. /\ d \in Seq(S) /\ Len(d) = Len(q) + 1 /\ d[Len(q) + 1] = r
      /\ \A n \in 1 .. Len(q) : d[n] = q[n]
  BY <1>2, <1>4, AppendProperties
<1> HIDE DEF d
<1>6. /\ Len(d) \in Nat /\ d = [n \in 1 .. Len(d) |-> d[n]] /\ DOMAIN d = 1 .. Len(d)
      /\ \A n \in 1 .. Len(d) : d[n] \in S
  BY <1>5
<1>7. \A n \in DOMAIN d : ReportOK(d[n])
  BY <1>3, <1>6, Zenon
<1>9. AreReports(d)
  BY <1>6, <1>7, Zenon DEF AreReports
<1>8. 1 .. Len(d) = 1 .. Len(q) \cup {Len(q) + 1}
  BY <1>5
<1> QED
  BY <1>1, <1>5, <1>6, <1>8, <1>9, Zenon DEF d

\* The metrics of a finished scenario keep the types.
LEMMA FinishType ==
  ASSUME TypeOK, FinishRun
  PROVE  TypeOK'
<1> DEFINE r == [equity |-> walk.equity, fall |-> walk.fall, from |-> walk.from,
                 recovery |-> Recovery, sums |-> sums, sample |-> sample, curve |-> curve,
                 selected |-> Cardinality(Selected(sample, mode)),
                 executed |-> Cardinality(Executed(sample, mode))]
<1>1. /\ phase = "walk" /\ phase' = "next" /\ todo = {} /\ reports' = Append(reports, r)
      /\ UNCHANGED <<history, mode, sample, costs, todo, walk, sums, curve>>
  BY DEF FinishRun
<1>2. ReportOK(r)
  BY DEF TypeOK, ReportOK
<1> HIDE DEF r
<1>3. /\ Len(reports') \in Nat /\ reports' = [n \in 1 .. Len(reports') |-> reports'[n]]
      /\ \A n \in DOMAIN reports' : ReportOK(reports'[n])
  <2>1. AreReports(reports)
    BY Zenon DEF TypeOK, AreReports
  <2>2. AreReports(Append(reports, r))
    BY <1>2, <2>1, ReportAppended, Zenon
  <2>3. AreReports(reports')
    BY <1>1, <2>2
  <2> QED
    BY <2>3, Zenon DEF AreReports
<1> QED
  BY <1>1, <1>3 DEF TypeOK

\* One of the steps that begin a scenario.
Scenario ==
  \/ \E m \in Modes : Base(m)
  \/ DoubledSlippage \/ TripledSlippage \/ RemoveBest \/ RandomizedEntries \/ ParameterSensitivity

\* Whichever way a scenario begins, it is a Begin on a sample of the file.
LEMMA ScenarioBegins ==
  ASSUME TypeOK, Scenario
  PROVE  /\ phase \in {"load", "next"} /\ history # <<>>
         /\ \E s, m, c : m \in Modes /\ c \in CostRecord /\ IsSample(s) /\ Begin(s, m, c)
<1>9. history # <<>>
  BY DEF TypeOK, Scenario, Base, DoubledSlippage, TripledSlippage, RemoveBest, RandomizedEntries,
         ParameterSensitivity, NextScenario
<1>1. /\ IsSample(history) /\ IsSample(WithoutBest) /\ mode \in Modes
      /\ BaseCosts \in CostRecord /\ SensitivityCosts \in CostRecord
      /\ \A k \in Nat : [BaseCosts EXCEPT !.slippage = k * @] \in CostRecord
  BY <1>9, FileIsSample, WithoutBestIsSample, CostsType DEF TypeOK, BaseCosts, SensitivityCosts
<1>2. ASSUME NEW m \in Modes, Base(m) PROVE phase = "load" /\ Begin(history, m, BaseCosts)
  BY <1>2 DEF Base
<1>3. ASSUME DoubledSlippage
      PROVE  phase = "next" /\ Begin(history, mode, [BaseCosts EXCEPT !.slippage = 2 * @])
  BY <1>3 DEF DoubledSlippage, NextScenario
<1>4. ASSUME TripledSlippage
      PROVE  phase = "next" /\ Begin(history, mode, [BaseCosts EXCEPT !.slippage = 3 * @])
  BY <1>4 DEF TripledSlippage, NextScenario
<1>5. ASSUME RemoveBest PROVE phase = "next" /\ Begin(WithoutBest, mode, BaseCosts)
  BY <1>5 DEF RemoveBest, NextScenario
<1>6. ASSUME RandomizedEntries
      PROVE  /\ phase = "next"
             /\ \E s : IsSample(s) /\ Begin(s, mode, BaseCosts)
  BY <1>6, <1>9, ShuffledIsSample DEF RandomizedEntries, NextScenario
<1>7. ASSUME ParameterSensitivity PROVE phase = "next" /\ Begin(history, mode, SensitivityCosts)
  BY <1>7 DEF ParameterSensitivity, NextScenario
<1>8. 2 \in Nat /\ 3 \in Nat
  OBVIOUS
<1> QED
  BY <1>1, <1>2, <1>3, <1>4, <1>5, <1>6, <1>7, <1>8, <1>9, Zenon DEF Scenario

\* Every step keeps the types.
LEMMA StepType ==
  ASSUME TypeOK, [Next]_vars
  PROVE  TypeOK'
<1>1. ASSUME NEW t \in Rows, LoadRow(t) PROVE TypeOK'
  BY <1>1, LoadRowType
<1>2. CASE EmptyFile
  BY <1>2 DEF EmptyFile, TypeOK
<1>3. CASE Scenario
  BY <1>3, ScenarioBegins, BeginType
<1>4. ASSUME NEW i \in todo, CloseTrade(i) PROVE TypeOK'
  BY <1>4, CloseType
<1>5. CASE FinishRun
  BY <1>5, FinishType
<1>6. CASE UNCHANGED vars
  BY <1>6 DEF vars, TypeOK
<1> QED
  BY <1>1, <1>2, <1>3, <1>4, <1>5, <1>6, Zenon DEF Next, Scenario

\* Every variable keeps its type, and every scenario works on valid trades.
THEOREM TypeCorrect == Spec => []TypeOK
<1>1. Init => TypeOK
  BY InitType
<1>2. TypeOK /\ [Next]_vars => TypeOK'
  BY StepType
<1> QED
  BY <1>1, <1>2, PTL DEF Spec

-----------------------------------------------------------------------------
(* The ledger *)

\* Slippage paid on both sides is twice the slippage.
LEMMA BothSides ==
  ASSUME NEW a \in Int, NEW b \in Int, NEW s \in Int, NEW m \in Int, NEW n \in Int
  PROVE  ((a - s) - (b + s)) * m * n = (a - b) * m * n - s * 2 * m * n
OBVIOUS

\* The net result of a trade is its gross result less the two drags.
LEMMA NetIsGrossLessDrags ==
  ASSUME NEW t \in HistoricalTrade, NEW c \in CostRecord
  PROVE  NetPnl(t, c) = GrossPnl(t) - SlippageDrag(t, c) - CommissionDrag(t, c)
<1>1. /\ t.credit \in Int /\ t.debit \in Int /\ t.contracts \in Int /\ Multiplier \in Int
      /\ c.slippage \in Int /\ c.commission \in Int
  BY ConfigAssumption DEF HistoricalTrade, CostRecord
<1>2. (EntryFill(t, c) - ExitFill(t, c)) * Multiplier * t.contracts
        = GrossPnl(t) - SlippageDrag(t, c)
  BY <1>1, BothSides DEF EntryFill, ExitFill, GrossPnl, SlippageDrag
<1>3. /\ GrossPnl(t) \in Int /\ SlippageDrag(t, c) \in Int /\ CommissionDrag(t, c) \in Int
  BY AmountsType
<1> QED
  BY <1>2, <1>3 DEF NetPnl

\* Closing a trade moves the equity and the totals by the same amounts.
LEMMA CloseBalances ==
  ASSUME TypeOK, LedgerBalances, NEW i \in todo, CloseTrade(i)
  PROVE  LedgerBalances'
<1> DEFINE t == sample[i]
           net == NetPnl(t, costs)
<1>1. t \in HistoricalTrade /\ costs \in CostRecord /\ walk \in WalkRecord /\ sums \in Totals
  BY DEF TypeOK, CostRecord, WalkRecord
<1>2. /\ net \in Int /\ GrossPnl(t) \in Int
      /\ SlippageDrag(t, costs) \in Int /\ CommissionDrag(t, costs) \in Int
      /\ net = GrossPnl(t) - SlippageDrag(t, costs) - CommissionDrag(t, costs)
  BY <1>1, AmountsType, NetIsGrossLessDrags
<1>3. walk'.equity = walk.equity + net
  BY <1>1, Zenon DEF CloseTrade, Recovered, Underwater, WalkRecord
<1>4. /\ sums'.gross = sums.gross + GrossPnl(t)
      /\ sums'.slippage = sums.slippage + SlippageDrag(t, costs)
      /\ sums'.commission = sums.commission + CommissionDrag(t, costs)
      /\ sums'.won = sums.won + (IF net > 0 THEN net ELSE 0)
      /\ sums'.lost = sums.lost + (IF net < 0 THEN net ELSE 0)
  BY DEF CloseTrade, Totalled
<1>5. /\ sums.gross \in Int /\ sums.slippage \in Int /\ sums.commission \in Int
      /\ sums.won \in Int /\ sums.lost \in Int /\ walk.equity \in Int /\ StartingEquity \in Int
  BY <1>1, ConfigAssumption DEF Totals, WalkRecord
<1>6. Balances(walk.equity, sums)
  BY DEF LedgerBalances
<1> HIDE DEF net, t
<1>7. Balances(walk'.equity, sums')
  BY <1>2, <1>3, <1>4, <1>5, <1>6 DEF Balances
<1>8. reports' = reports
  BY DEF CloseTrade
<1> QED
  BY <1>7, <1>8 DEF LedgerBalances

\* The change of the equity is explained by what was won and lost, and by the gross
\* result less slippage and commission, in every scenario and at every moment of it.
THEOREM LedgerAlwaysBalances == Spec => []LedgerBalances
<1>1. Init => LedgerBalances
  BY ConfigAssumption DEF Init, LedgerBalances, Balances, NoSums
<1>2. ASSUME TypeOK, LedgerBalances, [Next]_vars PROVE LedgerBalances'
  <2>1. ASSUME NEW t \in Rows, LoadRow(t) PROVE LedgerBalances'
    BY <1>2, <2>1 DEF LoadRow, LedgerBalances
  <2>2. CASE EmptyFile
    BY <1>2, <2>2 DEF EmptyFile, LedgerBalances
  <2>3. CASE Scenario
    <3>1. PICK s, m, c : m \in Modes /\ c \in CostRecord /\ IsSample(s) /\ Begin(s, m, c)
      BY <1>2, <2>3, ScenarioBegins
    <3>2. \/ UNCHANGED <<walk, sums, reports>>
          \/ walk' = NewWalk(s) /\ sums' = NoSums /\ reports' = reports
      BY <3>1 DEF Begin
    <3>3. Balances(NewWalk(s).equity, NoSums)
      BY ConfigAssumption DEF Balances, NewWalk, NoSums
    <3> QED
      BY <1>2, <3>2, <3>3 DEF LedgerBalances
  <2>4. ASSUME NEW i \in todo, CloseTrade(i) PROVE LedgerBalances'
    BY <1>2, <2>4, CloseBalances
  <2>5. CASE FinishRun
    <3> DEFINE r == [equity |-> walk.equity, fall |-> walk.fall, from |-> walk.from,
                     recovery |-> Recovery, sums |-> sums, sample |-> sample, curve |-> curve,
                     selected |-> Cardinality(Selected(sample, mode)),
                     executed |-> Cardinality(Executed(sample, mode))]
    <3>1. reports' = Append(reports, r) /\ UNCHANGED <<walk, sums>>
      BY <2>5 DEF FinishRun
    <3>2. r.equity = walk.equity /\ r.sums = sums
      OBVIOUS
    <3> HIDE DEF r
    <3> QED
      BY <1>2, <3>1, <3>2 DEF LedgerBalances
  <2>6. CASE UNCHANGED vars
    BY <1>2, <2>6 DEF vars, LedgerBalances
  <2> QED
    BY <1>2, <2>1, <2>2, <2>3, <2>4, <2>5, <2>6, Zenon DEF Next, Scenario
<1> QED
  BY <1>1, <1>2, TypeCorrect, PTL DEF Spec

-----------------------------------------------------------------------------
(* The drawdown *)

\* What the pass keeps of the curve: where its last peak is, and where it ends.
WalkOK ==
  /\ Len(curve) >= 1 /\ curve[1].equity = StartingEquity
  /\ walk.equity = curve[Len(curve)].equity
  /\ \E i \in 1 .. Len(curve) : IsPeak(curve, i, Len(curve)) /\ curve[i].equity = walk.peak

\* A part that is no larger than f / g is no larger than k / h, if f / g is not.
LEMMA FractionChain ==
  ASSUME NEW a \in Int, NEW b \in Nat \ {0}, NEW f \in Nat, NEW g \in Nat \ {0},
         NEW k \in Nat, NEW h \in Nat \ {0},
         a * g <= f * b, k * g > f * h
  PROVE  a * h <= k * b
<1>1. (a * g) * h <= (f * b) * h
  OBVIOUS
<1>2. (f * h) * b <= (k * g) * b
  OBVIOUS
<1>3. (f * b) * h = (f * h) * b
  OBVIOUS
<1>4. (a * g) * h <= (k * g) * b
  BY <1>1, <1>2, <1>3
<1>5. (a * h) * g <= (k * b) * g
  BY <1>4
<1>6. ASSUME a * h > k * b PROVE FALSE
  <2>1. (a * h - k * b) * g > 0
    BY <1>6
  <2> QED
    BY <1>5, <2>1
<1> QED
  BY <1>6

\* A peak is at least as high as the first point.
LEMMA PeakPositive ==
  ASSUME NEW c \in Seq(Point), Len(c) >= 1, c[1].equity = StartingEquity,
         NEW j \in 1 .. Len(c), NEW i, IsPeak(c, i, j)
  PROVE  c[i].equity \in Nat \ {0}
<1>1. i \in 1 .. Len(c) /\ c[1].equity <= c[i].equity /\ c[i] \in Point
  BY DEF IsPeak
<1> QED
  BY <1>1, ConfigAssumption DEF Point

\* The points of a curve have their type.
LEMMA PointsType ==
  ASSUME NEW c \in Seq(Point), NEW k \in 1 .. Len(c)
  PROVE  c[k] \in Point /\ c[k].equity \in Int
<1>1. c[k] \in Point
  OBVIOUS
<1> QED
  BY <1>1 DEF Point

\* There is one peak up to a point.
LEMMA OnePeak ==
  ASSUME NEW c \in Seq(Point), NEW j \in 1 .. Len(c),
         NEW i1, NEW i2, IsPeak(c, i1, j), IsPeak(c, i2, j)
  PROVE  i1 = i2
<1>1. /\ i1 \in 1 .. Len(c) /\ i2 \in 1 .. Len(c)
      /\ c[i1].equity <= c[i2].equity /\ c[i2].equity <= c[i1].equity
  BY DEF IsPeak
<1>3. c[i1].equity \in Int /\ c[i2].equity \in Int
  BY <1>1, PointsType
<1>2. c[i1].equity = c[i2].equity
  BY <1>1, <1>3
<1> QED
  BY <1>1, <1>2 DEF IsPeak

\* A further point changes no peak of the points before it.
LEMMA PeaksStay ==
  ASSUME NEW c \in Seq(Point), NEW p \in Point, NEW j \in 1 .. Len(c)
  PROVE  \A i : IsPeak(Append(c, p), i, j) <=> IsPeak(c, i, j)
<1>1. \A k \in 1 .. Len(c) : Append(c, p)[k] = c[k]
  OBVIOUS
<1> QED
  BY <1>1 DEF IsPeak

\* A point at least as high as the peak is the new peak.
LEMMA NewPeak ==
  ASSUME NEW c \in Seq(Point), Len(c) >= 1, NEW p \in Point, NEW n, IsPeak(c, n, Len(c)),
         p.equity >= c[n].equity
  PROVE  IsPeak(Append(c, p), Len(c) + 1, Len(c) + 1)
<1> DEFINE d == Append(c, p)
<1>1. /\ d \in Seq(Point) /\ Len(d) = Len(c) + 1 /\ d[Len(c) + 1] = p
      /\ \A k \in 1 .. Len(c) : d[k] = c[k]
  BY AppendProperties
<1>2. n \in 1 .. Len(c) /\ \A k \in 1 .. Len(c) : c[k].equity <= c[n].equity
  BY DEF IsPeak
<1>3. \A k \in 1 .. Len(c) : c[k].equity \in Int
  BY PointsType
<1>4. \A k \in 1 .. Len(c) : d[k].equity <= p.equity
  <2>1. p.equity \in Int /\ c[n].equity \in Int
    BY <1>2, <1>3 DEF Point
  <2> TAKE k \in 1 .. Len(c)
  <2>2. c[k].equity \in Int /\ c[k].equity <= c[n].equity /\ d[k] = c[k]
    BY <1>1, <1>2, <1>3
  <2> QED
    BY <2>1, <2>2
<1>5. \A k \in 1 .. Len(c) + 1 : d[k].equity <= d[Len(c) + 1].equity
  <2> TAKE k \in 1 .. Len(c) + 1
  <2>1. p.equity \in Int
    BY DEF Point
  <2>2. CASE k \in 1 .. Len(c)
    BY <1>1, <1>4, <2>2
  <2>3. CASE k = Len(c) + 1
    BY <1>1, <2>1, <2>3
  <2> QED
    BY <2>2, <2>3
<1> HIDE DEF d
<1>6. IsPeak(d, Len(c) + 1, Len(c) + 1)
  BY <1>5 DEF IsPeak
<1> QED
  BY <1>6 DEF d

\* A point below the peak leaves the peak where it is.
LEMMA OldPeak ==
  ASSUME NEW c \in Seq(Point), Len(c) >= 1, NEW p \in Point, NEW n, IsPeak(c, n, Len(c)),
         p.equity < c[n].equity
  PROVE  IsPeak(Append(c, p), n, Len(c) + 1)
<1> DEFINE d == Append(c, p)
<1>1. /\ Len(d) = Len(c) + 1 /\ d[Len(c) + 1] = p
      /\ \A k \in 1 .. Len(c) : d[k] = c[k]
  OBVIOUS
<1>2. n \in 1 .. Len(c)
  BY DEF IsPeak
<1>3. c[n].equity \in Int /\ p.equity \in Int
  BY <1>2, PointsType DEF Point
<1> HIDE DEF d
<1>4. IsPeak(d, n, Len(c) + 1)
  BY <1>1, <1>2, <1>3 DEF IsPeak
<1> QED
  BY <1>4 DEF d
\* The fall to point j from the peak before it is no larger a part of it than f / g.
FallWithin(c, j, f, g) ==
  \A i \in 1 .. j : IsPeak(c, i, j) => (c[i].equity - c[j].equity) * g <= f * c[i].equity

\* The fall to point j is f, from a peak of g.
FallReached(c, j, f, g) ==
  \E i \in 1 .. j : IsPeak(c, i, j) /\ g = c[i].equity /\ f = c[i].equity - c[j].equity

\* A drawdown is one that no fall exceeds and some fall reaches.
LEMMA DrawdownUnfolded ==
  ASSUME NEW c, NEW f, NEW g
  PROVE  IsDrawdown(c, f, g) <=>
           /\ \A j \in DOMAIN c : FallWithin(c, j, f, g)
           /\ f = 0 \/ \E j \in DOMAIN c : FallReached(c, j, f, g)
BY Zenon DEF IsDrawdown, FallWithin, FallReached

\* A further point leaves the falls before it as they are.
LEMMA FallsStay ==
  ASSUME NEW c \in Seq(Point), NEW p \in Point, NEW j \in 1 .. Len(c), NEW f, NEW g
  PROVE  /\ FallWithin(Append(c, p), j, f, g) <=> FallWithin(c, j, f, g)
         /\ FallReached(Append(c, p), j, f, g) <=> FallReached(c, j, f, g)
<1> DEFINE d == Append(c, p)
<1>1. \A k \in 1 .. j : d[k] = c[k]
  OBVIOUS
<1>2. \A i : IsPeak(d, i, j) <=> IsPeak(c, i, j)
  BY PeaksStay
<1>3. j \in 1 .. j
  OBVIOUS
<1> HIDE DEF d
<1>4. /\ FallWithin(d, j, f, g) <=> FallWithin(c, j, f, g)
      /\ FallReached(d, j, f, g) <=> FallReached(c, j, f, g)
  BY <1>1, <1>2, <1>3, Zenon DEF FallWithin, FallReached
<1> QED
  BY <1>4 DEF d

\* A curve of one point has no drawdown.
LEMMA FirstPoint ==
  ASSUME NEW c \in Seq(Point), Len(c) = 1, c[1].equity = StartingEquity
  PROVE  IsPeak(c, 1, 1) /\ IsDrawdown(c, 0, StartingEquity)
<1>1. c[1].equity \in Int
  BY PointsType
<1>2. IsPeak(c, 1, 1)
  BY <1>1 DEF IsPeak
<1>3. FallWithin(c, 1, 0, StartingEquity)
  BY <1>1, ConfigAssumption DEF FallWithin
<1>4. DOMAIN c = {1}
  OBVIOUS
<1> QED
  BY <1>2, <1>3, <1>4, DrawdownUnfolded, Zenon

\* A point at least as high as the peak leaves the drawdown as it is.
LEMMA HigherPoint ==
  ASSUME NEW c \in Seq(Point), Len(c) >= 1, NEW p \in Point, NEW n, IsPeak(c, n, Len(c)),
         p.equity >= c[n].equity, NEW f \in Nat, NEW g \in Nat \ {0}, c[1].equity = StartingEquity,
         IsDrawdown(c, f, g)
  PROVE  IsDrawdown(Append(c, p), f, g)
<1> DEFINE d == Append(c, p)
           m == Len(c) + 1
<1>1. /\ d \in Seq(Point) /\ Len(d) = m /\ m \in 1 .. m /\ d[m] = p
      /\ DOMAIN d = 1 .. Len(c) \cup {m} /\ DOMAIN c = 1 .. Len(c)
      /\ d[1].equity = StartingEquity
  OBVIOUS
<1>2. IsPeak(d, m, m)
  BY NewPeak
<1>3. \A j \in 1 .. Len(c) : FallWithin(d, j, f, g)
  BY <1>1, FallsStay, DrawdownUnfolded
<1>4. f = 0 \/ \E j \in DOMAIN d : FallReached(d, j, f, g)
  BY <1>1, FallsStay, DrawdownUnfolded
<1> HIDE DEF d, m
<1>5. FallWithin(d, m, f, g)
  <2>1. d[m].equity \in Nat
    BY <1>1, <1>2, PeakPositive
  <2>2. \A i \in 1 .. m : IsPeak(d, i, m) => i = m
    BY <1>1, <1>2, OnePeak
  <2>3. (d[m].equity - d[m].equity) * g <= f * d[m].equity
    BY <2>1
  <2> QED
    BY <2>2, <2>3, Zenon DEF FallWithin
<1>6. IsDrawdown(d, f, g)
  BY <1>1, <1>3, <1>4, <1>5, DrawdownUnfolded
<1> QED
  BY <1>6 DEF d

\* A point below the peak is the new drawdown when it is deeper, as a part of the peak,
\* and leaves the drawdown as it is when it is not.
LEMMA LowerPoint ==
  ASSUME NEW c \in Seq(Point), Len(c) >= 1, NEW p \in Point, NEW n, IsPeak(c, n, Len(c)),
         p.equity < c[n].equity, NEW f \in Nat, NEW g \in Nat \ {0}, c[1].equity = StartingEquity,
         IsDrawdown(c, f, g)
  PROVE  LET high == c[n].equity IN
         IF (high - p.equity) * g > f * high
         THEN IsDrawdown(Append(c, p), high - p.equity, high)
         ELSE IsDrawdown(Append(c, p), f, g)
<1> DEFINE d == Append(c, p)
           m == Len(c) + 1
           high == c[n].equity
           deep == high - p.equity
<1>1. /\ d \in Seq(Point) /\ Len(d) = m /\ m \in 1 .. m /\ d[m] = p
      /\ DOMAIN d = 1 .. Len(c) \cup {m} /\ DOMAIN c = 1 .. Len(c)
      /\ d[1].equity = StartingEquity /\ Len(d) >= 1
      /\ \A k \in 1 .. Len(c) : d[k] = c[k]
      /\ 1 .. Len(c) \subseteq 1 .. m
  OBVIOUS
<1>2. IsPeak(d, n, m)
  BY OldPeak
<1>3. n \in 1 .. Len(c)
  BY DEF IsPeak
<1>4. /\ \A j \in 1 .. Len(c) : FallWithin(d, j, f, g)
      /\ f = 0 \/ \E j \in DOMAIN d : FallReached(d, j, f, g)
  BY <1>1, FallsStay, DrawdownUnfolded
<1>5. d[n].equity = high
  BY <1>1, <1>3
<1> HIDE DEF d, m
<1>6. high \in Nat \ {0} /\ p.equity \in Int /\ p.equity < high
  BY <1>1, <1>2, <1>5, PeakPositive DEF Point
<1>7. \A i \in 1 .. m : IsPeak(d, i, m) => i = n
  BY <1>1, <1>2, OnePeak
<1> HIDE DEF high
<1>8. deep \in Nat
  BY <1>6
<1>9. CASE deep * g > f * high
  <2>1. \A j \in 1 .. Len(c) : FallWithin(d, j, deep, high)
    <3> TAKE j \in 1 .. Len(c)
    <3> SUFFICES ASSUME NEW i \in 1 .. j, IsPeak(d, i, j)
                 PROVE  (d[i].equity - d[j].equity) * high <= deep * d[i].equity
      BY DEF FallWithin
    <3>1. j \in 1 .. Len(d) /\ i \in 1 .. Len(d)
      BY <1>1 DEF m
    <3>2. d[i].equity \in Nat \ {0}
      BY <1>1, <3>1, PeakPositive
    <3>3. d[j].equity \in Int
      BY <1>1, <3>1, PointsType
    <3>4. (d[i].equity - d[j].equity) * g <= f * d[i].equity
      BY <1>4 DEF FallWithin
    <3> DEFINE fallen == d[i].equity - d[j].equity
               top == d[i].equity
    <3>5. fallen \in Int /\ top \in Nat \ {0} /\ fallen * g <= f * top
      BY <3>2, <3>3, <3>4
    <3> HIDE DEF fallen, top, deep
    <3>6. fallen * high <= deep * top
      BY <1>6, <1>8, <1>9, <3>5, FractionChain
    <3> QED
      BY <3>6 DEF fallen, top
  <2>2. FallWithin(d, m, deep, high)
    <3>1. \A i \in 1 .. m : IsPeak(d, i, m) =>
            (d[i].equity - d[m].equity) * high <= deep * d[i].equity
      BY <1>1, <1>5, <1>6, <1>7
    <3> QED
      BY <3>1 DEF FallWithin
  <2>3. FallReached(d, m, deep, high)
    BY <1>1, <1>2, <1>3, <1>5, Zenon DEF FallReached
  <2>4. \A j \in DOMAIN d : FallWithin(d, j, deep, high)
    BY <1>1, <2>1, <2>2, Zenon
  <2>5. m \in DOMAIN d
    BY <1>1, Zenon
  <2>6. IsDrawdown(d, deep, high)
    BY <2>3, <2>4, <2>5, DrawdownUnfolded, Zenon
  <2> QED
    BY <1>9, <2>6 DEF d, high
<1>10. CASE ~(deep * g > f * high)
  <2>1. FallWithin(d, m, f, g)
    <3>1. deep * g <= f * high
      BY <1>6, <1>8, <1>10
    <3>2. \A i \in 1 .. m : IsPeak(d, i, m) =>
            (d[i].equity - d[m].equity) * g <= f * d[i].equity
      BY <1>1, <1>5, <1>7, <3>1
    <3> QED
      BY <3>2 DEF FallWithin
  <2>2. \A j \in DOMAIN d : FallWithin(d, j, f, g)
    BY <1>1, <1>4, <2>1, Zenon
  <2>3. IsDrawdown(d, f, g)
    BY <1>4, <2>2, DrawdownUnfolded, Zenon
  <2> QED
    BY <1>10, <2>3 DEF d, high
<1> QED
  BY <1>9, <1>10

\* The walk and its report are exact, in every step.
DrawdownInv == TypeOK /\ WalkOK /\ DrawdownIsExact

\* Closing a trade keeps the drawdown exact.
LEMMA CloseDrawdown ==
  ASSUME DrawdownInv, NEW i \in todo, CloseTrade(i)
  PROVE  WalkOK' /\ DrawdownIsExact'
<1> DEFINE e == walk.equity + NetPnl(sample[i], costs)
           day == sample[i].exit
           p == [day |-> day, equity |-> e]
<1>1. /\ sample[i] \in HistoricalTrade /\ costs \in CostRecord /\ walk \in WalkRecord
      /\ curve \in Seq(Point)
  BY DEF DrawdownInv, TypeOK, CostRecord, WalkRecord
<1>2. NetPnl(sample[i], costs) \in Int
  BY <1>1, AmountsType
<1>3. e \in Int /\ day \in Nat
  <2>1. walk.equity \in Int
    BY <1>1 DEF WalkRecord
  <2>2. sample[i].exit \in Nat
    BY <1>1 DEF HistoricalTrade
  <2> QED
    BY <1>2, <2>1, <2>2
<1>4. /\ walk' = IF e >= walk.peak THEN Recovered(walk, e, day) ELSE Underwater(walk, e)
      /\ curve' = Append(curve, p) /\ reports' = reports
  BY DEF CloseTrade
<1> HIDE DEF e, day
<1>5. p \in Point /\ p.equity = e
  BY <1>3 DEF Point
<1> HIDE DEF p
<1>6. /\ Len(curve) >= 1 /\ curve[1].equity = StartingEquity
      /\ walk.equity = curve[Len(curve)].equity
  BY DEF DrawdownInv, WalkOK
<1>7. PICK n \in 1 .. Len(curve) : IsPeak(curve, n, Len(curve)) /\ curve[n].equity = walk.peak
  BY DEF DrawdownInv, WalkOK
<1>8. /\ Len(curve') = Len(curve) + 1 /\ curve'[Len(curve) + 1] = p /\ curve'[1] = curve[1]
      /\ curve'[n] = curve[n] /\ n \in 1 .. Len(curve') /\ Len(curve) + 1 \in 1 .. Len(curve')
      /\ Len(curve') >= 1
  BY <1>1, <1>4, <1>5, <1>6
<1>9. IsDrawdown(curve, walk.fall, walk.from)
  BY DEF DrawdownInv, DrawdownIsExact
<1>10. /\ walk.fall \in Nat /\ walk.from \in Nat \ {0} /\ walk.peak \in Int
  BY <1>1 DEF WalkRecord
<1>11. walk'.equity = e
  BY <1>1, <1>4, Zenon DEF WalkRecord, Recovered, Underwater
<1>12. CASE e >= walk.peak
  <2>1. walk'.peak = e /\ walk'.fall = walk.fall /\ walk'.from = walk.from
    BY <1>1, <1>4, <1>12 DEF WalkRecord, Recovered
  <2>2. IsDrawdown(curve', walk'.fall, walk'.from)
    BY <1>1, <1>4, <1>5, <1>6, <1>7, <1>9, <1>10, <1>12, <2>1, HigherPoint
  <2>3. IsPeak(curve', Len(curve'), Len(curve'))
    BY <1>1, <1>4, <1>5, <1>6, <1>7, <1>8, <1>12, NewPeak
  <2>4. WalkOK'
    BY <1>5, <1>6, <1>8, <1>11, <2>1, <2>3 DEF WalkOK
  <2> QED
    BY <1>4, <2>2, <2>4 DEF DrawdownInv, DrawdownIsExact
<1>13. CASE ~(e >= walk.peak)
  <2>1. e < walk.peak
    BY <1>3, <1>10, <1>13
  <2>2. walk' = Underwater(walk, e)
    BY <1>4, <1>13
  <2>3. /\ walk'.peak = walk.peak
        /\ walk'.fall = IF Deeper(walk, e) THEN walk.peak - e ELSE walk.fall
        /\ walk'.from = IF Deeper(walk, e) THEN walk.peak ELSE walk.from
    BY <1>1, <2>2 DEF WalkRecord, Underwater
  <2>4. IF (walk.peak - e) * walk.from > walk.fall * walk.peak
        THEN IsDrawdown(curve', walk.peak - e, walk.peak)
        ELSE IsDrawdown(curve', walk.fall, walk.from)
    BY <1>1, <1>4, <1>5, <1>6, <1>7, <1>9, <1>10, <2>1, LowerPoint
  <2>5. IsDrawdown(curve', walk'.fall, walk'.from)
    BY <2>3, <2>4 DEF Deeper
  <2>6. IsPeak(curve', n, Len(curve'))
    BY <1>1, <1>4, <1>5, <1>6, <1>7, <1>8, <2>1, OldPeak
  <2>7. WalkOK'
    BY <1>5, <1>6, <1>7, <1>8, <1>11, <2>3, <2>6 DEF WalkOK
  <2> QED
    BY <1>4, <2>5, <2>7 DEF DrawdownInv, DrawdownIsExact
<1> QED
  BY <1>12, <1>13

\* A curve that starts anew is exact.
LEMMA BeginDrawdown ==
  ASSUME NEW d \in Nat, curve' = <<[day |-> d, equity |-> StartingEquity]>>,
         walk'.equity = StartingEquity, walk'.peak = StartingEquity,
         walk'.fall = 0, walk'.from = StartingEquity
  PROVE  WalkOK' /\ IsDrawdown(curve', walk'.fall, walk'.from)
<1>1. /\ curve' \in Seq(Point) /\ Len(curve') = 1 /\ curve'[1].equity = StartingEquity
  BY ConfigAssumption DEF Point
<1>2. IsPeak(curve', 1, 1) /\ IsDrawdown(curve', 0, StartingEquity)
  BY <1>1, FirstPoint
<1>3. WalkOK'
  BY <1>1, <1>2 DEF WalkOK
<1> QED
  BY <1>2, <1>3

\* The maximum drawdown reported is the deepest fall of the equity curve from a peak,
\* relative to it, in every scenario: the running peak of one pass is enough.
THEOREM DrawdownAlwaysExact == Spec => []DrawdownIsExact
<1>1. Init => WalkOK /\ DrawdownIsExact
  <2> SUFFICES ASSUME Init PROVE WalkOK /\ DrawdownIsExact
    OBVIOUS
  <2>1. /\ curve \in Seq(Point) /\ Len(curve) = 1 /\ curve[1].equity = StartingEquity
        /\ walk.equity = StartingEquity /\ walk.peak = StartingEquity
        /\ walk.fall = 0 /\ walk.from = StartingEquity /\ reports = <<>>
    BY ConfigAssumption DEF Init, Point
  <2>2. IsPeak(curve, 1, 1) /\ IsDrawdown(curve, 0, StartingEquity)
    BY <2>1, FirstPoint
  <2> QED
    BY <2>1, <2>2 DEF WalkOK, DrawdownIsExact
<1>2. ASSUME DrawdownInv, [Next]_vars PROVE WalkOK' /\ DrawdownIsExact'
  <2> USE <1>2
  <2>1. ASSUME UNCHANGED <<walk, curve, reports>> PROVE WalkOK' /\ DrawdownIsExact'
    BY <2>1 DEF DrawdownInv, WalkOK, DrawdownIsExact
  <2>2. ASSUME NEW t \in Rows, LoadRow(t) PROVE WalkOK' /\ DrawdownIsExact'
    BY <2>1, <2>2 DEF LoadRow
  <2>3. CASE EmptyFile
    BY <2>1, <2>3 DEF EmptyFile
  <2>4. CASE Scenario
    <3>1. PICK s, m, c : m \in Modes /\ c \in CostRecord /\ IsSample(s) /\ Begin(s, m, c)
      BY <2>4, ScenarioBegins DEF DrawdownInv
    <3>2. FirstEntryDay(s) \in Nat
      BY <3>1, FirstDayType DEF IsSample
    <3>3. \/ UNCHANGED <<walk, curve, reports>>
          \/ /\ walk' = NewWalk(s) /\ reports' = reports
             /\ curve' = <<[day |-> FirstEntryDay(s), equity |-> StartingEquity]>>
      BY <3>1 DEF Begin
    <3>4. CASE /\ walk' = NewWalk(s) /\ reports' = reports
               /\ curve' = <<[day |-> FirstEntryDay(s), equity |-> StartingEquity]>>
      <4>1. WalkOK' /\ IsDrawdown(curve', walk'.fall, walk'.from)
        BY <3>2, <3>4, BeginDrawdown DEF NewWalk
      <4> QED
        BY <3>4, <4>1 DEF DrawdownInv, DrawdownIsExact
    <3> QED
      BY <2>1, <3>3, <3>4
  <2>5. ASSUME NEW i \in todo, CloseTrade(i) PROVE WalkOK' /\ DrawdownIsExact'
    BY <2>5, CloseDrawdown
  <2>6. CASE FinishRun
    <3> DEFINE r == [equity |-> walk.equity, fall |-> walk.fall, from |-> walk.from,
                     recovery |-> Recovery, sums |-> sums, sample |-> sample, curve |-> curve,
                     selected |-> Cardinality(Selected(sample, mode)),
                     executed |-> Cardinality(Executed(sample, mode))]
    <3>1. reports' = Append(reports, r) /\ UNCHANGED <<walk, curve>>
      BY <2>6 DEF FinishRun
    <3>2. /\ r.fall = walk.fall /\ r.from = walk.from /\ r.curve = curve
          /\ ReportOK(r) /\ AreReports(reports)
      BY DEF DrawdownInv, TypeOK, ReportOK, AreReports
    <3> HIDE DEF r
    <3>3. /\ DOMAIN reports' = DOMAIN reports \cup {Len(reports) + 1}
          /\ reports'[Len(reports) + 1] = r
          /\ \A n \in DOMAIN reports : reports'[n] = reports[n]
      BY <3>1, <3>2, ReportAppended
    <3>4. WalkOK'
      BY <3>1 DEF DrawdownInv, WalkOK
    <3>5. /\ IsDrawdown(curve, walk.fall, walk.from)
          /\ \A n \in DOMAIN reports :
               IsDrawdown(reports[n].curve, reports[n].fall, reports[n].from)
      BY DEF DrawdownInv, DrawdownIsExact
    <3>6. \A n \in DOMAIN reports' :
            IsDrawdown(reports'[n].curve, reports'[n].fall, reports'[n].from)
      BY <3>2, <3>3, <3>5, Zenon
    <3> QED
      BY <3>1, <3>4, <3>5, <3>6 DEF DrawdownIsExact
  <2>7. CASE UNCHANGED vars
    BY <2>1, <2>7 DEF vars
  <2> QED
    BY <2>2, <2>3, <2>4, <2>5, <2>6, <2>7, Zenon DEF Next, Scenario
<1>3. DrawdownInv /\ [Next]_vars => DrawdownInv'
  BY <1>2, StepType DEF DrawdownInv
<1>4. Init => DrawdownInv
  BY <1>1, InitType DEF DrawdownInv
<1>5. DrawdownInv => DrawdownIsExact
  BY DEF DrawdownInv
<1> QED
  BY <1>3, <1>4, <1>5, PTL DEF Spec

-----------------------------------------------------------------------------
(* The order of the trades *)

\* The keys of the two orders are compared one after the other.
LEMMA LexOfFour ==
  ASSUME NEW a, NEW b, DOMAIN a = 1 .. 4
  PROVE  Lex(a, b) <=>
           \/ a[1] < b[1]
           \/ a[1] = b[1] /\ a[2] < b[2]
           \/ a[1] = b[1] /\ a[2] = b[2] /\ a[3] < b[3]
           \/ a[1] = b[1] /\ a[2] = b[2] /\ a[3] = b[3] /\ a[4] < b[4]
<1>1. Lex(a, b) <=> \E n \in 1 .. 4 : a[n] < b[n] /\ \A m \in 1 .. n - 1 : a[m] = b[m]
  BY DEF Lex
<1>2. 1 .. 4 = {1, 2, 3, 4}
  OBVIOUS
<1>3. 1 .. 1 - 1 = {} /\ 1 .. 2 - 1 = {1} /\ 1 .. 3 - 1 = {1, 2} /\ 1 .. 4 - 1 = {1, 2, 3}
  OBVIOUS
<1>4. Lex(a, b) <=>
        \/ a[1] < b[1] /\ \A m \in 1 .. 1 - 1 : a[m] = b[m]
        \/ a[2] < b[2] /\ \A m \in 1 .. 2 - 1 : a[m] = b[m]
        \/ a[3] < b[3] /\ \A m \in 1 .. 3 - 1 : a[m] = b[m]
        \/ a[4] < b[4] /\ \A m \in 1 .. 4 - 1 : a[m] = b[m]
  BY <1>1, <1>2, Zenon
<1> QED
  BY <1>3, <1>4

-----------------------------------------------------------------------------
(* What a scenario adds up to *)

\* The sum of f over S; and the amounts of the trades of sample s at costs c.
SumOver(f, S) == SumFunctionOnSet(f, S)
Net(s, c) == [i \in DOMAIN s |-> NetPnl(s[i], c)]
Gross(s) == [i \in DOMAIN s |-> GrossPnl(s[i])]
Slipped(s, c) == [i \in DOMAIN s |-> SlippageDrag(s[i], c)]
Paid(s, c) == [i \in DOMAIN s |-> CommissionDrag(s[i], c)]
Won(s, c) == [i \in DOMAIN s |-> IF NetPnl(s[i], c) > 0 THEN NetPnl(s[i], c) ELSE 0]
Lost(s, c) == [i \in DOMAIN s |-> IF NetPnl(s[i], c) < 0 THEN NetPnl(s[i], c) ELSE 0]
Win(s, c) == [i \in DOMAIN s |-> IF NetPnl(s[i], c) > 0 THEN 1 ELSE 0]

\* The totals when the trades in S are closed, and the equity then.
TotalsOf(s, c, S) ==
  [gross |-> SumOver(Gross(s), S), slippage |-> SumOver(Slipped(s, c), S),
   commission |-> SumOver(Paid(s, c), S), won |-> SumOver(Won(s, c), S),
   lost |-> SumOver(Lost(s, c), S), wins |-> SumOver(Win(s, c), S)]

EquityAfter(s, c, S) == StartingEquity + SumOver(Net(s, c), S)

\* Trades of a scenario, finitely many.
Sampled(s) ==
  /\ IsFiniteSet(DOMAIN s) /\ DOMAIN s \subseteq Nat
  /\ \A i \in DOMAIN s : s[i] \in HistoricalTrade /\ Valid(s[i])

\* The trades of a file are finitely many, and so are those of a sample.
LEMMA SamplesFinite ==
  ASSUME TypeOK, NEW s, DOMAIN s \subseteq DOMAIN history,
         \A i \in DOMAIN s : s[i] \in HistoricalTrade /\ Valid(s[i])
  PROVE  Sampled(s)
<1>1. Len(history) \in Nat /\ DOMAIN history = 1 .. Len(history)
  BY DEF TypeOK
<1>2. IsFiniteSet(1 .. Len(history)) /\ 1 .. Len(history) \subseteq Nat
  BY <1>1, FS_Interval
<1> QED
  BY <1>1, <1>2, FS_Subset DEF Sampled

\* The amounts of the trades are whole numbers.
LEMMA AmountsAre ==
  ASSUME NEW s, Sampled(s), NEW c \in CostRecord, NEW i \in DOMAIN s
  PROVE  /\ Net(s, c)[i] = NetPnl(s[i], c) /\ Net(s, c)[i] \in Int
         /\ Gross(s)[i] = GrossPnl(s[i]) /\ Gross(s)[i] \in Int
         /\ Slipped(s, c)[i] = SlippageDrag(s[i], c) /\ Slipped(s, c)[i] \in Int
         /\ Paid(s, c)[i] = CommissionDrag(s[i], c) /\ Paid(s, c)[i] \in Int
         /\ Won(s, c)[i] = (IF NetPnl(s[i], c) > 0 THEN NetPnl(s[i], c) ELSE 0)
         /\ Won(s, c)[i] \in Int
         /\ Lost(s, c)[i] = (IF NetPnl(s[i], c) < 0 THEN NetPnl(s[i], c) ELSE 0)
         /\ Lost(s, c)[i] \in Int
         /\ Win(s, c)[i] = (IF NetPnl(s[i], c) > 0 THEN 1 ELSE 0) /\ Win(s, c)[i] \in Int
<1>1. /\ NetPnl(s[i], c) \in Int /\ GrossPnl(s[i]) \in Int
      /\ SlippageDrag(s[i], c) \in Int /\ CommissionDrag(s[i], c) \in Int
  BY AmountsType DEF Sampled
<1> QED
  BY <1>1 DEF Net, Gross, Slipped, Paid, Won, Lost, Win

\* The trades that are executed are some of the sample.
LEMMA ExecutedIn ==
  ASSUME NEW s, NEW m
  PROVE  Executed(s, m) \subseteq DOMAIN s
BY DEF Executed, Selected

\* A trade more adds its amounts to every sum.
LEMMA TradeAdds ==
  ASSUME NEW s, Sampled(s), NEW c \in CostRecord, NEW S, S \subseteq DOMAIN s,
         NEW i \in DOMAIN s, i \notin S
  PROVE  /\ EquityAfter(s, c, S) \in Int
         /\ EquityAfter(s, c, S \cup {i}) = EquityAfter(s, c, S) + NetPnl(s[i], c)
         /\ LET old == TotalsOf(s, c, S)
                net == NetPnl(s[i], c)
            IN TotalsOf(s, c, S \cup {i}) =
                 [gross |-> old.gross + GrossPnl(s[i]),
                  slippage |-> old.slippage + SlippageDrag(s[i], c),
                  commission |-> old.commission + CommissionDrag(s[i], c),
                  won |-> old.won + (IF net > 0 THEN net ELSE 0),
                  lost |-> old.lost + (IF net < 0 THEN net ELSE 0),
                  wins |-> old.wins + (IF net > 0 THEN 1 ELSE 0)]
<1>1. IsFiniteSet(S)
  BY FS_Subset DEF Sampled
<1>2. ASSUME NEW f, \A j \in DOMAIN s : f[j] \in Int
      PROVE  SumOver(f, S \cup {i}) = SumOver(f, S) + f[i] /\ SumOver(f, S) \in Int
  <2>1. \A j \in S \cup {i} : f[j] \in Int
    BY <1>2
  <2>2. SumOver(f, S \cup {i}) = f[i] + SumOver(f, S)
    BY <1>1, <2>1, SumAdd DEF SumOver
  <2>3. SumOver(f, S) \in Int
    BY <1>1, <2>1, SumInt DEF SumOver
  <2> QED
    BY <2>1, <2>2, <2>3
<1>3. /\ \A j \in DOMAIN s : Net(s, c)[j] \in Int
      /\ \A j \in DOMAIN s : Gross(s)[j] \in Int
      /\ \A j \in DOMAIN s : Slipped(s, c)[j] \in Int
      /\ \A j \in DOMAIN s : Paid(s, c)[j] \in Int
      /\ \A j \in DOMAIN s : Won(s, c)[j] \in Int
      /\ \A j \in DOMAIN s : Lost(s, c)[j] \in Int
      /\ \A j \in DOMAIN s : Win(s, c)[j] \in Int
  BY AmountsAre
<1>4. /\ SumOver(Net(s, c), S \cup {i}) = SumOver(Net(s, c), S) + Net(s, c)[i]
      /\ SumOver(Net(s, c), S) \in Int
  BY <1>2, <1>3
<1>5. /\ SumOver(Gross(s), S \cup {i}) = SumOver(Gross(s), S) + Gross(s)[i]
      /\ SumOver(Slipped(s, c), S \cup {i}) = SumOver(Slipped(s, c), S) + Slipped(s, c)[i]
      /\ SumOver(Paid(s, c), S \cup {i}) = SumOver(Paid(s, c), S) + Paid(s, c)[i]
  BY <1>2, <1>3
<1>6. /\ SumOver(Won(s, c), S \cup {i}) = SumOver(Won(s, c), S) + Won(s, c)[i]
      /\ SumOver(Lost(s, c), S \cup {i}) = SumOver(Lost(s, c), S) + Lost(s, c)[i]
      /\ SumOver(Win(s, c), S \cup {i}) = SumOver(Win(s, c), S) + Win(s, c)[i]
  BY <1>2, <1>3
<1>7. EquityAfter(s, c, S) \in Int
  BY <1>4, ConfigAssumption DEF EquityAfter
<1>8. EquityAfter(s, c, S \cup {i}) = EquityAfter(s, c, S) + NetPnl(s[i], c)
  <2>1. Net(s, c)[i] = NetPnl(s[i], c) /\ Net(s, c)[i] \in Int
    BY AmountsAre
  <2> QED
    BY <1>4, <2>1, ConfigAssumption DEF EquityAfter
<1> QED
  BY <1>5, <1>6, <1>7, <1>8, AmountsAre, Zenon DEF TotalsOf

\* Nothing is earned before the first trade is closed.
LEMMA NothingAdded ==
  ASSUME NEW s, NEW c
  PROVE  TotalsOf(s, c, {}) = NoSums /\ EquityAfter(s, c, {}) = StartingEquity
<1>1. \A f : SumOver(f, {}) = 0
  BY SumEmpty DEF SumOver
<1> QED
  BY <1>1, ConfigAssumption DEF TotalsOf, EquityAfter, NoSums

-----------------------------------------------------------------------------
(* The orders of a scenario *)

\* The pairs of trades in the order they close, and in the order they are entered.
Closing(s) == {e \in (DOMAIN s) \X (DOMAIN s) : ClosesBefore(s, e[1], e[2])}
Entering(s) == {e \in (DOMAIN s) \X (DOMAIN s) : EntryBefore(s, e[1], e[2])}

\* Two trades are in the order when one closes, or is entered, before the other.
LEMMA ClosingIs ==
  ASSUME NEW s, NEW i \in DOMAIN s, NEW j \in DOMAIN s
  PROVE  /\ <<i, j>> \in Closing(s) <=> ClosesBefore(s, i, j)
         /\ <<i, j>> \in Entering(s) <=> EntryBefore(s, i, j)
BY DEF Closing, Entering

\* Trades close one after the other, and are entered one after the other.
LEMMA SampleOrders ==
  ASSUME NEW s, Sampled(s)
  PROVE  /\ Orders(Closing(s), DOMAIN s)
         /\ \A i, j \in DOMAIN s : <<i, j>> \in Closing(s) => s[i].exit <= s[j].exit
         /\ Orders(Entering(s), DOMAIN s)
<1>1. \A i \in DOMAIN s : i \in Int /\ s[i].entry \in Int /\ s[i].exit \in Int /\ s[i].id \in Int
  BY DEF Sampled, HistoricalTrade
<1>2. ASSUME NEW i \in DOMAIN s, NEW j \in DOMAIN s
      PROVE  <<i, j>> \in Closing(s) <=>
               \/ s[i].exit < s[j].exit
               \/ s[i].exit = s[j].exit /\ s[i].id < s[j].id
               \/ s[i].exit = s[j].exit /\ s[i].id = s[j].id /\ s[i].entry < s[j].entry
               \/ s[i].exit = s[j].exit /\ s[i].id = s[j].id /\ s[i].entry = s[j].entry /\ i < j
  <2>1. PICK a, b : a = <<s[i].exit, s[i].id, s[i].entry, i>> /\ b = <<s[j].exit, s[j].id, s[j].entry, j>>
    OBVIOUS
  <2>2. DOMAIN a = 1 .. 4 /\ (<<i, j>> \in Closing(s) <=> Lex(a, b))
    BY <2>1, ClosingIs DEF ClosesBefore
  <2> QED
    BY <2>1, <2>2, LexOfFour
<1>3. ASSUME NEW i \in DOMAIN s, NEW j \in DOMAIN s
      PROVE  <<i, j>> \in Entering(s) <=>
               \/ s[i].entry < s[j].entry
               \/ s[i].entry = s[j].entry /\ s[i].exit < s[j].exit
               \/ s[i].entry = s[j].entry /\ s[i].exit = s[j].exit /\ s[i].id < s[j].id
               \/ s[i].entry = s[j].entry /\ s[i].exit = s[j].exit /\ s[i].id = s[j].id /\ i < j
  <2>1. PICK a, b : a = <<s[i].entry, s[i].exit, s[i].id, i>> /\ b = <<s[j].entry, s[j].exit, s[j].id, j>>
    OBVIOUS
  <2>2. DOMAIN a = 1 .. 4 /\ (<<i, j>> \in Entering(s) <=> Lex(a, b))
    BY <2>1, ClosingIs DEF EntryBefore
  <2> QED
    BY <2>1, <2>2, LexOfFour
<1>4. ASSUME NEW i \in DOMAIN s
      PROVE  <<i, i>> \notin Closing(s) /\ <<i, i>> \notin Entering(s)
  BY <1>1, <1>2, <1>3
<1>5. ASSUME NEW i \in DOMAIN s, NEW j \in DOMAIN s
      PROVE  /\ i = j \/ <<i, j>> \in Closing(s) \/ <<j, i>> \in Closing(s)
             /\ i = j \/ <<i, j>> \in Entering(s) \/ <<j, i>> \in Entering(s)
             /\ <<i, j>> \in Closing(s) => s[i].exit <= s[j].exit
  BY <1>1, <1>2, <1>3
<1>6. ASSUME NEW i \in DOMAIN s, NEW j \in DOMAIN s, NEW k \in DOMAIN s
      PROVE  <<i, j>> \in Closing(s) /\ <<j, k>> \in Closing(s) => <<i, k>> \in Closing(s)
  BY <1>1, <1>2
<1>7. ASSUME NEW i \in DOMAIN s, NEW j \in DOMAIN s, NEW k \in DOMAIN s
      PROVE  <<i, j>> \in Entering(s) /\ <<j, k>> \in Entering(s) => <<i, k>> \in Entering(s)
  BY <1>1, <1>3
<1> QED
  BY <1>4, <1>5, <1>6, <1>7 DEF Orders

\* What orders a set orders its parts.
LEMMA OrdersPart ==
  ASSUME NEW R, NEW D, Orders(R, D), NEW E, E \subseteq D
  PROVE  Orders(R, E)
BY DEF Orders

-----------------------------------------------------------------------------
(* The curve of a scenario *)

\* Point k of a curve: the equity when trade i is closed as the (k-1)th.
ClosedBy(s, m, i) == UpTo(Closing(s), Executed(s, m), i)
IsPoint(p, k, s, m, c, i) ==
  /\ Cardinality(ClosedBy(s, m, i)) = k - 1
  /\ p.day = s[i].exit /\ p.equity = EquityAfter(s, c, ClosedBy(s, m, i))

\* q is the curve when the trades in S are closed.
CurveTold(q, s, m, c, S) ==
  /\ Len(q) = 1 + Cardinality(S)
  /\ q[1] = [day |-> FirstEntryDay(s), equity |-> StartingEquity]
  /\ \A k \in 2 .. Len(q) : \E i \in S : IsPoint(q[k], k, s, m, c, i)

\* A trade that is closed after S and before the rest continues the curve.
LEMMA CurveGoesOn ==
  ASSUME NEW s, Sampled(s), NEW m, NEW c \in CostRecord, NEW S, S \subseteq Executed(s, m),
         NEW q \in Seq(Point), CurveTold(q, s, m, c, S),
         NEW i \in Executed(s, m), i \notin S,
         \A j \in S : <<j, i>> \in Closing(s),
         \A j \in Executed(s, m) \ S : j # i => <<i, j>> \in Closing(s),
         NEW p \in Point, p.day = s[i].exit, p.equity = EquityAfter(s, c, S) + NetPnl(s[i], c)
  PROVE  CurveTold(Append(q, p), s, m, c, S \cup {i})
<1> DEFINE d == Append(q, p)
           D == Executed(s, m)
<1>1. D \subseteq DOMAIN s /\ S \subseteq DOMAIN s /\ IsFiniteSet(D) /\ IsFiniteSet(S)
  BY ExecutedIn, FS_Subset DEF Sampled
<1>2. Orders(Closing(s), DOMAIN s)
  BY SampleOrders
<1>3. ClosedBy(s, m, i) = S \cup {i}
  <2>1. \A j \in S : <<j, i>> \in Closing(s) /\ j \in D
    OBVIOUS
  <2>2. \A j \in D \ S : j # i => <<j, i>> \notin Closing(s)
    BY <1>1, <1>2 DEF Orders
  <2> QED
    BY <2>1, <2>2 DEF ClosedBy, UpTo
<1>4. Cardinality(S \cup {i}) = Cardinality(S) + 1 /\ Cardinality(S) \in Nat
  BY <1>1, FS_AddElement, FS_CardinalityType
<1>5. Len(q) = 1 + Cardinality(S) /\ Len(q) \in Nat
  BY DEF CurveTold
<1>6. /\ d \in Seq(Point) /\ Len(d) = Len(q) + 1 /\ d[Len(q) + 1] = p
      /\ \A k \in 1 .. Len(q) : d[k] = q[k]
  OBVIOUS
<1> HIDE DEF d, D
<1>7. IsPoint(p, Len(q) + 1, s, m, c, i)
  <2>1. EquityAfter(s, c, S \cup {i}) = EquityAfter(s, c, S) + NetPnl(s[i], c)
    BY <1>1, TradeAdds DEF D
  <2> QED
    BY <1>3, <1>4, <1>5, <2>1 DEF IsPoint
<1>8. \A k \in 2 .. Len(d) : \E j \in S \cup {i} : IsPoint(d[k], k, s, m, c, j)
  <2> TAKE k \in 2 .. Len(d)
  <2>1. CASE k = Len(q) + 1
    BY <1>6, <1>7, <2>1
  <2>2. CASE k # Len(q) + 1
    <3>1. k \in 2 .. Len(q) /\ d[k] = q[k]
      BY <1>5, <1>6, <2>2
    <3> QED
      BY <3>1 DEF CurveTold
  <2> QED
    BY <2>1, <2>2
<1>9. d[1] = q[1]
  BY <1>4, <1>5, <1>6
<1> QED
  BY <1>4, <1>5, <1>6, <1>8, <1>9 DEF CurveTold, d

\* No trade is entered before the first day.
LEMMA FirstDayIs ==
  ASSUME NEW s, IsFiniteSet(DOMAIN s), \A i \in DOMAIN s : s[i] \in HistoricalTrade
  PROVE  /\ \A i \in DOMAIN s : FirstEntryDay(s) <= s[i].entry
         /\ DOMAIN s # {} => FirstEntryDay(s) \in Nat /\ \E i \in DOMAIN s : FirstEntryDay(s) = s[i].entry
<1> DEFINE entries == [i \in DOMAIN s |-> s[i].entry]
           days == {entries[i] : i \in DOMAIN s}
<1>1. \A i \in DOMAIN s : entries[i] \in Nat /\ entries[i] = s[i].entry
  BY DEF HistoricalTrade
<1>2. FirstEntryDay(s) = Min(days)
  BY DEF FirstEntryDay
<1> HIDE DEF entries
<1>3. IsFiniteSet(days) /\ days \subseteq Int
  BY <1>1, ImageFinite
<1>4. DOMAIN s # {} => days # {}
  OBVIOUS
<1>5. \A i \in DOMAIN s : entries[i] \in days
  OBVIOUS
<1>6. \A d \in days : \E i \in DOMAIN s : d = entries[i]
  OBVIOUS
<1> HIDE DEF days
<1>7. DOMAIN s # {} => Min(days) \in days /\ \A d \in days : Min(days) <= d
  BY <1>3, <1>4, SmallestOf
<1> QED
  BY <1>1, <1>2, <1>5, <1>6, <1>7

\* Days of a curve do not go back.
DaysRise(q) == \A l \in DOMAIN q : \A k \in 1 .. l : q[k].day <= q[l].day

\* Later points of a curve are of later days.
LEMMA CurveRises ==
  ASSUME NEW s, Sampled(s), NEW m, NEW c, NEW S, S \subseteq Executed(s, m),
         NEW q \in Seq(Point), CurveTold(q, s, m, c, S)
  PROVE  DaysRise(q)
<1> DEFINE D == Executed(s, m)
<1>1. D \subseteq DOMAIN s /\ IsFiniteSet(D)
  BY ExecutedIn, FS_Subset DEF Sampled
<1>2. Orders(Closing(s), D)
  BY <1>1, SampleOrders, OrdersPart
<1>3. Len(q) \in Nat /\ DOMAIN q = 1 .. Len(q)
  OBVIOUS
<1>4. ASSUME NEW k \in 2 .. Len(q), NEW l \in 2 .. Len(q), k <= l
      PROVE  q[k].day <= q[l].day
  <2>1. PICK i \in S : IsPoint(q[k], k, s, m, c, i)
    BY DEF CurveTold
  <2>2. PICK j \in S : IsPoint(q[l], l, s, m, c, j)
    BY DEF CurveTold
  <2>3. Cardinality(UpTo(Closing(s), D, i)) <= Cardinality(UpTo(Closing(s), D, j))
    BY <1>4, <2>1, <2>2 DEF IsPoint, ClosedBy
  <2>4. i = j \/ <<i, j>> \in Closing(s)
    BY <1>1, <1>2, <2>3, RanksTell
  <2>5. s[i].exit \in Nat
    BY <1>1 DEF Sampled, HistoricalTrade
  <2>6. s[i].exit <= s[j].exit
    BY <1>1, <2>4, <2>5, SampleOrders
  <2> QED
    BY <2>1, <2>2, <2>6 DEF IsPoint
<1>5. ASSUME NEW l \in 2 .. Len(q) PROVE q[1].day <= q[l].day
  <2>1. PICK j \in S : IsPoint(q[l], l, s, m, c, j)
    BY DEF CurveTold
  <2>2. /\ j \in DOMAIN s /\ s[j] \in HistoricalTrade /\ Valid(s[j])
        /\ s[j].entry \in Nat /\ s[j].exit \in Nat /\ s[j].entry <= s[j].exit
    BY <1>1 DEF Sampled, HistoricalTrade, Valid
  <2>3. FirstEntryDay(s) <= s[j].entry /\ FirstEntryDay(s) \in Nat
    BY <2>2, FirstDayIs DEF Sampled
  <2>4. q[1].day = FirstEntryDay(s) /\ q[l].day = s[j].exit
    BY <2>1 DEF CurveTold, IsPoint
  <2> QED
    BY <2>2, <2>3, <2>4
<1>6. \A l \in 1 .. Len(q) : \A k \in 1 .. l : q[k].day <= q[l].day
  <2> TAKE l \in 1 .. Len(q)
  <2> TAKE k \in 1 .. l
  <2>1. CASE k = l
    <3>1. q[l] \in Point
      OBVIOUS
    <3> QED
      BY <2>1, <3>1 DEF Point
  <2>2. CASE k # l /\ k = 1
    BY <1>3, <1>5, <2>2
  <2>3. CASE k # l /\ k # 1
    BY <1>3, <1>4, <2>3
  <2> QED
    BY <2>1, <2>2, <2>3
<1> QED
  BY <1>3, <1>6 DEF DaysRise

-----------------------------------------------------------------------------
(* What each scenario runs on, and what its report tells *)

\* Scenario n runs on sample s at costs c.
Plays(n, s, c) ==
  \/ n = 1 /\ s = history /\ c = BaseCosts
  \/ n = 2 /\ s = history /\ c = [BaseCosts EXCEPT !.slippage = 2 * @]
  \/ n = 3 /\ s = history /\ c = [BaseCosts EXCEPT !.slippage = 3 * @]
  \/ n = 4 /\ s = WithoutBest /\ c = BaseCosts
  \/ n = 5 /\ c = BaseCosts
     /\ \E order \in Shuffles :
          s = [i \in DOMAIN history |-> Moved(history[i], history[order[i]].entry)]
  \/ n = 6 /\ s = history /\ c = SensitivityCosts

\* What a report tells: sums over the executed trades, and their curve.
RunTold(r, c) ==
  LET done == Executed(r.sample, mode) IN
  /\ r.executed = Cardinality(done)
  /\ r.equity = EquityAfter(r.sample, c, done)
  /\ r.sums = TotalsOf(r.sample, c, done)
  /\ CurveTold(r.curve, r.sample, mode, c, done)

\* Every report tells of the scenario of its number.
ReportsTold ==
  /\ phase = "load" \/ history = <<>> => reports = <<>>
  /\ \A n \in DOMAIN reports :
       \E c \in CostRecord : Plays(n, reports[n].sample, c) /\ RunTold(reports[n], c)

\* The trades closed so far, and what the walk tells of them.
Closed == Executed(sample, mode) \ todo
WalkTold ==
  phase = "walk" =>
    /\ todo \subseteq Executed(sample, mode)
    /\ \A i \in Closed, j \in todo : <<i, j>> \in Closing(sample)
    /\ walk.equity = EquityAfter(sample, costs, Closed)
    /\ sums = TotalsOf(sample, costs, Closed)
    /\ CurveTold(curve, sample, mode, costs, Closed)
    /\ Plays(Len(reports) + 1, sample, costs)

\* The invariant: reports and walk tell the sums and the curve of their trades.
ToldInv == TypeOK /\ ReportsTold /\ WalkTold

\* What a scenario runs on is settled with the file and the mode.
LEMMA SamePlay ==
  ASSUME history' = history, mode' = mode, NEW n, NEW s, NEW c
  PROVE  Plays(n, s, c)' <=> Plays(n, s, c)
<1>1. WithoutBest' = WithoutBest
  BY DEF WithoutBest, Executed, Selected, Ahead
<1>2. Shuffles' = Shuffles
  BY DEF Shuffles
<1> QED
  BY <1>1, <1>2 DEF Plays

\* A report tells the same as long as the mode is.
LEMMA SameTold ==
  ASSUME mode' = mode, NEW r, NEW c
  PROVE  RunTold(r, c)' <=> RunTold(r, c)
BY DEF RunTold

\* Reports go on telling what they told.
LEMMA ReportsKeepTelling ==
  ASSUME ReportsTold, phase' = "load" => reports' = <<>>, reports' = reports,
         reports = <<>> \/ (history' = history /\ mode' = mode)
  PROVE  ReportsTold'
<1>1. CASE reports = <<>>
  BY <1>1 DEF ReportsTold
<1>2. CASE history' = history /\ mode' = mode
  <2>1. PICK q : q = reports
    OBVIOUS
  <2>2. ASSUME NEW n \in DOMAIN q
        PROVE  \E c \in CostRecord : Plays(n, q[n].sample, c)' /\ RunTold(q[n], c)'
    <3>1. PICK c \in CostRecord : Plays(n, q[n].sample, c) /\ RunTold(q[n], c)
      BY <2>1, <2>2 DEF ReportsTold
    <3>2. PICK r, s : r = q[n] /\ s = q[n].sample
      OBVIOUS
    <3>3. Plays(n, s, c)' /\ RunTold(r, c)'
      BY <1>2, <3>1, <3>2, SamePlay, SameTold
    <3> QED
      BY <3>2, <3>3
  <2>3. reports' = q
    BY <2>1
  <2> QED
    BY <2>2, <2>3 DEF ReportsTold
<1> QED
  BY <1>1, <1>2

\* A scenario begins with nothing closed.
LEMMA BeginTold ==
  ASSUME ToldInv, phase \in {"load", "next"}, NEW s, IsSample(s), NEW m \in Modes,
         NEW c \in CostRecord, Begin(s, m, c), phase = "load" \/ m = mode,
         Plays(Len(reports) + 1, s, c)'
  PROVE  ReportsTold' /\ WalkTold'
<1>1. /\ sample' = s /\ costs' = c /\ mode' = m /\ reports' = reports /\ history' = history
      /\ phase' = "raised" \/ phase' = "walk"
  BY DEF Begin
<1>2. ReportsTold'
  BY <1>1, ReportsKeepTelling DEF ToldInv, ReportsTold
<1>3. ASSUME phase' = "walk" PROVE WalkTold'
  <2>1. /\ todo' = Executed(s, m) /\ walk' = NewWalk(s) /\ sums' = NoSums
        /\ curve' = <<[day |-> FirstEntryDay(s), equity |-> StartingEquity]>>
    BY <1>3 DEF Begin
  <2>2. Closed' = {}
    BY <1>1, <2>1 DEF Closed
  <2>3. CurveTold(curve', s, m, c, {})
    <3>1. Len(curve') = 1 /\ curve'[1] = [day |-> FirstEntryDay(s), equity |-> StartingEquity]
      BY <2>1
    <3> QED
      BY <3>1, FS_EmptySet DEF CurveTold
  <2>4. walk'.equity = EquityAfter(s, c, {}) /\ sums' = TotalsOf(s, c, {})
    BY <2>1, NothingAdded DEF NewWalk
  <2>5. Plays(Len(reports) + 1, s, c)'
    OBVIOUS
  <2> QED
    BY <1>1, <2>1, <2>2, <2>3, <2>4, <2>5 DEF WalkTold
<1> QED
  BY <1>1, <1>2, <1>3 DEF WalkTold

\* The samples of the scenarios are finite and valid.
LEMMA PlaysSampled ==
  ASSUME TypeOK, history # <<>>, NEW n, NEW s, NEW c, Plays(n, s, c)
  PROVE  Sampled(s) /\ IsSample(s) /\ c \in CostRecord
<1>1. IsSample(s)
  BY FileIsSample, WithoutBestIsSample, ShuffledIsSample DEF Plays
<1>2. Sampled(s)
  BY <1>1, SamplesFinite DEF IsSample
<1>3. c \in CostRecord
  <2>1. 2 \in Nat /\ 3 \in Nat
    OBVIOUS
  <2> QED
    BY <2>1, CostsType DEF Plays, BaseCosts, SensitivityCosts
<1> QED
  BY <1>1, <1>2, <1>3

\* A trade that is closed adds what it earned and its point of the curve.
LEMMA CloseTold ==
  ASSUME ToldInv, NEW i \in todo, CloseTrade(i)
  PROVE  ReportsTold' /\ WalkTold'
<1>1. PICK s, m, c, S : s = sample /\ m = mode /\ c = costs /\ S = Closed
  OBVIOUS
<1> DEFINE e == walk.equity + NetPnl(s[i], c)
           p == [day |-> s[i].exit, equity |-> e]
<1>2. /\ phase = "walk" /\ phase' = "walk" /\ sample' = s /\ mode' = m /\ costs' = c
      /\ reports' = reports /\ history' = history /\ todo' = todo \ {i}
      /\ curve' = Append(curve, p) /\ sums' = Totalled(s[i], c)
      /\ \A j \in todo \ {i} : ClosesBefore(s, i, j)
  BY <1>1 DEF CloseTrade
<1>3. /\ todo \subseteq Executed(s, m)
      /\ \A k \in S, j \in todo : <<k, j>> \in Closing(s)
      /\ walk.equity = EquityAfter(s, c, S) /\ sums = TotalsOf(s, c, S)
      /\ CurveTold(curve, s, m, c, S) /\ Plays(Len(reports) + 1, s, c)
  BY <1>1, <1>2 DEF ToldInv, WalkTold
<1>4. Sampled(s) /\ c \in CostRecord /\ curve \in Seq(Point) /\ walk \in WalkRecord
  <2>1. history # <<>> /\ curve \in Seq(Point) /\ walk \in WalkRecord
    BY <1>2 DEF ToldInv, TypeOK, WalkRecord
  <2> QED
    BY <1>3, <2>1, PlaysSampled DEF ToldInv
<1>5. S = Executed(s, m) \ todo
  BY <1>1 DEF Closed
<1>6. Executed(s, m) \subseteq DOMAIN s
  BY ExecutedIn
<1>7. i \in Executed(s, m) /\ i \in DOMAIN s /\ i \notin S /\ S \subseteq DOMAIN s
  BY <1>3, <1>5, <1>6
<1>8. s[i] \in HistoricalTrade /\ NetPnl(s[i], c) \in Int
  BY <1>4, <1>7, AmountsType DEF Sampled
<1>9. p \in Point /\ p.day = s[i].exit /\ p.equity = EquityAfter(s, c, S) + NetPnl(s[i], c)
  <2>1. walk.equity \in Int
    BY <1>4 DEF WalkRecord
  <2>2. s[i].exit \in Nat
    BY <1>8 DEF HistoricalTrade
  <2>3. e \in Int
    BY <1>8, <2>1
  <2>4. p \in Point
    BY <2>2, <2>3 DEF Point
  <2> QED
    BY <1>3, <2>4
<1>10. \A j \in Executed(s, m) \ S : j # i => <<i, j>> \in Closing(s)
  BY <1>2, <1>5, <1>6, <1>7, ClosingIs
<1>11. \A j \in S : <<j, i>> \in Closing(s)
  BY <1>3
<1>12. walk'.equity = EquityAfter(s, c, S \cup {i})
  <2>1. walk'.equity = walk.equity + NetPnl(s[i], c)
    BY <1>1, <1>4, Zenon DEF CloseTrade, Recovered, Underwater, WalkRecord
  <2>2. EquityAfter(s, c, S \cup {i}) = EquityAfter(s, c, S) + NetPnl(s[i], c)
    BY <1>4, <1>7, TradeAdds
  <2> QED
    BY <1>3, <2>1, <2>2
<1>13. sums' = TotalsOf(s, c, S \cup {i})
  BY <1>2, <1>3, <1>4, <1>7, TradeAdds, Zenon DEF Totalled
<1> HIDE DEF p
<1>14. CurveTold(curve', s, m, c, S \cup {i})
  <2>1. S \subseteq Executed(s, m)
    BY <1>5
  <2> QED
    BY <1>2, <1>3, <1>4, <1>7, <1>9, <1>10, <1>11, <2>1, CurveGoesOn
<1>15. Closed' = S \cup {i}
  BY <1>2, <1>3, <1>5 DEF Closed
<1>16. ReportsTold'
  BY <1>1, <1>2, ReportsKeepTelling DEF ToldInv
<1>17. Plays(Len(reports) + 1, s, c)'
  <2>1. PICK n : n = Len(reports) + 1
    OBVIOUS
  <2>2. Plays(n, s, c)'
    BY <1>1, <1>2, <1>3, <2>1, SamePlay
  <2>3. n = Len(reports') + 1
    BY <1>2, <2>1
  <2> QED
    BY <2>2, <2>3
<1>18. todo' \subseteq Executed(s, m)
  BY <1>2, <1>3
<1>19. \A k \in S \cup {i}, j \in todo' : <<k, j>> \in Closing(s)
  BY <1>2, <1>3, <1>5, <1>10
<1> QED
  BY <1>2, <1>12, <1>13, <1>14, <1>15, <1>16, <1>17, <1>18, <1>19 DEF WalkTold

\* A run that is over tells all of it.
LEMMA FinishTold ==
  ASSUME ToldInv, FinishRun
  PROVE  ReportsTold' /\ WalkTold'
<1> DEFINE r == [equity |-> walk.equity, fall |-> walk.fall, from |-> walk.from,
                 recovery |-> Recovery, sums |-> sums, sample |-> sample, curve |-> curve,
                 selected |-> Cardinality(Selected(sample, mode)),
                 executed |-> Cardinality(Executed(sample, mode))]
<1>1. /\ phase = "walk" /\ phase' = "next" /\ todo = {} /\ reports' = Append(reports, r)
      /\ UNCHANGED <<history, mode, sample, costs, todo, walk, sums, curve>>
  BY DEF FinishRun
<1>2. /\ ReportOK(r) /\ r.sample = sample /\ r.equity = walk.equity /\ r.sums = sums
      /\ r.curve = curve /\ r.executed = Cardinality(Executed(sample, mode))
  BY DEF ToldInv, TypeOK, ReportOK
<1>3. Closed = Executed(sample, mode)
  BY <1>1 DEF Closed
<1> HIDE DEF r
<1>4. AreReports(reports)
  BY Zenon DEF ToldInv, TypeOK, AreReports
<1>5. /\ DOMAIN reports' = DOMAIN reports \cup {Len(reports) + 1}
      /\ reports'[Len(reports) + 1] = r
      /\ \A n \in DOMAIN reports : reports'[n] = reports[n]
  BY <1>1, <1>2, <1>4, ReportAppended
<1>6. RunTold(r, costs) /\ Plays(Len(reports) + 1, r.sample, costs) /\ costs \in CostRecord
  BY <1>1, <1>2, <1>3 DEF ToldInv, WalkTold, RunTold, TypeOK, CostRecord
<1>7. PICK q : q = reports'
  OBVIOUS
<1>8. ASSUME NEW n \in DOMAIN q
      PROVE  \E c \in CostRecord : Plays(n, q[n].sample, c)' /\ RunTold(q[n], c)'
  <2>1. PICK c \in CostRecord, x \in {q[n]} : Plays(n, x.sample, c) /\ RunTold(x, c)
    BY <1>5, <1>6, <1>7, <1>8 DEF ToldInv, ReportsTold
  <2>2. PICK s : s = x.sample
    OBVIOUS
  <2>3. Plays(n, s, c)' /\ RunTold(x, c)'
    BY <1>1, <2>1, <2>2, SamePlay, SameTold
  <2> QED
    BY <2>1, <2>2, <2>3
<1>9. ReportsTold'
  <2>1. history' # <<>> /\ phase' # "load"
    BY <1>1 DEF ToldInv, TypeOK
  <2> QED
    BY <1>7, <1>8, <2>1 DEF ReportsTold
<1> QED
  BY <1>1, <1>9 DEF WalkTold

\* Whichever scenario begins, it is the next one.
LEMMA ScenarioTold ==
  ASSUME ToldInv, Scenario
  PROVE  ReportsTold' /\ WalkTold'
<1>1. phase \in {"load", "next"} /\ history # <<>> /\ TypeOK
  BY ScenarioBegins DEF ToldInv
<1>2. /\ IsSample(history) /\ IsSample(WithoutBest) /\ mode \in Modes
      /\ BaseCosts \in CostRecord /\ SensitivityCosts \in CostRecord
      /\ \A k \in Nat : [BaseCosts EXCEPT !.slippage = k * @] \in CostRecord
  BY <1>1, FileIsSample, WithoutBestIsSample, CostsType DEF TypeOK, BaseCosts, SensitivityCosts
<1>3. PICK h, w, n : h = history /\ w = WithoutBest /\ n = Len(reports) + 1
  OBVIOUS
<1>4. ASSUME NEW s, NEW m \in Modes, NEW c, Begin(s, m, c), IsSample(s), c \in CostRecord,
             phase = "load" \/ m = mode,
             mode' = m /\ history' = history => Plays(n, s, c)'
      PROVE  ReportsTold' /\ WalkTold'
  <2>1. mode' = m /\ history' = history /\ n = Len(reports') + 1
    BY <1>3, <1>4 DEF Begin
  <2>2. Plays(Len(reports) + 1, s, c)'
    BY <1>4, <2>1
  <2> QED
    BY <1>1, <1>4, <2>2, BeginTold
<1>5. ASSUME NEW m \in Modes, Base(m) PROVE ReportsTold' /\ WalkTold'
  <2>1. phase = "load" /\ Begin(h, m, BaseCosts) /\ reports = <<>>
    BY <1>3, <1>5 DEF Base, ToldInv, ReportsTold
  <2>2. n = 1
    BY <1>3, <2>1
  <2>3. history' = history => Plays(n, h, BaseCosts)'
    BY <1>3, <2>2 DEF Plays
  <2> QED
    BY <1>2, <1>3, <1>4, <2>1, <2>3
<1>6. ASSUME NEW s, NEW c, Plays(n, s, c), Begin(s, mode, c), phase = "next"
      PROVE  ReportsTold' /\ WalkTold'
  <2>1. IsSample(s) /\ c \in CostRecord
    BY <1>1, <1>6, PlaysSampled
  <2>2. PICK m : m = mode
    OBVIOUS
  <2>3. mode' = m /\ history' = history => Plays(n, s, c)'
    BY <1>6, <2>2, SamePlay
  <2> QED
    BY <1>2, <1>4, <1>6, <2>1, <2>2, <2>3
<1>7. CASE DoubledSlippage
  <2>1. n = 2 /\ phase = "next" /\ Begin(history, mode, [BaseCosts EXCEPT !.slippage = 2 * @])
    BY <1>3, <1>7 DEF DoubledSlippage, NextScenario
  <2>2. Plays(n, history, [BaseCosts EXCEPT !.slippage = 2 * @])
    BY <2>1 DEF Plays
  <2> QED
    BY <1>6, <2>1, <2>2
<1>8. CASE TripledSlippage
  <2>1. n = 3 /\ phase = "next" /\ Begin(history, mode, [BaseCosts EXCEPT !.slippage = 3 * @])
    BY <1>3, <1>8 DEF TripledSlippage, NextScenario
  <2>2. Plays(n, history, [BaseCosts EXCEPT !.slippage = 3 * @])
    BY <2>1 DEF Plays
  <2> QED
    BY <1>6, <2>1, <2>2
<1>9. CASE RemoveBest
  <2>1. n = 4 /\ phase = "next" /\ Begin(WithoutBest, mode, BaseCosts)
    BY <1>3, <1>9 DEF RemoveBest, NextScenario
  <2>2. Plays(n, WithoutBest, BaseCosts)
    BY <2>1 DEF Plays
  <2> QED
    BY <1>6, <2>1, <2>2
<1>10. CASE RandomizedEntries
  <2>1. PICK order \in Shuffles :
          Begin([i \in DOMAIN history |-> Moved(history[i], history[order[i]].entry)], mode, BaseCosts)
    BY <1>10 DEF RandomizedEntries
  <2>2. n = 5 /\ phase = "next"
    BY <1>3, <1>10 DEF RandomizedEntries, NextScenario
  <2>3. Plays(n, [i \in DOMAIN history |-> Moved(history[i], history[order[i]].entry)], BaseCosts)
    BY <2>2 DEF Plays
  <2> QED
    BY <1>6, <2>1, <2>2, <2>3
<1>11. CASE ParameterSensitivity
  <2>1. n = 6 /\ phase = "next" /\ Begin(history, mode, SensitivityCosts)
    BY <1>3, <1>11 DEF ParameterSensitivity, NextScenario
  <2>2. Plays(n, history, SensitivityCosts)
    BY <2>1 DEF Plays
  <2> QED
    BY <1>6, <2>1, <2>2
<1> QED
  BY <1>5, <1>7, <1>8, <1>9, <1>10, <1>11 DEF Scenario

\* Every step keeps the reports and the walk telling the truth.
LEMMA NextTold == ToldInv /\ [Next]_vars => ToldInv'
<1> SUFFICES ASSUME ToldInv, [Next]_vars PROVE ToldInv'
  OBVIOUS
<1>1. TypeOK'
  BY StepType DEF ToldInv
<1>2. ASSUME NEW t \in Rows, LoadRow(t) PROVE ReportsTold' /\ WalkTold'
  <2>1. phase = "load" /\ phase' \in {"load", "raised"} /\ reports' = reports /\ reports = <<>>
    BY <1>2 DEF LoadRow, ToldInv, ReportsTold
  <2> QED
    BY <2>1, ReportsKeepTelling DEF ToldInv, WalkTold
<1>3. CASE EmptyFile
  <2>1. phase = "load" /\ phase' = "raised" /\ reports' = reports /\ reports = <<>>
    BY <1>3 DEF EmptyFile, ToldInv, ReportsTold
  <2> QED
    BY <1>1, <2>1, ReportsKeepTelling DEF ToldInv, WalkTold
<1>4. CASE Scenario
  BY <1>1, <1>4, ScenarioTold DEF ToldInv
<1>5. ASSUME NEW i \in todo, CloseTrade(i) PROVE ReportsTold' /\ WalkTold'
  BY <1>5, CloseTold
<1>6. CASE FinishRun
  BY <1>1, <1>6, FinishTold DEF ToldInv
<1>7. CASE UNCHANGED vars
  <2>1. UNCHANGED <<history, mode, phase, sample, costs, todo, walk, sums, curve, reports>>
    BY <1>7 DEF vars
  <2>2. ReportsTold'
    BY <2>1, ReportsKeepTelling DEF ToldInv, ReportsTold
  <2>3. ASSUME phase = "walk" PROVE Plays(Len(reports) + 1, sample, costs)'
    <3>1. PICK n, s, c : n = Len(reports) + 1 /\ s = sample /\ c = costs
      OBVIOUS
    <3>2. Plays(n, s, c)'
      BY <2>1, <2>3, <3>1, SamePlay DEF ToldInv, WalkTold
    <3>3. n = Len(reports') + 1 /\ s = sample' /\ c = costs'
      BY <2>1, <3>1
    <3> QED
      BY <3>2, <3>3
  <2>4. WalkTold'
    BY <2>1, <2>3 DEF ToldInv, WalkTold, Closed
  <2> QED
    BY <1>1, <2>2, <2>4 DEF ToldInv
<1> QED
  BY <1>1, <1>2, <1>3, <1>4, <1>5, <1>6, <1>7 DEF ToldInv, Next, Scenario

\* There is nothing to tell at first.
LEMMA InitTold == Init => ToldInv
BY InitType DEF Init, ToldInv, ReportsTold, WalkTold

-----------------------------------------------------------------------------
(* Shuffled dates *)

\* A report and the scenario it is of.
LEMMA ReportOf ==
  ASSUME ToldInv, NEW n \in DOMAIN reports
  PROVE  /\ history # <<>> /\ 1 \in DOMAIN reports /\ ReportOK(reports[n])
         /\ \E c \in CostRecord :
              /\ Plays(n, reports[n].sample, c) /\ RunTold(reports[n], c)
              /\ Sampled(reports[n].sample)
<1>1. /\ Len(reports) \in Nat /\ DOMAIN reports = 1 .. Len(reports)
      /\ ReportOK(reports[n])
  <2>1. AreReports(reports)
    BY Zenon DEF ToldInv, TypeOK, AreReports
  <2> QED
    BY <2>1, Zenon DEF AreReports
<1>2. 1 \in DOMAIN reports
  BY <1>1
<1>3. history # <<>>
  BY <1>2 DEF ToldInv, ReportsTold
<1>4. PICK c \in CostRecord : Plays(n, reports[n].sample, c) /\ RunTold(reports[n], c)
  BY DEF ToldInv, ReportsTold
<1>5. Sampled(reports[n].sample)
  BY <1>3, <1>4, PlaysSampled DEF ToldInv
<1> QED
  BY <1>1, <1>2, <1>3, <1>4, <1>5

\* The base run is that of the file.
LEMMA BaseReport ==
  ASSUME ToldInv, DOMAIN reports # {}
  PROVE  /\ reports[1].sample = history /\ RunTold(reports[1], BaseCosts)
         /\ Sampled(history) /\ BaseCosts \in CostRecord /\ ReportOK(reports[1])
<1>1. 1 \in DOMAIN reports
  BY ReportOf
<1>2. PICK c \in CostRecord : Plays(1, reports[1].sample, c) /\ RunTold(reports[1], c)
                              /\ Sampled(reports[1].sample)
  BY <1>1, ReportOf
<1>3. reports[1].sample = history /\ c = BaseCosts
  BY <1>2 DEF Plays
<1> QED
  BY <1>1, <1>2, <1>3, ReportOf

\* A trade on other days earns what it earned.
LEMMA MovedEarns ==
  ASSUME NEW t \in HistoricalTrade, NEW d, NEW c, NEW m
  PROVE  LET u == Moved(t, d) IN
         /\ u.entry = d
         /\ PassesModeFilter(u, m) <=> PassesModeFilter(t, m)
         /\ u.fillable = t.fillable
         /\ NetPnl(u, c) = NetPnl(t, c) /\ GrossPnl(u) = GrossPnl(t)
         /\ SlippageDrag(u, c) = SlippageDrag(t, c) /\ CommissionDrag(u, c) = CommissionDrag(t, c)
<1> DEFINE u == Moved(t, d)
<1>1. /\ u.entry = d /\ u.contracts = t.contracts /\ u.credit = t.credit /\ u.debit = t.debit
      /\ u.regime = t.regime /\ u.quality = t.quality /\ u.risk = t.risk /\ u.kill = t.kill
      /\ u.scanner = t.scanner /\ u.eligibility = t.eligibility /\ u.fillable = t.fillable
  BY DEF Moved, HistoricalTrade
<1> HIDE DEF u
<1>2. PassesModeFilter(u, m) <=> PassesModeFilter(t, m)
  BY <1>1 DEF PassesModeFilter
<1>3. /\ NetPnl(u, c) = NetPnl(t, c) /\ GrossPnl(u) = GrossPnl(t)
      /\ SlippageDrag(u, c) = SlippageDrag(t, c) /\ CommissionDrag(u, c) = CommissionDrag(t, c)
  BY <1>1 DEF NetPnl, GrossPnl, SlippageDrag, CommissionDrag, EntryFill, ExitFill
<1> QED
  BY <1>1, <1>2, <1>3 DEF u

\* Two samples with the same amounts have the same totals.
LEMMA SameAmountsSum ==
  ASSUME NEW s, NEW t, NEW c, NEW S, IsFiniteSet(S), S \subseteq DOMAIN s, S \subseteq DOMAIN t,
         \A i \in S : /\ NetPnl(t[i], c) = NetPnl(s[i], c) /\ GrossPnl(t[i]) = GrossPnl(s[i])
                      /\ SlippageDrag(t[i], c) = SlippageDrag(s[i], c)
                      /\ CommissionDrag(t[i], c) = CommissionDrag(s[i], c)
  PROVE  TotalsOf(t, c, S) = TotalsOf(s, c, S) /\ EquityAfter(t, c, S) = EquityAfter(s, c, S)
<1>1. /\ \A i \in S : Net(t, c)[i] = Net(s, c)[i]
      /\ \A i \in S : Gross(t)[i] = Gross(s)[i]
      /\ \A i \in S : Slipped(t, c)[i] = Slipped(s, c)[i]
      /\ \A i \in S : Paid(t, c)[i] = Paid(s, c)[i]
      /\ \A i \in S : Won(t, c)[i] = Won(s, c)[i]
      /\ \A i \in S : Lost(t, c)[i] = Lost(s, c)[i]
      /\ \A i \in S : Win(t, c)[i] = Win(s, c)[i]
  BY DEF Net, Gross, Slipped, Paid, Won, Lost, Win
<1>2. /\ SumOver(Net(t, c), S) = SumOver(Net(s, c), S)
      /\ SumOver(Gross(t), S) = SumOver(Gross(s), S)
      /\ SumOver(Slipped(t, c), S) = SumOver(Slipped(s, c), S)
      /\ SumOver(Paid(t, c), S) = SumOver(Paid(s, c), S)
  BY <1>1, SumSame DEF SumOver
<1>3. /\ SumOver(Won(t, c), S) = SumOver(Won(s, c), S)
      /\ SumOver(Lost(t, c), S) = SumOver(Lost(s, c), S)
      /\ SumOver(Win(t, c), S) = SumOver(Win(s, c), S)
  BY <1>1, SumSame DEF SumOver
<1> QED
  BY <1>2, <1>3 DEF TotalsOf, EquityAfter

\* So do the same trades.
LEMMA SameTradesSum ==
  ASSUME NEW s, NEW t, NEW c, NEW S, IsFiniteSet(S), S \subseteq DOMAIN s, S \subseteq DOMAIN t,
         \A i \in S : s[i] = t[i]
  PROVE  EquityAfter(s, c, S) = EquityAfter(t, c, S)
<1>1. \A i \in S : /\ NetPnl(t[i], c) = NetPnl(s[i], c) /\ GrossPnl(t[i]) = GrossPnl(s[i])
                   /\ SlippageDrag(t[i], c) = SlippageDrag(s[i], c)
                   /\ CommissionDrag(t[i], c) = CommissionDrag(s[i], c)
  OBVIOUS
<1> QED
  BY <1>1, SameAmountsSum

\* Shuffled dates leave the executed trades, what they earn and the first day.
LEMMA ShuffledEarns ==
  ASSUME Sampled(history), NEW order \in Shuffles, NEW m, NEW c,
         NEW s, s = [i \in DOMAIN history |-> Moved(history[i], history[order[i]].entry)]
  PROVE  LET D == Executed(history, m) IN
         /\ Executed(s, m) = D
         /\ TotalsOf(s, c, D) = TotalsOf(history, c, D)
         /\ FirstEntryDay(s) = FirstEntryDay(history)
<1> DEFINE D == Executed(history, m)
<1>1. DOMAIN s = DOMAIN history /\ \A i \in DOMAIN s : s[i] = Moved(history[i], history[order[i]].entry)
  OBVIOUS
<1>2. \A i \in DOMAIN history :
        /\ s[i].entry = history[order[i]].entry
        /\ PassesModeFilter(s[i], m) <=> PassesModeFilter(history[i], m)
        /\ s[i].fillable = history[i].fillable
        /\ NetPnl(s[i], c) = NetPnl(history[i], c) /\ GrossPnl(s[i]) = GrossPnl(history[i])
        /\ SlippageDrag(s[i], c) = SlippageDrag(history[i], c)
        /\ CommissionDrag(s[i], c) = CommissionDrag(history[i], c)
  BY <1>1, MovedEarns DEF Sampled
<1>3. Executed(s, m) = D
  BY <1>1, <1>2 DEF Executed, Selected
<1>4. D \subseteq DOMAIN history /\ IsFiniteSet(D)
  BY ExecutedIn, FS_Subset DEF Sampled
<1>5. TotalsOf(s, c, D) = TotalsOf(history, c, D)
  BY <1>1, <1>2, <1>4, SameAmountsSum
<1>6. {s[i].entry : i \in DOMAIN s} = {history[i].entry : i \in DOMAIN history}
  <2>1. order \in [DOMAIN history -> DOMAIN history]
        /\ \A i, j \in DOMAIN history : order[i] = order[j] => i = j
    BY DEF Shuffles, IsInjective
  <2>2. order \in Injection(DOMAIN history, DOMAIN history)
    BY <2>1 DEF Injection, IsInjective
  <2>3. order \in Surjection(DOMAIN history, DOMAIN history)
    BY <2>2, FS_Injection DEF Sampled
  <2>4. \A j \in DOMAIN history : \E i \in DOMAIN history : order[i] = j
    BY <2>3 DEF Surjection
  <2> QED
    BY <1>1, <1>2, <2>1, <2>4
<1>7. FirstEntryDay(s) = FirstEntryDay(history)
  BY <1>6 DEF FirstEntryDay
<1> QED
  BY <1>3, <1>5, <1>7

\* Shuffled entry dates change when trades close, but not what they earn, for any file and
\* whatever the seed.
THEOREM ShufflingKeepsTotals == Spec => []ShuffleKeepsTotals
<1>1. ToldInv => ShuffleKeepsTotals
  <2> SUFFICES ASSUME ToldInv, 5 \in DOMAIN reports
               PROVE  reports[5].sums = reports[1].sums /\ reports[5].curve[1] = reports[1].curve[1]
    BY DEF ShuffleKeepsTotals
  <2>1. /\ reports[1].sample = history /\ RunTold(reports[1], BaseCosts) /\ Sampled(history)
    BY BaseReport
  <2>2. PICK c \in CostRecord : Plays(5, reports[5].sample, c) /\ RunTold(reports[5], c)
    BY ReportOf
  <2>3. PICK s : s = reports[5].sample
    OBVIOUS
  <2>4. c = BaseCosts /\ \E order \in Shuffles :
          s = [i \in DOMAIN history |-> Moved(history[i], history[order[i]].entry)]
    BY <2>2, <2>3 DEF Plays
  <2>5. /\ Executed(s, mode) = Executed(history, mode)
        /\ TotalsOf(s, BaseCosts, Executed(history, mode))
             = TotalsOf(history, BaseCosts, Executed(history, mode))
        /\ FirstEntryDay(s) = FirstEntryDay(history)
    BY <2>1, <2>4, ShuffledEarns
  <2> QED
    BY <2>1, <2>2, <2>3, <2>4, <2>5 DEF RunTold, CurveTold
<1> QED
  BY <1>1, InitTold, NextTold, PTL DEF Spec

-----------------------------------------------------------------------------
(* The best trades removed *)

\* The pairs of trades in the order of their profits.
Ranking == {e \in (DOMAIN history) \X (DOMAIN history) : Ahead(e[1], e[2])}

\* Trades are ranked by profit, one after the other.
LEMMA RankingOrders ==
  ASSUME Sampled(history)
  PROVE  /\ Orders(Ranking, DOMAIN history)
         /\ \A i, j \in DOMAIN history : <<i, j>> \in Ranking <=> Ahead(i, j)
<1>1. \A i, j \in DOMAIN history : <<i, j>> \in Ranking <=> Ahead(i, j)
  BY DEF Ranking
<1>2. Orders(Entering(history), DOMAIN history)
  BY SampleOrders
<1>3. \A i \in DOMAIN history : NetPnl(history[i], BaseCosts) \in Int
  BY AmountsType, CostsType, ConfigAssumption DEF Sampled, BaseCosts
<1>4. PICK net, E, R, dom :
        /\ net = [i \in DOMAIN history |-> NetPnl(history[i], BaseCosts)]
        /\ E = Entering(history) /\ R = Ranking /\ dom = DOMAIN history
  OBVIOUS
<1>5. ASSUME NEW i \in dom, NEW j \in dom
      PROVE  <<i, j>> \in R <=> net[i] > net[j] \/ (net[i] = net[j] /\ <<i, j>> \in E)
  BY <1>1, <1>4, ClosingIs DEF Ahead
<1>6. \A i \in dom : net[i] \in Int
  BY <1>3, <1>4
<1>7. /\ \A i \in dom : <<i, i>> \notin E
      /\ \A i, j \in dom : i = j \/ <<i, j>> \in E \/ <<j, i>> \in E
      /\ \A i, j, k \in dom : <<i, j>> \in E /\ <<j, k>> \in E => <<i, k>> \in E
  BY <1>2, <1>4 DEF Orders
<1>8. ASSUME NEW i \in dom PROVE <<i, i>> \notin R
  BY <1>5, <1>6, <1>7
<1>9. ASSUME NEW i \in dom, NEW j \in dom
      PROVE  i = j \/ <<i, j>> \in R \/ <<j, i>> \in R
  BY <1>5, <1>6, <1>7
<1>10. ASSUME NEW i \in dom, NEW j \in dom, NEW k \in dom, <<i, j>> \in R, <<j, k>> \in R
       PROVE  <<i, k>> \in R
  <2>1. /\ net[i] > net[j] \/ (net[i] = net[j] /\ <<i, j>> \in E)
        /\ net[j] > net[k] \/ (net[j] = net[k] /\ <<j, k>> \in E)
    BY <1>5, <1>10
  <2>2. net[i] > net[k] \/ (net[i] = net[k] /\ <<i, k>> \in E)
    BY <1>6, <1>7, <2>1
  <2> QED
    BY <1>5, <2>2
<1> QED
  BY <1>1, <1>4, <1>8, <1>9, <1>10 DEF Orders

\* No more wins are counted than there are winners.
LEMMA WinsCounted ==
  ASSUME NEW s, Sampled(s), NEW c \in CostRecord, NEW S, S \subseteq DOMAIN s
  PROVE  SumOver(Win(s, c), S) <= Cardinality({i \in S : NetPnl(s[i], c) > 0})
<1> DEFINE W == {i \in S : NetPnl(s[i], c) > 0}
           L == S \ W
<1>1. IsFiniteSet(S)
  BY FS_Subset DEF Sampled
<1>2. IsFiniteSet(W) /\ IsFiniteSet(L)
  <2>1. W \subseteq S /\ L \subseteq S
    OBVIOUS
  <2> QED
    BY <1>1, <2>1, FS_Subset
<1>3. \A i \in W : Win(s, c)[i] \in Int /\ Win(s, c)[i] <= 1
  BY AmountsAre
<1>4. \A i \in L : Win(s, c)[i] \in Int /\ Win(s, c)[i] <= 0
  BY AmountsAre
<1>5. S = W \cup L /\ W \cap L = {}
  OBVIOUS
<1> HIDE DEF W, L
<1>6. PICK f : f = Win(s, c)
  OBVIOUS
<1>7. SumFunctionOnSet(f, W) <= 1 * Cardinality(W)
  BY <1>2, <1>3, <1>6, SumAtMost
<1>8. SumFunctionOnSet(f, L) <= 0 * Cardinality(L)
  BY <1>2, <1>4, <1>6, SumAtMost
<1>9. SumFunctionOnSet(f, W \cup L) = SumFunctionOnSet(f, W) + SumFunctionOnSet(f, L)
  <2>1. \A i \in W \cup L : f[i] \in Int
    BY <1>3, <1>4, <1>6
  <2> QED
    BY <1>2, <1>5, <2>1, SumSplit
<1>10. /\ Cardinality(W) \in Nat /\ Cardinality(L) \in Nat
       /\ SumFunctionOnSet(f, W) \in Int /\ SumFunctionOnSet(f, L) \in Int
  BY <1>2, <1>3, <1>4, <1>6, FS_CardinalityType, SumInt
<1>11. SumFunctionOnSet(f, S) <= Cardinality(W)
  BY <1>5, <1>7, <1>8, <1>9, <1>10
<1> QED
  BY <1>6, <1>11 DEF SumOver, W

\* Winners add up to more than nothing.
LEMMA WinnersAddUp ==
  ASSUME NEW S, IsFiniteSet(S), S # {}, NEW f, \A i \in S : f[i] \in Int /\ f[i] > 0
  PROVE  SumFunctionOnSet(f, S) \in Int /\ SumFunctionOnSet(f, S) > 0
<1>1. PICK x \in S : TRUE
  OBVIOUS
<1>2. SumFunctionOnSet(f, S) = f[x] + SumFunctionOnSet(f, S \ {x})
  BY <1>1, SumTake
<1>3. IsFiniteSet(S \ {x}) /\ \A i \in S \ {x} : f[i] \in Nat
  BY FS_RemoveElement
<1>4. SumFunctionOnSet(f, S \ {x}) \in Nat
  BY <1>3, SumNat
<1> QED
  BY <1>1, <1>2, <1>4

\* At least one trade is removed.
LEMMA RemoveCountType ==
  ASSUME NEW k \in Nat
  PROVE  RemoveCount(k) \in Nat \ {0}
<1>1. PICK a \in Nat : a = k * RemovePct + 99
  BY ConfigAssumption
<1>2. a \div 100 \in Nat
  OBVIOUS
<1>3. Larger(1, a \div 100) \in Nat \ {0}
  BY <1>2 DEF Larger
<1> QED
  BY <1>1, <1>3 DEF RemoveCount

\* The n best trades of D.
Best(D, n) == {i \in D : Cardinality({j \in D : Ahead(j, i)}) < n}

\* When there are at least n winners, the n best trades are n winners.
LEMMA BestAreWinners ==
  ASSUME Sampled(history), NEW D, D \subseteq DOMAIN history, NEW n \in Nat,
         SumOver(Win(history, BaseCosts), D) >= n
  PROVE  /\ Cardinality(Best(D, n)) = n
         /\ \A i \in Best(D, n) : NetPnl(history[i], BaseCosts) > 0
<1> DEFINE W == {i \in D : NetPnl(history[i], BaseCosts) > 0}
<1>1. BaseCosts \in CostRecord
  BY CostsType DEF BaseCosts
<1>2. IsFiniteSet(D) /\ IsFiniteSet(W) /\ Cardinality(D) \in Nat /\ Cardinality(W) \in Nat
      /\ Cardinality(W) <= Cardinality(D)
  <2>1. IsFiniteSet(D)
    BY FS_Subset DEF Sampled
  <2>2. W \subseteq D
    OBVIOUS
  <2> QED
    BY <2>1, <2>2, FS_Subset, FS_CardinalityType
<1>3. n <= Cardinality(W)
  <2>1. PICK x \in Int : x = SumOver(Win(history, BaseCosts), D)
    <3>1. \A i \in D : Win(history, BaseCosts)[i] \in Int
      BY <1>1, AmountsAre
    <3> QED
      BY <1>2, <3>1, SumInt DEF SumOver
  <2>2. x <= Cardinality(W)
    BY <1>1, <2>1, WinsCounted
  <2> QED
    BY <1>2, <2>1, <2>2
<1>4. /\ Orders(Ranking, D)
      /\ \A i, j \in D : <<i, j>> \in Ranking <=> Ahead(i, j)
  BY RankingOrders, OrdersPart
<1>5. Best(D, n) = Foremost(Ranking, D, n)
  <2>1. \A i \in D : Before(Ranking, D, i) = {j \in D : Ahead(j, i)}
    BY <1>4 DEF Before
  <2> QED
    BY <2>1 DEF Best, Foremost
<1>6. Cardinality(Best(D, n)) = n
  <2>1. n <= Cardinality(D)
    BY <1>2, <1>3
  <2>2. Cardinality(Foremost(Ranking, D, n)) = n
    BY <1>2, <1>4, <2>1, FirstMany
  <2> QED
    BY <1>5, <2>2
<1>7. ASSUME NEW i \in Best(D, n), ~(NetPnl(history[i], BaseCosts) > 0)
      PROVE  FALSE
  <2>1. PICK A : A = {j \in D : Ahead(j, i)}
    OBVIOUS
  <2>2. i \in D /\ Cardinality(A) < n
    BY <2>1 DEF Best
  <2>3. \A j \in D : NetPnl(history[j], BaseCosts) \in Int
    BY <1>1, AmountsType DEF Sampled
  <2>4. W \subseteq A
    BY <1>7, <2>1, <2>2, <2>3 DEF Ahead
  <2>5. IsFiniteSet(A)
    BY <1>2, <2>1, FS_Subset
  <2>6. Cardinality(W) <= Cardinality(A) /\ Cardinality(A) \in Nat
    BY <2>4, <2>5, FS_Subset, FS_CardinalityType
  <2> QED
    BY <1>2, <1>3, <2>2, <2>6
<1> QED
  BY <1>6, <1>7

\* When ids tell trades apart and not all are removed, only the best are.
LEMMA OnlyBestRemoved ==
  ASSUME TypeOK, UniqueIds, NEW D, D = Executed(history, mode),
         NEW n, n = RemoveCount(Cardinality(D)), Cardinality(Best(D, n)) = n, Len(history) > n
  PROVE  /\ DOMAIN WithoutBest = DOMAIN history \ Best(D, n)
         /\ \A i \in DOMAIN WithoutBest : WithoutBest[i] = history[i]
         /\ Executed(WithoutBest, mode) = D \ Best(D, n)
<1> DEFINE B == Best(D, n)
           ids == {history[i].id : i \in B}
           remaining == {i \in DOMAIN history : history[i].id \notin ids}
<1>1. B \subseteq DOMAIN history
  BY ExecutedIn DEF Best
<1>2. WithoutBest = IF remaining = {} THEN history ELSE [i \in remaining |-> history[i]]
  BY Zenon DEF WithoutBest, Best
<1> HIDE DEF B
<1>3. remaining = DOMAIN history \ B
  BY <1>1 DEF UniqueIds
<1>4. remaining # {}
  <2> SUFFICES ASSUME remaining = {} PROVE FALSE
    OBVIOUS
  <2>4. history \in Seq(HistoricalTrade)
    BY DEF TypeOK
  <2>1. PICK k \in Nat : k = Len(history) /\ DOMAIN history = 1 .. k
    BY <2>4
  <2>2. B = 1 .. k
    BY <1>1, <1>3, <2>1
  <2>3. Cardinality(1 .. k) = k
    BY FS_Interval
  <2> QED
    BY <2>1, <2>2, <2>3 DEF B
<1> HIDE DEF remaining
<1>5. WithoutBest = [i \in remaining |-> history[i]]
  BY <1>2, <1>4
<1>6. PICK s : s = WithoutBest
  OBVIOUS
<1>7. /\ DOMAIN s = DOMAIN history \ B
      /\ \A i \in DOMAIN s : s[i] = history[i]
  BY <1>3, <1>5, <1>6
<1>8. Executed(s, mode) = D \ B
  BY <1>7, ExecutedIn DEF Executed, Selected
<1> QED
  BY <1>6, <1>7, <1>8 DEF B

\* Without its best trades a run ends lower, and with as many trades less, whatever the
\* file, as long as they are winners, ids are unique and some trade is left.
THEOREM RemovalLowers == Spec => []RemovalNeverFlatters
<1>1. ToldInv => RemovalNeverFlatters
  <2> SUFFICES ASSUME ToldInv, 4 \in DOMAIN reports, UniqueIds,
                      NEW n, n = RemoveCount(reports[1].executed),
                      reports[1].sums.wins >= n, Len(history) > n
               PROVE  /\ reports[4].equity < reports[1].equity
                      /\ reports[4].executed = reports[1].executed - n
    BY DEF RemovalNeverFlatters
  <2>1. /\ reports[1].sample = history /\ RunTold(reports[1], BaseCosts)
        /\ Sampled(history) /\ BaseCosts \in CostRecord
    BY BaseReport
  <2>2. PICK c \in CostRecord : Plays(4, reports[4].sample, c) /\ RunTold(reports[4], c)
    BY ReportOf
  <2>3. PICK s : s = WithoutBest
    OBVIOUS
  <2>4. reports[4].sample = s /\ c = BaseCosts
    BY <2>2, <2>3 DEF Plays
  <2>5. PICK D : D = Executed(history, mode)
    OBVIOUS
  <2>6. /\ D \subseteq DOMAIN history /\ IsFiniteSet(D) /\ Cardinality(D) \in Nat
        /\ reports[1].executed = Cardinality(D)
        /\ reports[1].equity = EquityAfter(history, c, D)
        /\ reports[1].sums = TotalsOf(history, c, D)
    <3>1. D \subseteq DOMAIN history
      BY <2>5, ExecutedIn
    <3>2. IsFiniteSet(D)
      BY <2>1, <3>1, FS_Subset DEF Sampled
    <3> QED
      BY <2>1, <2>4, <2>5, <3>1, <3>2, FS_CardinalityType DEF RunTold
  <2>7. n \in Nat \ {0} /\ n = RemoveCount(Cardinality(D))
    BY <2>6, RemoveCountType
  <2>8. PICK B : B = Best(D, n)
    OBVIOUS
  <2>9. /\ Cardinality(B) = n /\ B \subseteq D
        /\ \A i \in B : NetPnl(history[i], c) > 0
    <3>1. SumOver(Win(history, BaseCosts), D) >= n
      BY <2>4, <2>6 DEF TotalsOf
    <3> QED
      BY <2>1, <2>4, <2>6, <2>7, <2>8, <3>1, BestAreWinners DEF Best
  <2>10. /\ DOMAIN s = DOMAIN history \ B /\ \A i \in DOMAIN s : s[i] = history[i]
         /\ Executed(s, mode) = D \ B
    BY <2>3, <2>5, <2>7, <2>8, <2>9, OnlyBestRemoved DEF ToldInv
  <2>11. PICK E : E = D \ B
    OBVIOUS
  <2>12. /\ IsFiniteSet(E) /\ IsFiniteSet(B) /\ E \cap B = {} /\ D = E \cup B
    BY <2>6, <2>9, <2>11, FS_Subset
  <2>13. /\ reports[4].executed = Cardinality(E)
         /\ reports[4].equity = EquityAfter(s, c, E)
    BY <2>2, <2>4, <2>10, <2>11 DEF RunTold
  <2>14. Cardinality(E) = Cardinality(D) - n
    <3>1. Cardinality(E \cup B) = Cardinality(E) + Cardinality(B) - Cardinality(E \cap B)
      BY <2>12, FS_Union
    <3>2. Cardinality(E \cap B) = 0 /\ Cardinality(E) \in Nat
      BY <2>12, FS_EmptySet, FS_CardinalityType
    <3> QED
      BY <2>7, <2>9, <2>12, <3>1, <3>2
  <2>15. EquityAfter(s, c, E) = EquityAfter(history, c, E)
    <3>1. E \subseteq DOMAIN s /\ E \subseteq DOMAIN history
      BY <2>6, <2>10, <2>11
    <3>2. \A i \in E : s[i] = history[i]
      BY <2>10, <3>1
    <3> QED
      BY <2>12, <3>1, <3>2, SameTradesSum
  <2>16. PICK f : f = Net(history, c)
    OBVIOUS
  <2>17. /\ \A i \in D : f[i] \in Int
         /\ \A i \in B : f[i] > 0
    BY <2>1, <2>4, <2>6, <2>9, <2>16, AmountsAre
  <2>18. SumFunctionOnSet(f, E \cup B) = SumFunctionOnSet(f, E) + SumFunctionOnSet(f, B)
    BY <2>12, <2>17, SumSplit
  <2>19. SumFunctionOnSet(f, B) \in Int /\ SumFunctionOnSet(f, B) > 0
    <3>1. B # {}
      BY <2>7, <2>9, FS_EmptySet
    <3> QED
      BY <2>12, <2>17, <3>1, WinnersAddUp
  <2>20. SumFunctionOnSet(f, E) \in Int
    BY <2>12, <2>17, SumInt
  <2>21. EquityAfter(history, c, E) < EquityAfter(history, c, D)
    BY <2>12, <2>16, <2>18, <2>19, <2>20, ConfigAssumption DEF EquityAfter, SumOver
  <2> QED
    BY <2>6, <2>13, <2>14, <2>15, <2>21
<1> QED
  BY <1>1, InitTold, NextTold, PTL DEF Spec

-----------------------------------------------------------------------------
(* The recovery time *)

\* Point k is as high again as peak i, which was left before.
Regained(c, i, k) == k > i + 1 /\ IsPeak(c, i, k - 1) /\ c[k].equity >= c[i].equity

\* d is the longest time a peak of c took to be regained.
IsLongest(c, d) ==
  /\ \A k \in DOMAIN c : \A i \in 1 .. k : Regained(c, i, k) => c[k].day - c[i].day <= d
  /\ d = 0 \/ \E k \in DOMAIN c : \E i \in 1 .. k : Regained(c, i, k) /\ d = c[k].day - c[i].day

\* The days of the points of a curve are whole numbers.
LEMMA PointDays ==
  ASSUME NEW c \in Seq(Point), NEW k \in 1 .. Len(c)
  PROVE  c[k].day \in Nat /\ c[k].equity \in Int
BY PointsType DEF Point

\* A further point takes back no peak regained before it.
LEMMA RegainedStays ==
  ASSUME NEW c \in Seq(Point), NEW p \in Point, NEW k \in 1 .. Len(c), NEW i \in 1 .. k
  PROVE  Regained(Append(c, p), i, k) <=> Regained(c, i, k)
<1> DEFINE d == Append(c, p)
<1>1. \A j \in 1 .. Len(c) : d[j] = c[j]
  OBVIOUS
<1> HIDE DEF d
<1>2. ASSUME k > i + 1 PROVE IsPeak(d, i, k - 1) <=> IsPeak(c, i, k - 1)
  <2>1. k - 1 \in 1 .. Len(c)
    BY <1>2
  <2> QED
    BY <1>1, <2>1 DEF IsPeak
<1>3. d[i] = c[i] /\ d[k] = c[k]
  BY <1>1
<1>4. Regained(d, i, k) <=> Regained(c, i, k)
  BY <1>2, <1>3 DEF Regained
<1> QED
  BY <1>4 DEF d

\* The last point regains the peak before it, if any.
LEMMA RegainedLast ==
  ASSUME NEW c \in Seq(Point), Len(c) >= 1, NEW p \in Point, NEW n, IsPeak(c, n, Len(c)),
         NEW i \in 1 .. Len(c) + 1
  PROVE  Regained(Append(c, p), i, Len(c) + 1) <=>
           i = n /\ n # Len(c) /\ p.equity >= c[n].equity
<1> DEFINE d == Append(c, p)
           l == Len(c)
<1>1. /\ \A j \in 1 .. l : d[j] = c[j]
      /\ d[l + 1] = p /\ l \in Nat /\ l >= 1 /\ l \in 1 .. l
  OBVIOUS
<1>2. n \in 1 .. l
  BY DEF IsPeak
<1>3. \A j : IsPeak(d, j, l) <=> IsPeak(c, j, l)
  BY PeaksStay, <1>1
<1>4. \A j : IsPeak(c, j, l) => j = n
  BY OnePeak, <1>1
<1> HIDE DEF d, l
<1>5. (l + 1) - 1 = l
  BY <1>1
<1>6. IsPeak(c, n, l)
  BY DEF l
<1>7. Regained(d, i, l + 1) <=> i = n /\ n # l /\ p.equity >= c[n].equity
  <2>1. Regained(d, i, l + 1) <=> l + 1 > i + 1 /\ IsPeak(d, i, l) /\ d[l + 1].equity >= d[i].equity
    BY <1>5 DEF Regained
  <2>2. Regained(d, i, l + 1) <=> l + 1 > i + 1 /\ i = n /\ p.equity >= c[n].equity
    BY <1>1, <1>2, <1>3, <1>4, <1>6, <2>1
  <2> QED
    BY <1>1, <1>2, <2>2
<1> QED
  BY <1>7 DEF d, l

\* A point that regains its peak may be the longest to do so.
LEMMA LongestGoesOn ==
  ASSUME NEW c \in Seq(Point), Len(c) >= 1, NEW p \in Point, NEW n, IsPeak(c, n, Len(c)),
         DaysRise(Append(c, p)), NEW t \in Nat, IsLongest(c, t)
  PROVE  /\ p.equity < c[n].equity \/ n = Len(c) => IsLongest(Append(c, p), t)
         /\ p.equity >= c[n].equity /\ n # Len(c) =>
              IsLongest(Append(c, p), Larger(t, p.day - c[n].day))
<1> DEFINE d == Append(c, p)
           l == Len(c)
<1>1. /\ \A j \in 1 .. l : d[j] = c[j]
      /\ d[l + 1] = p /\ l \in Nat /\ l >= 1 /\ l \in 1 .. l
      /\ DOMAIN d = 1 .. l \cup {l + 1} /\ DOMAIN c = 1 .. l
  OBVIOUS
<1>2. n \in 1 .. l
  BY DEF IsPeak
<1>3. \A k \in 1 .. l : \A i \in 1 .. k : Regained(d, i, k) <=> Regained(c, i, k)
  BY RegainedStays
<1>4. \A i \in 1 .. l + 1 :
        Regained(d, i, l + 1) <=> i = n /\ n # l /\ p.equity >= c[n].equity
  BY RegainedLast
<1>5. /\ \A k \in 1 .. l : c[k].day \in Nat /\ c[k].equity \in Int
      /\ p.day \in Nat /\ p.equity \in Int
  BY PointDays DEF Point
<1>6. DaysRise(d)
  OBVIOUS
<1> HIDE DEF d, l
<1>7. \A k \in 1 .. l : \A i \in 1 .. k : d[i] = c[i] /\ d[k] = c[k]
  BY <1>1
<1>8. c[n].day <= p.day
  BY <1>1, <1>2, <1>6 DEF DaysRise
<1>9. /\ \A k \in 1 .. l : \A i \in 1 .. k : Regained(d, i, k) => d[k].day - d[i].day <= t
      /\ t = 0 \/ \E k \in 1 .. l : \E i \in 1 .. k : Regained(d, i, k) /\ t = d[k].day - d[i].day
  BY <1>1, <1>3, <1>7, Zenon DEF IsLongest
<1>10. ASSUME p.equity < c[n].equity \/ n = l PROVE IsLongest(d, t)
  <2>1. \A i \in 1 .. l + 1 : ~Regained(d, i, l + 1)
    BY <1>2, <1>4, <1>5, <1>10
  <2>2. \A k \in DOMAIN d : \A i \in 1 .. k : Regained(d, i, k) => d[k].day - d[i].day <= t
    BY <1>1, <1>9, <2>1, Zenon
  <2>3. t = 0 \/ \E k \in DOMAIN d : \E i \in 1 .. k : Regained(d, i, k) /\ t = d[k].day - d[i].day
    BY <1>1, <1>9, Zenon
  <2> QED
    BY <2>2, <2>3, Zenon DEF IsLongest
<1>11. ASSUME p.equity >= c[n].equity, n # l
       PROVE  IsLongest(d, Larger(t, p.day - c[n].day))
  <2>0. PICK w \in Nat : w = p.day - c[n].day
    <3>1. c[n].day \in Nat
      BY <1>2, <1>5
    <3>2. p.day - c[n].day \in Nat
      BY <1>5, <1>8, <3>1
    <3> QED
      BY <3>2
  <2>1. PICK u \in Nat : w = p.day - c[n].day /\ u = Larger(t, w)
    <3>1. Larger(t, w) \in Nat
      BY DEF Larger
    <3> QED
      BY <2>0, <3>1
  <2>2. t <= u /\ w <= u /\ (u = t \/ u = w)
    BY <2>1 DEF Larger
  <2>3. d[n] = c[n] /\ d[l + 1] = p /\ n \in 1 .. l + 1
    BY <1>1, <1>2
  <2>4. ASSUME NEW k \in DOMAIN d, NEW i \in 1 .. k, Regained(d, i, k)
        PROVE  d[k].day - d[i].day <= u
    <3>1. CASE k \in 1 .. l
      <4>1. d[k].day - d[i].day <= t
        BY <1>9, <2>4, <3>1
      <4>2. d[k].day \in Nat /\ d[i].day \in Nat
        BY <1>1, <1>5, <3>1
      <4> QED
        BY <2>2, <4>1, <4>2
    <3>2. CASE k = l + 1
      <4>1. i = n
        BY <1>4, <2>4, <3>2
      <4> QED
        BY <2>1, <2>2, <2>3, <3>2, <4>1
    <3> QED
      BY <1>1, <3>1, <3>2
  <2>5. u = 0 \/ \E k \in DOMAIN d : \E i \in 1 .. k : Regained(d, i, k) /\ u = d[k].day - d[i].day
    <3>1. CASE u = t
      BY <1>1, <1>9, <3>1, Zenon
    <3>2. CASE u = w
      <4>1. Regained(d, n, l + 1) /\ u = d[l + 1].day - d[n].day
        BY <1>4, <1>11, <2>1, <2>3, <3>2
      <4>2. l + 1 \in DOMAIN d
        BY <1>1
      <4> QED
        BY <2>3, <4>1, <4>2, Zenon
    <3> QED
      BY <2>2, <3>1, <3>2
  <2>6. IsLongest(d, u)
    BY <2>4, <2>5 DEF IsLongest
  <2> QED
    BY <2>1, <2>6
<1> QED
  BY <1>10, <1>11 DEF d, l

\* A curve is under water until a peak is regained, or at its end.
LEMMA StretchIs ==
  ASSUME NEW c \in Seq(Point), Len(c) >= 1, NEW n, IsPeak(c, n, Len(c)),
         NEW k \in DOMAIN c, NEW i \in DOMAIN c
  PROVE  IsStretch(c, i, k) <=> Regained(c, i, k) \/ (i = n /\ k = Len(c) /\ n # Len(c))
<1>1. PICK l \in Nat : l = Len(c) /\ l >= 1
  OBVIOUS
<1>2. /\ n \in 1 .. l /\ i \in 1 .. l /\ k \in 1 .. l
      /\ \A j \in 1 .. l : c[j].equity <= c[n].equity /\ (c[j].equity = c[n].equity => j <= n)
  BY <1>1 DEF IsPeak
<1>3. \A j \in 1 .. l : c[j].equity \in Int
  BY <1>1, PointDays
<1>4. ASSUME k = l, k > i, IsPeak(c, i, k - 1), c[k].equity < c[i].equity
      PROVE  i = n /\ n # l
  <2>1. /\ i \in 1 .. l - 1
        /\ \A j \in 1 .. l - 1 : c[j].equity <= c[i].equity /\ (c[j].equity = c[i].equity => j <= i)
    BY <1>4 DEF IsPeak
  <2>2. \A j \in 1 .. l : j = l \/ j \in 1 .. l - 1
    BY <1>1
  <2>3. IsPeak(c, i, l)
    BY <1>1, <1>2, <1>3, <1>4, <2>1, <2>2 DEF IsPeak
  <2>4. i = n
    BY <1>1, <2>3, OnePeak
  <2> QED
    BY <1>2, <1>4, <2>4
<1>5. ASSUME i = n, k = l, n # l
      PROVE  k > i /\ IsPeak(c, i, k - 1) /\ c[k].equity < c[i].equity
  <2>1. k > i /\ l \in 1 .. l
    BY <1>1, <1>2, <1>5
  <2>2. c[l].equity < c[n].equity
    BY <1>2, <1>3, <2>1, <1>5
  <2>3. IsPeak(c, i, l - 1)
    BY <1>1, <1>2, <1>5, <2>1 DEF IsPeak
  <2> QED
    BY <1>5, <2>1, <2>2, <2>3
<1>6. Regained(c, i, k) => k > i
  BY <1>2 DEF Regained
<1> QED
  BY <1>1, <1>4, <1>5, <1>6 DEF IsStretch, Regained

\* The longest time under water is that of some stretch, and none is longer.
LEMMA LongestIs ==
  ASSUME NEW c \in Seq(Point)
  PROVE  LET d == LongestUnderwater(c) IN
         /\ d \in Int /\ d >= 0
         /\ \A i, k \in DOMAIN c : IsStretch(c, i, k) => c[k].day - c[i].day <= d
         /\ d = 0 \/ \E i, k \in DOMAIN c : IsStretch(c, i, k) /\ d = c[k].day - c[i].day
<1> DEFINE P == {x \in (DOMAIN c) \X (DOMAIN c) : IsStretch(c, x[1], x[2])}
           g == [x \in P |-> c[x[2]].day - c[x[1]].day]
           G == {g[x] : x \in P}
           X == {0} \cup G
<1>1. IsFiniteSet(DOMAIN c)
  <2>1. PICK l \in Nat : DOMAIN c = 1 .. l
    OBVIOUS
  <2> QED
    BY <2>1, FS_Interval
<1>2. IsFiniteSet(P)
  <2>1. IsFiniteSet((DOMAIN c) \X (DOMAIN c))
    BY <1>1, FS_Product
  <2>2. P \subseteq (DOMAIN c) \X (DOMAIN c)
    OBVIOUS
  <2> HIDE DEF P
  <2> QED
    BY <2>1, <2>2, FS_Subset
<1>3. \A x \in P : x[1] \in DOMAIN c /\ x[2] \in DOMAIN c /\ IsStretch(c, x[1], x[2])
  OBVIOUS
<1>4. \A i, k \in DOMAIN c : IsStretch(c, i, k) => <<i, k>> \in P
  OBVIOUS
<1>5. DaysUnderwater(c) = G
  BY DEF DaysUnderwater
<1> HIDE DEF P
<1>6. \A x \in P : g[x] = c[x[2]].day - c[x[1]].day
  OBVIOUS
<1>7. \A x \in P : g[x] \in Int
  BY <1>3, <1>6, PointDays
<1> HIDE DEF g
<1>8. IsFiniteSet(G)
  BY <1>2, ImageFinite
<1>9. IsFiniteSet(X) /\ X \subseteq Int /\ X # {}
  <2>1. IsFiniteSet({0})
    BY FS_Singleton
  <2>2. G \subseteq Int
    BY <1>7
  <2> HIDE DEF G
  <2>3. IsFiniteSet({0} \cup G)
    BY <1>8, <2>1, FS_Union
  <2> QED
    BY <2>2, <2>3
<1>10. PICK d : d = LongestUnderwater(c)
  OBVIOUS
<1>11. d = Max(X)
  BY <1>5, <1>10 DEF LongestUnderwater
<1>12. \A x \in P : g[x] \in X
  OBVIOUS
<1>13. \A y \in X : y = 0 \/ \E x \in P : y = g[x]
  OBVIOUS
<1>14. 0 \in X
  OBVIOUS
<1> HIDE DEF X
<1>15. d \in X /\ \A y \in X : y <= d
  BY <1>9, <1>11, LargestOf
<1>16. d \in Int /\ d >= 0
  BY <1>9, <1>14, <1>15
<1>17. ASSUME NEW i \in DOMAIN c, NEW k \in DOMAIN c, IsStretch(c, i, k)
       PROVE  c[k].day - c[i].day <= d
  <2>1. PICK x \in P : x[1] = i /\ x[2] = k
    BY <1>4, <1>17
  <2> QED
    BY <1>6, <1>12, <1>15, <2>1
<1>18. d = 0 \/ \E i, k \in DOMAIN c : IsStretch(c, i, k) /\ d = c[k].day - c[i].day
  <2>1. CASE d # 0
    <3>1. PICK x \in P : d = g[x]
      BY <1>13, <1>15, <2>1
    <3>2. PICK i \in DOMAIN c, k \in DOMAIN c : i = x[1] /\ k = x[2]
      BY <1>3
    <3>3. IsStretch(c, i, k) /\ d = c[k].day - c[i].day
      BY <1>3, <1>6, <3>1, <3>2
    <3> QED
      BY <3>3
  <2> QED
    BY <2>1
<1> QED
  BY <1>10, <1>16, <1>17, <1>18

\* What the pass keeps of the time under water: the day of the last peak, whether it was
\* left, and the longest time a peak before it took to be regained.
RecoveryTold ==
  phase = "walk" =>
    /\ IsLongest(curve, walk.recovery)
    /\ \E i \in 1 .. Len(curve) :
         /\ IsPeak(curve, i, Len(curve))
         /\ curve[i].equity = walk.peak /\ curve[i].day = walk.peakDay
         /\ walk.since = IF i = Len(curve) THEN None ELSE walk.peakDay

\* With it the time under water in the reports is exact.
RecoveryInv == ToldInv /\ RecoveryTold /\ RecoveryIsExact

\* One report states its time under water.
ReportExact(r) ==
  /\ r.recovery <= LongestUnderwater(r.curve)
  /\ LastEnteredExitsLast(r.sample) => r.recovery = LongestUnderwater(r.curve)

\* The last point of a finished curve is of the day of the last exit.
LEMMA LastPointDay ==
  ASSUME NEW s, Sampled(s), NEW m, NEW c, NEW q \in Seq(Point), NEW D, D = Executed(s, m),
         CurveTold(q, s, m, c, D), D # {}
  PROVE  \E i \in D : q[Len(q)].day = s[i].exit /\ \A j \in D : s[j].exit <= s[i].exit
<1>1. D \subseteq DOMAIN s /\ IsFiniteSet(D) /\ Cardinality(D) \in Nat /\ Cardinality(D) # 0
  <2>1. D \subseteq DOMAIN s
    BY ExecutedIn
  <2>2. IsFiniteSet(D)
    BY <2>1, FS_Subset DEF Sampled
  <2> QED
    BY <2>1, <2>2, FS_CardinalityType, FS_EmptySet
<1>2. PICK l \in Nat : l = Len(q) /\ l = 1 + Cardinality(D) /\ l \in 2 .. l
  BY <1>1 DEF CurveTold
<1>3. PICK i \in D : IsPoint(q[l], l, s, m, c, i)
  BY <1>2 DEF CurveTold
<1>4. PICK U : U = ClosedBy(s, m, i)
  OBVIOUS
<1>5. U \subseteq D /\ Cardinality(U) = Cardinality(D)
  BY <1>1, <1>2, <1>3, <1>4 DEF IsPoint, ClosedBy, UpTo
<1>6. U = D
  BY <1>1, <1>5, FS_Subset
<1>7. \A j \in D : j = i \/ <<j, i>> \in Closing(s)
  BY <1>4, <1>6 DEF ClosedBy, UpTo
<1>8. \A j \in D : s[j].exit \in Nat
  BY <1>1 DEF Sampled, HistoricalTrade
<1>9. \A j \in D : s[j].exit <= s[i].exit
  <2>1. \A x, y \in DOMAIN s : <<x, y>> \in Closing(s) => s[x].exit <= s[y].exit
    BY SampleOrders
  <2>2. ASSUME NEW j \in D, <<j, i>> \in Closing(s) PROVE s[j].exit <= s[i].exit
    BY <1>1, <2>1, <2>2
  <2>3. s[i].exit <= s[i].exit
    BY <1>8
  <2> QED
    BY <1>7, <2>2, <2>3
<1> QED
  BY <1>2, <1>3, <1>9 DEF IsPoint

\* The trade entered last is one of those executed.
LEMMA LastEnteredIs ==
  ASSUME NEW s, Sampled(s), NEW D, D \subseteq DOMAIN s, D # {}
  PROVE  LastEntered(s, D) \in D
<1>1. IsFiniteSet(D)
  BY FS_Subset DEF Sampled
<1>2. Orders(Entering(s), D)
  BY SampleOrders, OrdersPart
<1>3. PICK R : R = Entering(s)
  OBVIOUS
<1>4. \E i \in D : \A j \in D \ {i} : <<j, i>> \in R
  BY <1>1, <1>2, <1>3, LastExists
<1>5. \E i \in D : \A j \in D \ {i} : EntryBefore(s, j, i)
  BY <1>3, <1>4, ClosingIs
<1> QED
  BY <1>5 DEF LastEntered

\* Closing a trade tells the time under water on.
LEMMA CloseRecovery ==
  ASSUME RecoveryInv, NEW i \in todo, CloseTrade(i)
  PROVE  RecoveryTold'
<1> DEFINE e == walk.equity + NetPnl(sample[i], costs)
           day == sample[i].exit
           p == [day |-> day, equity |-> e]
<1>1. /\ sample[i] \in HistoricalTrade /\ costs \in CostRecord /\ walk \in WalkRecord
      /\ curve \in Seq(Point) /\ phase = "walk" /\ phase' = "walk" /\ history # <<>>
  BY DEF RecoveryInv, ToldInv, TypeOK, CostRecord, WalkRecord, CloseTrade
<1>2. NetPnl(sample[i], costs) \in Int
  BY <1>1, AmountsType
<1>3. e \in Int /\ day \in Nat
  <2>1. walk.equity \in Int
    BY <1>1 DEF WalkRecord
  <2>2. sample[i].exit \in Nat
    BY <1>1 DEF HistoricalTrade
  <2> QED
    BY <1>2, <2>1, <2>2
<1>4. /\ walk' = IF e >= walk.peak THEN Recovered(walk, e, day) ELSE Underwater(walk, e)
      /\ curve' = Append(curve, p) /\ sample' = sample
  BY DEF CloseTrade
<1> HIDE DEF e, day
<1>5. p \in Point /\ p.equity = e /\ p.day = day
  BY <1>3 DEF Point
<1> HIDE DEF p
<1>6. Len(curve) >= 1
  <2>1. PICK s, m, c, S : s = sample /\ m = mode /\ c = costs /\ S = Closed
    OBVIOUS
  <2>2. CurveTold(curve, s, m, c, S) /\ S \subseteq DOMAIN s /\ Plays(Len(reports) + 1, s, c)
    BY <1>1, <2>1, ExecutedIn DEF RecoveryInv, ToldInv, WalkTold, Closed
  <2>3. Sampled(s)
    BY <1>1, <2>2, PlaysSampled DEF RecoveryInv, ToldInv
  <2>4. Cardinality(S) \in Nat
    BY <2>2, <2>3, FS_Subset, FS_CardinalityType DEF Sampled
  <2> QED
    BY <2>2, <2>4 DEF CurveTold
<1>7. IsLongest(curve, walk.recovery) /\ walk.recovery \in Nat
  BY <1>1 DEF RecoveryInv, RecoveryTold, WalkRecord
<1>8. PICK n \in 1 .. Len(curve) :
        /\ IsPeak(curve, n, Len(curve))
        /\ curve[n].equity = walk.peak /\ curve[n].day = walk.peakDay
        /\ walk.since = IF n = Len(curve) THEN None ELSE walk.peakDay
  BY <1>1 DEF RecoveryInv, RecoveryTold
<1>9. DaysRise(curve')
  <2>1. WalkTold' /\ TypeOK'
    BY CloseTold, StepType DEF RecoveryInv, ToldInv, Next
  <2>2. PICK s, m, c, S, q : s = sample' /\ m = mode' /\ c = costs' /\ S = Closed' /\ q = curve'
    OBVIOUS
  <2>3. CurveTold(q, s, m, c, S) /\ S \subseteq Executed(s, m) /\ q \in Seq(Point)
    BY <1>1, <2>1, <2>2 DEF WalkTold, Closed, TypeOK
  <2>4. Sampled(s)
    <3>1. Plays(Len(reports) + 1, sample, costs)
      BY <1>1 DEF RecoveryInv, ToldInv, WalkTold
    <3>2. s = sample
      BY <1>4, <2>2
    <3> QED
      BY <1>1, <3>1, <3>2, PlaysSampled DEF RecoveryInv, ToldInv
  <2> QED
    BY <2>2, <2>3, <2>4, CurveRises
<1>10. /\ Len(curve') = Len(curve) + 1 /\ curve'[Len(curve) + 1] = p
       /\ curve'[n] = curve[n] /\ n \in 1 .. Len(curve') /\ Len(curve) + 1 \in 1 .. Len(curve')
  BY <1>1, <1>4, <1>5, <1>6
<1>11. /\ walk.peak \in Int /\ walk.peakDay \in Nat /\ walk.peakDay # None
  BY <1>1, NoneAssumption DEF WalkRecord
<1>12. CASE e >= walk.peak
  <2>1. /\ walk'.peak = e /\ walk'.peakDay = day /\ walk'.since = None
        /\ walk'.recovery = IF walk.since = None THEN walk.recovery
                            ELSE Larger(walk.recovery, day - walk.since)
    BY <1>1, <1>4, <1>12 DEF WalkRecord, Recovered
  <2>2. IsPeak(curve', Len(curve'), Len(curve'))
    BY <1>1, <1>4, <1>5, <1>6, <1>8, <1>10, <1>12, NewPeak
  <2>3. p.equity >= curve[n].equity
    BY <1>5, <1>8, <1>12
  <2>4. IsLongest(curve', walk'.recovery)
    <3>1. CASE n = Len(curve)
      <4>1. walk'.recovery = walk.recovery
        BY <1>8, <2>1, <3>1
      <4> QED
        BY <1>1, <1>4, <1>5, <1>6, <1>7, <1>8, <1>9, <3>1, <4>1, LongestGoesOn
    <3>2. CASE n # Len(curve)
      <4>1. walk'.recovery = Larger(walk.recovery, p.day - curve[n].day)
        BY <1>5, <1>8, <1>11, <2>1, <3>2
      <4> QED
        BY <1>1, <1>4, <1>5, <1>6, <1>7, <1>8, <1>9, <2>3, <3>2, <4>1, LongestGoesOn
    <3> QED
      BY <3>1, <3>2
  <2>5. /\ Len(curve') \in 1 .. Len(curve') /\ curve'[Len(curve')] = p
    BY <1>10
  <2> QED
    BY <1>5, <2>1, <2>2, <2>4, <2>5 DEF RecoveryTold
<1>13. CASE ~(e >= walk.peak)
  <2>1. e < walk.peak
    BY <1>3, <1>11, <1>13
  <2>2. walk' = Underwater(walk, e)
    BY <1>4, <1>13
  <2>3. /\ walk'.peak = walk.peak /\ walk'.peakDay = walk.peakDay
        /\ walk'.recovery = walk.recovery /\ walk'.since = walk.peakDay
    <3>1. /\ walk'.peak = walk.peak /\ walk'.peakDay = walk.peakDay
          /\ walk'.recovery = walk.recovery
          /\ walk'.since = IF walk.since = None THEN walk.peakDay ELSE walk.since
      BY <1>1, <2>2 DEF WalkRecord, Underwater
    <3> QED
      BY <1>8, <3>1
  <2>4. p.equity < curve[n].equity
    BY <1>5, <1>8, <2>1
  <2>5. IsLongest(curve', walk'.recovery)
    BY <1>1, <1>4, <1>5, <1>6, <1>7, <1>8, <1>9, <2>3, <2>4, LongestGoesOn
  <2>6. IsPeak(curve', n, Len(curve'))
    BY <1>1, <1>4, <1>5, <1>6, <1>8, <1>10, <2>4, OldPeak
  <2>7. n # Len(curve')
    BY <1>10, <1>6, <1>8
  <2> QED
    BY <1>8, <1>10, <2>3, <2>5, <2>6, <2>7 DEF RecoveryTold
<1> QED
  BY <1>12, <1>13

\* A scenario begins above water.
LEMMA BeginRecovery ==
  ASSUME NEW s, NEW d, walk' = NewWalk(s), FirstEntryDay(s) = d, d \in Nat,
         curve' = <<[day |-> d, equity |-> StartingEquity]>>
  PROVE  RecoveryTold'
<1>1. PICK c \in Seq(Point) :
        c = curve' /\ Len(c) = 1 /\ c[1].day = d /\ c[1].equity = StartingEquity
  <2>1. curve' \in Seq(Point) /\ Len(curve') = 1 /\ curve'[1].day = d
        /\ curve'[1].equity = StartingEquity
    BY ConfigAssumption DEF Point
  <2> QED
    BY <2>1
<1>2. IsPeak(c, 1, 1)
  BY <1>1, FirstPoint
<1>3. IsLongest(c, 0)
  <2>1. \A k \in DOMAIN c : \A i \in 1 .. k : ~Regained(c, i, k)
    BY <1>1 DEF Regained
  <2> QED
    BY <2>1, Zenon DEF IsLongest
<1>4. /\ walk'.recovery = 0 /\ walk'.peak = StartingEquity /\ walk'.peakDay = d /\ walk'.since = None
  BY DEF NewWalk
<1>5. /\ IsLongest(curve', walk'.recovery)
      /\ IsPeak(curve', 1, Len(curve')) /\ 1 \in 1 .. Len(curve') /\ 1 = Len(curve')
      /\ curve'[1].equity = walk'.peak /\ curve'[1].day = walk'.peakDay
  BY <1>1, <1>2, <1>3, <1>4
<1> QED
  BY <1>4, <1>5 DEF RecoveryTold

\* When a run is over the only drawdown left open is from its last peak, and the report
\* measures it to the exit of the trade entered last.
LEMMA FinishRecovery ==
  ASSUME RecoveryInv, phase = "walk", todo = {}
  PROVE  /\ Recovery <= LongestUnderwater(curve)
         /\ LastEnteredExitsLast(sample) => Recovery = LongestUnderwater(curve)
<1>1. PICK s, m, cc, D, c : s = sample /\ m = mode /\ cc = costs /\ D = Executed(sample, mode) /\ c = curve
  OBVIOUS
<1>2. /\ CurveTold(c, s, m, cc, D) /\ c \in Seq(Point) /\ walk \in WalkRecord
      /\ Plays(Len(reports) + 1, s, cc) /\ history # <<>>
  <2>1. Closed = D
    BY <1>1 DEF Closed
  <2> QED
    BY <1>1, <2>1 DEF RecoveryInv, ToldInv, WalkTold, TypeOK, WalkRecord
<1>3. Sampled(s) /\ D = Executed(s, m) /\ D \subseteq DOMAIN s
  BY <1>1, <1>2, PlaysSampled, ExecutedIn DEF RecoveryInv, ToldInv
<1>4. IsFiniteSet(D) /\ Cardinality(D) \in Nat
  BY <1>3, FS_Subset, FS_CardinalityType DEF Sampled
<1>5. PICK l \in Nat : l = Len(c) /\ l = 1 + Cardinality(D) /\ l >= 1 /\ DOMAIN c = 1 .. l
  BY <1>2, <1>4 DEF CurveTold
<1>6. PICK n \in 1 .. l :
        /\ IsPeak(c, n, l) /\ c[n].day = walk.peakDay
        /\ walk.since = IF n = l THEN None ELSE walk.peakDay
  BY <1>1, <1>5 DEF RecoveryInv, RecoveryTold
<1>7. PICK t \in Nat : t = walk.recovery /\ IsLongest(c, t)
  BY <1>1, <1>2 DEF RecoveryInv, RecoveryTold, WalkRecord
<1>8. PICK d \in Int :
        /\ d = LongestUnderwater(c) /\ d >= 0
        /\ \A i, k \in DOMAIN c : IsStretch(c, i, k) => c[k].day - c[i].day <= d
        /\ d = 0 \/ \E i, k \in DOMAIN c : IsStretch(c, i, k) /\ d = c[k].day - c[i].day
  <2>1. PICK e : e = LongestUnderwater(c)
    OBVIOUS
  <2> QED
    BY <1>2, <2>1, LongestIs
<1>9. \A i, k \in 1 .. l : IsStretch(c, i, k) <=> Regained(c, i, k) \/ (i = n /\ k = l /\ n # l)
  BY <1>2, <1>5, <1>6, StretchIs
<1>10. \A k \in 1 .. l : c[k].day \in Nat
  BY <1>2, <1>5, PointDays
<1>11. t <= d
  <2>1. t = 0 \/ \E k \in 1 .. l : \E i \in 1 .. k : Regained(c, i, k) /\ t = c[k].day - c[i].day
    BY <1>5, <1>7, Zenon DEF IsLongest
  <2>2. CASE t # 0
    <3>3. PICK k \in 1 .. l : \E i \in 1 .. k : Regained(c, i, k) /\ t = c[k].day - c[i].day
      BY <2>1, <2>2
    <3>1. PICK i \in 1 .. k : Regained(c, i, k) /\ t = c[k].day - c[i].day
      BY <3>3
    <3>2. i \in 1 .. l
      BY <3>1
    <3> QED
      BY <1>5, <1>8, <1>9, <3>1, <3>2
  <2> QED
    BY <1>8, <2>2
<1>12. ASSUME NEW i \in 1 .. l, NEW k \in 1 .. l, Regained(c, i, k)
       PROVE  c[k].day - c[i].day <= t
  <2>1. i \in 1 .. k
    BY <1>12 DEF Regained, IsPeak
  <2> QED
    BY <1>5, <1>7, <1>12, <2>1, Zenon DEF IsLongest
<1>13. CASE n = l
  <2>1. Recovery = t
    BY <1>6, <1>7, <1>13 DEF Recovery
  <2>2. d <= t
    BY <1>5, <1>8, <1>9, <1>12, <1>13
  <2> QED
    BY <1>1, <1>8, <1>11, <2>1, <2>2
<1>14. CASE n # l
  <2>1. D # {}
    <3> SUFFICES ASSUME D = {} PROVE FALSE
      OBVIOUS
    <3>1. Cardinality(D) = 0
      BY FS_EmptySet
    <3> QED
      BY <1>5, <1>6, <1>14, <3>1
  <2>2. PICK x : x = LastEntered(s, D) /\ x \in D
    BY <1>3, <2>1, LastEnteredIs
  <2>3. walk.since = c[n].day /\ walk.since # None
    BY <1>6, <1>10, <1>14, NoneAssumption
  <2>4. Recovery = Larger(t, s[x].exit - c[n].day)
    BY <1>1, <1>7, <2>1, <2>2, <2>3 DEF Recovery
  <2>5. PICK i \in D : c[l].day = s[i].exit /\ \A j \in D : s[j].exit <= s[i].exit
    BY <1>2, <1>3, <1>5, <2>1, LastPointDay
  <2>6. \A j \in D : s[j].exit \in Nat
    BY <1>3 DEF Sampled, HistoricalTrade
  <2>7. PICK a \in Nat, z \in Nat, b \in Nat : a = s[x].exit /\ z = c[l].day /\ b = c[n].day /\ a <= z
    BY <1>5, <1>6, <1>10, <2>2, <2>5, <2>6
  <2>8. z - b <= d
    BY <1>5, <1>6, <1>8, <1>9, <1>14, <2>7
  <2>9. d <= Larger(t, z - b)
    <3>1. CASE d # 0
      <4>1. PICK i2 \in 1 .. l, k2 \in 1 .. l : IsStretch(c, i2, k2) /\ d = c[k2].day - c[i2].day
        BY <1>5, <1>8, <3>1
      <4>2. d <= t \/ d = z - b
        BY <1>9, <1>12, <2>7, <4>1
      <4> QED
        BY <2>7, <4>2 DEF Larger
    <3> QED
      BY <3>1, <2>7 DEF Larger
  <2>10. d = Larger(t, z - b)
    BY <1>11, <2>7, <2>8, <2>9 DEF Larger
  <2>11. Larger(t, a - b) <= Larger(t, z - b)
    BY <2>7 DEF Larger
  <2>12. LastEnteredExitsLast(s) => a = z
    <3>1. LastEnteredExitsLast(s) => s[i].exit <= s[x].exit
      BY <1>1, <2>2, <2>5 DEF LastEnteredExitsLast
    <3> QED
      BY <2>5, <2>7, <3>1
  <2> QED
    BY <1>1, <1>8, <2>4, <2>7, <2>10, <2>11, <2>12
<1> QED
  BY <1>13, <1>14

\* Reports stay exact as long as the mode is.
LEMMA ReportsStayExact ==
  ASSUME RecoveryIsExact, reports' = reports, reports = <<>> \/ mode' = mode
  PROVE  RecoveryIsExact'
<1>1. CASE reports = <<>>
  BY <1>1 DEF RecoveryIsExact
<1>2. CASE mode' = mode
  <2>1. PICK q : q = reports
    OBVIOUS
  <2>2. \A n \in DOMAIN q : ReportExact(q[n])
    BY <2>1 DEF RecoveryIsExact, ReportExact
  <2>3. ASSUME NEW n \in DOMAIN q PROVE ReportExact(q[n])'
    <3>1. PICK r : r = q[n]
      OBVIOUS
    <3>2. ReportExact(r)
      BY <2>2, <3>1
    <3>3. ReportExact(r)'
      BY <1>2, <3>2 DEF ReportExact, LastEnteredExitsLast
    <3> QED
      BY <3>1, <3>3
  <2>4. reports' = q
    BY <2>1
  <2> QED
    BY <2>3, <2>4 DEF RecoveryIsExact, ReportExact
<1> QED
  BY <1>1, <1>2

\* A run that is over adds an exact report.
LEMMA FinishExact ==
  ASSUME RecoveryInv, FinishRun
  PROVE  RecoveryIsExact'
<1> DEFINE r == [equity |-> walk.equity, fall |-> walk.fall, from |-> walk.from,
                 recovery |-> Recovery, sums |-> sums, sample |-> sample, curve |-> curve,
                 selected |-> Cardinality(Selected(sample, mode)),
                 executed |-> Cardinality(Executed(sample, mode))]
<1>1. /\ phase = "walk" /\ todo = {} /\ reports' = Append(reports, r) /\ mode' = mode
  BY DEF FinishRun
<1>2. /\ ReportOK(r) /\ r.sample = sample /\ r.recovery = Recovery /\ r.curve = curve
  BY DEF RecoveryInv, ToldInv, TypeOK, ReportOK
<1> HIDE DEF r
<1>3. ReportExact(r)
  BY <1>1, <1>2, FinishRecovery DEF ReportExact
<1>4. AreReports(reports)
  BY Zenon DEF RecoveryInv, ToldInv, TypeOK, AreReports
<1>5. /\ DOMAIN reports' = DOMAIN reports \cup {Len(reports) + 1}
      /\ reports'[Len(reports) + 1] = r
      /\ \A n \in DOMAIN reports : reports'[n] = reports[n]
  BY <1>1, <1>2, <1>4, ReportAppended
<1>6. \A n \in DOMAIN reports : ReportExact(reports[n])
  BY DEF RecoveryInv, RecoveryIsExact, ReportExact
<1>7. PICK q : q = reports'
  OBVIOUS
<1>8. ASSUME NEW n \in DOMAIN q PROVE ReportExact(q[n])'
  <2>1. PICK x : x = q[n]
    OBVIOUS
  <2>2. ReportExact(x)
    BY <1>3, <1>5, <1>6, <1>7, <2>1
  <2>3. ReportExact(x)'
    BY <1>1, <2>2 DEF ReportExact, LastEnteredExitsLast
  <2> QED
    BY <2>1, <2>3
<1> QED
  BY <1>7, <1>8 DEF RecoveryIsExact, ReportExact

\* Every step keeps the time under water told and the reports exact.
LEMMA NextRecovery == RecoveryInv /\ [Next]_vars => RecoveryInv'
<1> SUFFICES ASSUME RecoveryInv, [Next]_vars PROVE RecoveryTold' /\ RecoveryIsExact'
  BY NextTold DEF RecoveryInv
<1>1. ASSUME NEW t \in Rows, LoadRow(t) PROVE RecoveryTold' /\ RecoveryIsExact'
  <2>1. phase = "load" /\ phase' \in {"load", "raised"} /\ reports' = reports /\ reports = <<>>
    BY <1>1 DEF LoadRow, RecoveryInv, ToldInv, ReportsTold
  <2> QED
    BY <2>1, ReportsStayExact DEF RecoveryInv, RecoveryTold
<1>2. CASE EmptyFile
  <2>1. phase = "load" /\ phase' = "raised" /\ reports' = reports /\ reports = <<>>
    BY <1>2 DEF EmptyFile, RecoveryInv, ToldInv, ReportsTold
  <2> QED
    BY <2>1, ReportsStayExact DEF RecoveryInv, RecoveryTold
<1>3. CASE Scenario
  <2>1. phase \in {"load", "next"} /\ reports' = reports
        /\ (phase = "load" => reports = <<>>) /\ (phase = "next" => mode' = mode)
    BY <1>3 DEF Scenario, Base, DoubledSlippage, TripledSlippage, RemoveBest, RandomizedEntries,
                ParameterSensitivity, NextScenario, Begin, RecoveryInv, ToldInv, ReportsTold
  <2>2. RecoveryIsExact'
    BY <2>1, ReportsStayExact DEF RecoveryInv
  <2>3. PICK s, m, c : m \in Modes /\ c \in CostRecord /\ IsSample(s) /\ Begin(s, m, c)
    BY <1>3, ScenarioBegins DEF RecoveryInv, ToldInv
  <2>4. FirstEntryDay(s) \in Nat
    BY <2>3, FirstDayType DEF IsSample
  <2>5. CASE phase' = "walk"
    <3>1. /\ walk' = NewWalk(s)
          /\ curve' = <<[day |-> FirstEntryDay(s), equity |-> StartingEquity]>>
      BY <2>3, <2>5 DEF Begin
    <3> QED
      BY <2>2, <2>4, <3>1, BeginRecovery
  <2>6. CASE phase' # "walk"
    BY <2>2, <2>6 DEF RecoveryTold
  <2> QED
    BY <2>5, <2>6
<1>4. ASSUME NEW i \in todo, CloseTrade(i) PROVE RecoveryTold' /\ RecoveryIsExact'
  <2>1. reports' = reports /\ mode' = mode
    BY <1>4 DEF CloseTrade
  <2> QED
    BY <1>4, <2>1, CloseRecovery, ReportsStayExact DEF RecoveryInv
<1>5. CASE FinishRun
  <2>1. phase' = "next"
    BY <1>5 DEF FinishRun
  <2> QED
    BY <1>5, <2>1, FinishExact DEF RecoveryTold
<1>6. CASE UNCHANGED vars
  <2>1. UNCHANGED <<phase, curve, walk, reports, mode>>
    BY <1>6 DEF vars
  <2> QED
    BY <2>1, ReportsStayExact DEF RecoveryInv, RecoveryTold
<1> QED
  BY <1>1, <1>2, <1>3, <1>4, <1>5, <1>6, Zenon DEF Next, Scenario

\* The time under water a report states is that of the curve, unless some trade exits
\* after the one entered last; then it is not longer.
THEOREM RecoveryAlwaysExact == Spec => []RecoveryIsExact
<1>1. Init => RecoveryInv
  BY InitTold DEF Init, RecoveryInv, RecoveryTold, RecoveryIsExact
<1>2. RecoveryInv => RecoveryIsExact
  BY DEF RecoveryInv
<1> QED
  BY <1>1, <1>2, NextRecovery, PTL DEF Spec

-----------------------------------------------------------------------------
(* Higher costs *)

\* Every point of a curve has a peak before it.
LEMMA PeakExists ==
  ASSUME NEW c \in Seq(Point), NEW j \in 1 .. Len(c)
  PROVE  \E i \in 1 .. j : IsPeak(c, i, j)
<1>1. \A k \in 1 .. j : c[k].equity \in Int /\ k \in Int
  BY PointDays
<1>2. PICK e : e = [k \in 1 .. j |-> c[k].equity]
  OBVIOUS
<1>3. PICK R : \A x, y \in 1 .. j : <<x, y>> \in R <=> e[x] > e[y] \/ (e[x] = e[y] /\ x >= y)
  <2> DEFINE R == {z \in (1 .. j) \X (1 .. j) :
                     e[z[1]] > e[z[2]] \/ (e[z[1]] = e[z[2]] /\ z[1] >= z[2])}
  <2>1. \A x, y \in 1 .. j : <<x, y>> \in R <=> e[x] > e[y] \/ (e[x] = e[y] /\ x >= y)
    OBVIOUS
  <2> QED
    BY <2>1
<1>4. \A x \in 1 .. j : e[x] \in Int
  BY <1>1, <1>2
<1>5. \A x, y \in 1 .. j : <<x, y>> \in R \/ <<y, x>> \in R
  <2> TAKE x, y \in 1 .. j
  <2>1. \/ e[x] > e[y] \/ (e[x] = e[y] /\ x >= y)
        \/ e[y] > e[x] \/ (e[y] = e[x] /\ y >= x)
    BY <1>4
  <2> QED
    BY <1>3, <2>1
<1>6. \A x, y, z \in 1 .. j : <<x, y>> \in R /\ <<y, z>> \in R => <<x, z>> \in R
  <2> TAKE x, y, z \in 1 .. j
  <2> HAVE <<x, y>> \in R /\ <<y, z>> \in R
  <2>1. /\ e[x] > e[y] \/ (e[x] = e[y] /\ x >= y)
        /\ e[y] > e[z] \/ (e[y] = e[z] /\ y >= z)
    BY <1>3
  <2>2. e[x] > e[z] \/ (e[x] = e[z] /\ x >= z)
    BY <1>4, <2>1
  <2> QED
    BY <1>3, <2>2
<1>7. PICK S : S = 1 .. j
  OBVIOUS
<1>8. IsFiniteSet(S) /\ S # {}
  <2>1. 1 \in 1 .. j
    OBVIOUS
  <2>2. IsFiniteSet(1 .. j)
    BY FS_Interval
  <2> QED
    BY <1>7, <2>1, <2>2
<1>9. PICK i \in S : \A k \in S : <<i, k>> \in R
  BY <1>5, <1>6, <1>7, <1>8, GreatestExists
<1>10. \A k \in 1 .. j : e[i] > e[k] \/ (e[i] = e[k] /\ i >= k)
  BY <1>3, <1>7, <1>9
<1>11. \A k \in 1 .. j : c[k].equity <= c[i].equity /\ (c[k].equity = c[i].equity => k <= i)
  BY <1>1, <1>2, <1>4, <1>7, <1>10
<1> QED
  BY <1>7, <1>11 DEF IsPeak

\* Two curves of the same days: q falls behind p, further and further.
FallsBehind(p, q) ==
  /\ Len(p) = Len(q)
  /\ \A k \in 1 .. Len(p) : p[k].day = q[k].day
  /\ \A m \in 1 .. Len(p) : \A k \in 1 .. m :
       /\ 0 <= p[k].equity - q[k].equity
       /\ p[k].equity - q[k].equity <= p[m].equity - q[m].equity

\* A fall by as much or more from a peak that is lower by no more is a larger part of it.
LEMMA DeeperPart ==
  ASSUME NEW e \in Nat \ {0}, NEW a \in Int, a <= e, NEW x \in Nat, NEW b \in Int, b <= a - x,
         NEW h \in Nat \ {0}, e - x <= h, h <= e,
         NEW f \in Nat, NEW g \in Nat \ {0}, (h - b) * g <= f * h
  PROVE  (e - a) * g <= f * e
<1>1. b * e <= a * h
  <2>1. b * e <= (a - x) * e
    <3>1. (a - x - b) * e >= 0
      OBVIOUS
    <3> QED
      BY <3>1
  <2>2. (a - x) * e <= a * h
    <3>1. (a - x) * e = a * e - x * e
      OBVIOUS
    <3>2. CASE a >= 0
      <4>1. a * (e - x) <= a * h
        <5>1. a * (h - (e - x)) >= 0
          BY <3>2
        <5> QED
          BY <5>1
      <4>2. a * x <= e * x
        <5>1. (e - a) * x >= 0
          OBVIOUS
        <5> QED
          BY <5>1
      <4>3. a * (e - x) = a * e - a * x
        OBVIOUS
      <4> QED
        BY <3>1, <4>1, <4>2, <4>3
    <3>3. CASE a < 0
      <4>1. a * e <= a * h
        <5>1. (0 - a) * (e - h) >= 0
          BY <3>3
        <5> QED
          BY <5>1
      <4>2. x * e >= 0
        OBVIOUS
      <4> QED
        BY <3>1, <4>1, <4>2
    <3> QED
      BY <3>2, <3>3
  <2> QED
    BY <2>1, <2>2
<1>2. (e - a) * h <= (h - b) * e
  <2>1. (e - a) * h = e * h - a * h /\ (h - b) * e = h * e - b * e /\ e * h = h * e
    OBVIOUS
  <2> QED
    BY <1>1, <2>1
<1>3. PICK u \in Nat, w \in Int : u = e - a /\ w = h - b
  OBVIOUS
<1>4. u * h <= w * e /\ w * g <= f * h
  BY <1>2, <1>3
<1>5. (u * h) * g <= (w * e) * g
  <2>1. (w * e - u * h) * g >= 0
    BY <1>4
  <2> QED
    BY <2>1
<1>6. (w * g) * e <= (f * h) * e
  <2>1. (f * h - w * g) * e >= 0
    BY <1>4
  <2> QED
    BY <2>1
<1>7. /\ (w * e) * g = (w * g) * e /\ (u * h) * g = (u * g) * h /\ (f * h) * e = (f * e) * h
  OBVIOUS
<1>8. (u * g) * h <= (f * e) * h
  BY <1>5, <1>6, <1>7
<1>9. ASSUME u * g > f * e PROVE FALSE
  <2>1. (u * g - f * e) * h > 0
    BY <1>9
  <2> QED
    BY <1>8, <2>1
<1> QED
  BY <1>3, <1>9

\* The curve that falls behind has no smaller drawdown.
LEMMA DrawdownBehind ==
  ASSUME NEW p \in Seq(Point), NEW q \in Seq(Point), FallsBehind(p, q), Len(p) >= 1,
         p[1].equity = StartingEquity, q[1].equity = StartingEquity,
         NEW f \in Nat, NEW g \in Nat \ {0}, NEW k \in Nat, NEW h \in Nat \ {0},
         IsDrawdown(p, f, g), IsDrawdown(q, k, h)
  PROVE  f * h <= k * g
<1>1. PICK l \in Nat : l = Len(p) /\ l = Len(q) /\ DOMAIN p = 1 .. l /\ DOMAIN q = 1 .. l /\ l >= 1
  BY DEF FallsBehind
<1>2. \A j \in 1 .. l : p[j].equity \in Int /\ q[j].equity \in Int
  BY <1>1, PointDays
<1>3. CASE f = 0
  <2>1. 0 <= k * g /\ 0 * h = 0
    OBVIOUS
  <2> QED
    BY <1>3, <2>1
<1>4. CASE f # 0
  <2>1. PICK j \in 1 .. l : FallReached(p, j, f, g)
    BY <1>1, <1>4, DrawdownUnfolded
  <2>2. PICK i \in 1 .. j : IsPeak(p, i, j) /\ g = p[i].equity /\ f = p[i].equity - p[j].equity
    BY <2>1 DEF FallReached
  <2>3. PICK n \in 1 .. j : IsPeak(q, n, j)
    BY <1>1, PeakExists
  <2>4. FallWithin(q, j, k, h)
    BY <1>1, DrawdownUnfolded
  <2>5. (q[n].equity - q[j].equity) * h <= k * q[n].equity
    BY <2>3, <2>4 DEF FallWithin
  <2>6. q[n].equity \in Nat \ {0} /\ p[i].equity \in Nat \ {0}
    BY <1>1, <2>2, <2>3, PeakPositive
  <2>7. i \in 1 .. l /\ n \in 1 .. l /\ j \in 1 .. l
    BY <2>1, <2>2, <2>3
  <2>8. /\ 0 <= p[i].equity - q[i].equity
        /\ p[i].equity - q[i].equity <= p[j].equity - q[j].equity
    BY <1>1, <2>1, <2>2 DEF FallsBehind
  <2>9. q[i].equity <= q[n].equity /\ p[n].equity <= p[i].equity /\ p[j].equity <= p[i].equity
    BY <2>1, <2>2, <2>3 DEF IsPeak
  <2>10. 0 <= p[n].equity - q[n].equity
    BY <1>1, <2>1, <2>3 DEF FallsBehind
  <2>11. PICK e \in Nat \ {0}, t \in Nat \ {0} : e = p[i].equity /\ t = q[n].equity
    BY <2>6
  <2>14. PICK a \in Int, b \in Int : a = p[j].equity /\ b = q[j].equity
    BY <1>2
  <2>15. PICK y \in Int, z \in Int : y = q[i].equity /\ z = p[n].equity
    BY <1>2, <2>7
  <2>17. /\ 0 <= e - y /\ e - y <= a - b
         /\ y <= t /\ z <= e /\ a <= e /\ 0 <= z - t
    BY <2>8, <2>9, <2>10, <2>11, <2>14, <2>15, Zenon
  <2>16. PICK x \in Nat : x = e - y
    BY <2>17
  <2>12. a <= e /\ b <= a - x /\ e - x <= t /\ t <= e
    BY <2>16, <2>17
  <2>13. (e - a) * h <= k * e
    <3>1. (t - b) * h <= k * t
      BY <2>5, <2>11, <2>14
    <3> QED
      BY <2>12, <3>1, DeeperPart
  <2> QED
    BY <2>2, <2>11, <2>13, <2>14
<1> QED
  BY <1>3, <1>4

\* What is under water in a curve lies within what is in the curve that falls behind.
LEMMA StretchWidens ==
  ASSUME NEW p \in Seq(Point), NEW q \in Seq(Point), FallsBehind(p, q),
         NEW i \in DOMAIN p, NEW k \in DOMAIN p, IsStretch(p, i, k)
  PROVE  \E n \in 1 .. i : \E x \in k .. Len(q) : IsStretch(q, n, x)
<1>1. PICK l \in Nat : l = Len(p) /\ l = Len(q) /\ DOMAIN p = 1 .. l /\ DOMAIN q = 1 .. l
  BY DEF FallsBehind
<1>2. \A j \in 1 .. l : p[j].equity \in Int /\ q[j].equity \in Int
  BY <1>1, PointDays
<1>3. PICK a, b : /\ a = [j \in 1 .. l |-> p[j].equity]
                  /\ b = [j \in 1 .. l |-> q[j].equity]
  OBVIOUS
<1>4. \A j \in 1 .. l : a[j] = p[j].equity /\ b[j] = q[j].equity /\ a[j] \in Int /\ b[j] \in Int
  BY <1>2, <1>3
<1>5. /\ i \in 1 .. l /\ k \in 1 .. l /\ k > i
      /\ \A j \in 1 .. k - 1 : a[j] <= a[i] /\ (a[j] = a[i] => j <= i)
      /\ (k > i + 1 /\ a[k] >= a[i]) \/ (k = l /\ a[k] < a[i])
  <2>1. i \in 1 .. l /\ k \in 1 .. l /\ k > i /\ IsPeak(p, i, k - 1)
        /\ ((k > i + 1 /\ p[k].equity >= p[i].equity) \/ (k = l /\ p[k].equity < p[i].equity))
    BY <1>1 DEF IsStretch
  <2>2. \A j \in 1 .. k - 1 : j \in 1 .. l
    BY <2>1
  <2>3. \A j \in 1 .. k - 1 : a[j] <= a[i] /\ (a[j] = a[i] => j <= i)
    BY <1>4, <2>1, <2>2 DEF IsPeak
  <2> QED
    BY <1>4, <2>1, <2>3
<1>6. PICK u \in 1 .. l :
        /\ u >= i + 1 /\ u >= k - 1 /\ (u < l => u = k - 1)
        /\ \A j \in i + 1 .. u : a[j] < a[i]
  <2>1. CASE k > i + 1 /\ a[k] >= a[i]
    <3>1. k - 1 \in 1 .. l /\ k - 1 >= i + 1
      BY <1>5, <2>1
    <3>2. \A j \in i + 1 .. k - 1 : a[j] < a[i]
      <4> TAKE j \in i + 1 .. k - 1
      <4>1. j \in 1 .. k - 1 /\ j \in 1 .. l /\ ~(j <= i)
        BY <1>5
      <4> QED
        BY <1>4, <1>5, <4>1
    <3> QED
      BY <3>1, <3>2
  <2>2. CASE k = l /\ a[k] < a[i]
    <3>1. \A j \in i + 1 .. l : a[j] < a[i]
      <4> TAKE j \in i + 1 .. l
      <4>1. CASE j = l
        BY <2>2, <4>1
      <4>2. CASE j # l
        <5>1. j \in 1 .. k - 1 /\ j \in 1 .. l /\ ~(j <= i)
          BY <1>5, <2>2, <4>2
        <5> QED
          BY <1>4, <1>5, <5>1
      <4> QED
        BY <4>1, <4>2
    <3>2. l \in 1 .. l /\ l >= i + 1 /\ l >= k - 1
      BY <1>5, <2>2
    <3> QED
      BY <3>1, <3>2
  <2> QED
    BY <1>5, <2>1, <2>2
<1>7. PICK n \in 1 .. u : IsPeak(q, n, u)
  BY <1>1, <1>6, PeakExists
<1>8. /\ n \in 1 .. l
      /\ \A j \in 1 .. u : b[j] <= b[n] /\ (b[j] = b[n] => j <= n)
  <2>1. \A j \in 1 .. u : j \in 1 .. l
    BY <1>6
  <2> QED
    BY <1>4, <1>7, <2>1 DEF IsPeak
<1>9. n <= i
  <2> SUFFICES ASSUME n > i PROVE FALSE
    BY <1>5, <1>7
  <2>1. a[n] < a[i] /\ i \in 1 .. n /\ i \in 1 .. u
    BY <1>5, <1>6, <1>7
  <2>2. p[i].equity - q[i].equity <= p[n].equity - q[n].equity
    BY <1>1, <1>8, <2>1 DEF FallsBehind
  <2>3. a[i] - b[i] <= a[n] - b[n]
    BY <1>4, <1>5, <1>8, <2>2
  <2>4. b[i] <= b[n]
    BY <1>8, <2>1
  <2>5. a[n] \in Int /\ a[i] \in Int /\ b[n] \in Int /\ b[i] \in Int
    BY <1>4, <1>5, <1>8
  <2> QED
    BY <2>1, <2>3, <2>4, <2>5
<1>10. \A j \in n + 1 .. u : b[j] < b[n]
  <2> TAKE j \in n + 1 .. u
  <2>1. j \in 1 .. u /\ j \in 1 .. l /\ ~(j <= n)
    BY <1>6, <1>8
  <2> QED
    BY <1>4, <1>8, <2>1
<1>11. ASSUME NEW x \in n + 1 .. l, x >= u, \A j \in u + 1 .. x - 1 : b[j] < b[n]
       PROVE  IsPeak(q, n, x - 1)
  <2>1. n \in 1 .. x - 1 \/ x - 1 < n
    BY <1>8
  <2>2. \A j \in 1 .. x - 1 : j \in 1 .. u \/ j \in u + 1 .. x - 1
    BY <1>6, <1>11
  <2>3. \A j \in 1 .. x - 1 : b[j] <= b[n] /\ (b[j] = b[n] => j <= n)
    <3> TAKE j \in 1 .. x - 1
    <3>1. CASE j \in 1 .. u
      BY <1>8, <3>1
    <3>2. CASE j \in u + 1 .. x - 1
      <4>1. j \in 1 .. l /\ b[j] < b[n]
        BY <1>6, <1>11, <3>2
      <4> QED
        BY <1>4, <1>8, <4>1
    <3> QED
      BY <2>2, <3>1, <3>2
  <2>4. n \in 1 .. x - 1 /\ \A j \in 1 .. x - 1 : j \in 1 .. l
    BY <1>8, <1>11
  <2> QED
    BY <1>4, <1>8, <2>3, <2>4 DEF IsPeak
<1>12. n < u
  BY <1>5, <1>6, <1>8, <1>9
<1>13. CASE \E x \in u + 1 .. l : b[x] >= b[n]
  <2>1. PICK S : S = {x \in u + 1 .. l : b[x] >= b[n]}
    OBVIOUS
  <2>2. IsFiniteSet(S) /\ S # {} /\ S \subseteq Int
    <3>1. IsFiniteSet(u + 1 .. l)
      BY <1>6, FS_Interval
    <3>2. S \subseteq u + 1 .. l /\ S # {}
      BY <1>13, <2>1
    <3>3. PICK T : T = u + 1 .. l
      OBVIOUS
    <3>4. IsFiniteSet(S)
      BY <3>1, <3>2, <3>3, FS_Subset
    <3> QED
      BY <3>2, <3>4
  <2>3. PICK x \in S : \A y \in S : x <= y
    BY <2>2, SmallestOf
  <2>4. x \in u + 1 .. l /\ b[x] >= b[n]
    BY <2>1, <2>3
  <2>5. \A j \in u + 1 .. x - 1 : b[j] < b[n]
    <3> TAKE j \in u + 1 .. x - 1
    <3>1. j \in u + 1 .. l /\ j \in 1 .. l /\ ~(x <= j)
      BY <1>6, <2>4
    <3>2. j \notin S
      BY <2>3, <3>1
    <3>3. ~(b[j] >= b[n])
      BY <2>1, <3>1, <3>2
    <3> QED
      BY <1>4, <1>8, <3>1, <3>3
  <2>6. x \in n + 1 .. l /\ x >= u /\ x > n + 1 /\ x > n /\ x >= k /\ x \in 1 .. l
    BY <1>5, <1>6, <1>8, <1>12, <2>4
  <2>7. IsPeak(q, n, x - 1)
    BY <1>11, <2>5, <2>6
  <2>8. q[x].equity >= q[n].equity
    BY <1>4, <1>8, <2>4, <2>6
  <2>9. IsStretch(q, n, x)
    BY <2>6, <2>7, <2>8 DEF IsStretch
  <2>10. n \in 1 .. i /\ x \in k .. Len(q)
    BY <1>1, <1>5, <1>8, <1>9, <2>6
  <2> QED
    BY <2>9, <2>10
<1>14. CASE ~\E x \in u + 1 .. l : b[x] >= b[n]
  <2>1. \A j \in u + 1 .. l : b[j] < b[n]
    <3> TAKE j \in u + 1 .. l
    <3>1. j \in 1 .. l /\ ~(b[j] >= b[n])
      BY <1>6, <1>14
    <3> QED
      BY <1>4, <1>8, <3>1
  <2>2. l \in n + 1 .. l /\ l >= u /\ l > n /\ l \in 1 .. l
    BY <1>6, <1>8, <1>12
  <2>3. b[l] < b[n]
    <3>1. l \in n + 1 .. u \/ l \in u + 1 .. l
      BY <1>6, <2>2
    <3> QED
      BY <1>10, <2>1, <3>1
  <2>4. IsPeak(q, n, l - 1)
    <3>1. \A j \in u + 1 .. l - 1 : b[j] < b[n]
      BY <2>1
    <3> QED
      BY <1>11, <2>2, <3>1
  <2>5. q[l].equity < q[n].equity
    BY <1>4, <1>8, <2>2, <2>3
  <2>6. IsStretch(q, n, l)
    BY <1>1, <2>2, <2>4, <2>5 DEF IsStretch
  <2>7. n \in 1 .. i /\ l \in k .. Len(q)
    BY <1>1, <1>5, <1>8, <1>9
  <2> QED
    BY <2>6, <2>7
<1> QED
  BY <1>13, <1>14

\* The curve that falls behind is under water for as long at least.
LEMMA LongestBehind ==
  ASSUME NEW p \in Seq(Point), NEW q \in Seq(Point), FallsBehind(p, q), DaysRise(q)
  PROVE  LongestUnderwater(p) <= LongestUnderwater(q)
<1>1. PICK l \in Nat : l = Len(p) /\ l = Len(q) /\ DOMAIN p = 1 .. l /\ DOMAIN q = 1 .. l
  BY DEF FallsBehind
<1>2. PICK d : d = LongestUnderwater(p)
  OBVIOUS
<1>3. d = 0 \/ \E i, k \in DOMAIN p : IsStretch(p, i, k) /\ d = p[k].day - p[i].day
  BY <1>2, LongestIs
<1>4. PICK e \in Int :
        /\ e = LongestUnderwater(q) /\ e >= 0
        /\ \A i, k \in DOMAIN q : IsStretch(q, i, k) => q[k].day - q[i].day <= e
  <2>1. PICK e : e = LongestUnderwater(q)
    OBVIOUS
  <2> QED
    BY <2>1, LongestIs
<1>5. CASE d = 0
  BY <1>2, <1>4, <1>5
<1>6. CASE d # 0
  <2>1. PICK i \in 1 .. l, k \in 1 .. l : IsStretch(p, i, k) /\ d = p[k].day - p[i].day
    BY <1>1, <1>3, <1>6
  <2>2. \E n \in 1 .. i : \E x \in k .. l : IsStretch(q, n, x)
    BY <1>1, <2>1, StretchWidens
  <2>3. PICK n \in 1 .. i : \E x \in k .. l : IsStretch(q, n, x)
    BY <2>2
  <2>4. PICK x \in k .. l : IsStretch(q, n, x)
    BY <2>3
  <2>5. n \in 1 .. l /\ x \in 1 .. l /\ n \in 1 .. i /\ k \in 1 .. x
    BY <2>1, <2>3, <2>4
  <2>6. q[n].day <= q[i].day /\ q[k].day <= q[x].day
    BY <1>1, <2>1, <2>5 DEF DaysRise
  <2>7. p[i].day = q[i].day /\ p[k].day = q[k].day
    BY <1>1, <2>1 DEF FallsBehind
  <2>8. q[x].day - q[n].day <= e
    BY <1>1, <1>4, <2>4, <2>5
  <2>9. q[n].day \in Nat /\ q[i].day \in Nat /\ q[k].day \in Nat /\ q[x].day \in Nat
    BY <1>1, <2>1, <2>5, PointDays
  <2>11. PICK w \in Nat, y \in Nat, z \in Nat, v \in Nat :
           w = q[n].day /\ y = q[i].day /\ z = q[k].day /\ v = q[x].day
    BY <2>9
  <2>12. w <= y /\ z <= v /\ d = z - y /\ v - w <= e
    BY <2>1, <2>6, <2>7, <2>8, <2>11, Zenon
  <2>10. d <= e
    BY <1>4, <2>12
  <2> QED
    BY <1>2, <1>4, <2>10
<1> QED
  BY <1>5, <1>6

\* c asks for no less than b.
Costlier(b, c) == b.slippage <= c.slippage /\ b.commission <= c.commission

\* A trade earns no more at higher costs.
LEMMA CostlierTrade ==
  ASSUME NEW t \in HistoricalTrade, NEW b \in CostRecord, NEW c \in CostRecord, Costlier(b, c)
  PROVE  NetPnl(t, c) <= NetPnl(t, b)
<1>1. PICK cr \in Nat, de \in Nat, n \in Nat, m \in Nat, bs \in Nat, cs \in Nat, bc \in Nat, cc \in Nat :
        /\ cr = t.credit /\ de = t.debit /\ n = t.contracts /\ m = Multiplier
        /\ bs = b.slippage /\ cs = c.slippage /\ bc = b.commission /\ cc = c.commission
        /\ bs <= cs /\ bc <= cc
  BY ConfigAssumption DEF HistoricalTrade, CostRecord, Costlier
<1>2. /\ NetPnl(t, b) = ((cr - bs) - (de + bs)) * m * n - bc * 4 * n
      /\ NetPnl(t, c) = ((cr - cs) - (de + cs)) * m * n - cc * 4 * n
  BY <1>1 DEF NetPnl, EntryFill, ExitFill, CommissionDrag
<1>3. /\ ((cr - bs) - (de + bs)) * m * n = (cr - de) * m * n - bs * 2 * m * n
      /\ ((cr - cs) - (de + cs)) * m * n = (cr - de) * m * n - cs * 2 * m * n
  BY BothSides
<1>4. bs * 2 * m * n <= cs * 2 * m * n
  <2>1. (cs - bs) * (2 * m * n) >= 0
    <3>1. 2 * m * n \in Nat /\ cs - bs \in Nat
      BY <1>1
    <3> QED
      BY <3>1
  <2> QED
    BY <2>1
<1>5. bc * 4 * n <= cc * 4 * n
  <2>1. (cc - bc) * (4 * n) >= 0
    <3>1. 4 * n \in Nat /\ cc - bc \in Nat
      BY <1>1
    <3> QED
      BY <3>1
  <2> QED
    BY <2>1
<1>6. PICK g \in Int, xb \in Int, xc \in Int, yb \in Int, yc \in Int :
        /\ g = (cr - de) * m * n /\ xb = bs * 2 * m * n /\ xc = cs * 2 * m * n
        /\ yb = bc * 4 * n /\ yc = cc * 4 * n
  OBVIOUS
<1>7. NetPnl(t, b) = (g - xb) - yb /\ NetPnl(t, c) = (g - xc) - yc /\ xb <= xc /\ yb <= yc
  BY <1>2, <1>3, <1>4, <1>5, <1>6, Zenon
<1> QED
  BY <1>7

\* The more trades are closed, the further higher costs fall behind.
LEMMA LagGrows ==
  ASSUME NEW s, Sampled(s), NEW b \in CostRecord, NEW c \in CostRecord, Costlier(b, c),
         NEW T, T \subseteq DOMAIN s, NEW S, S \subseteq T
  PROVE  EquityAfter(s, b, S) - EquityAfter(s, c, S)
           <= EquityAfter(s, b, T) - EquityAfter(s, c, T)
<1>1. PICK f, g : f = Net(s, b) /\ g = Net(s, c)
  OBVIOUS
<1>2. \A i \in T : f[i] \in Int /\ g[i] \in Int /\ g[i] <= f[i]
  BY <1>1, AmountsAre, CostlierTrade DEF Sampled
<1>3. PICK R : R = T \ S
  OBVIOUS
<1>4. IsFiniteSet(S) /\ IsFiniteSet(R) /\ S \cap R = {} /\ T = S \cup R
  BY <1>3, FS_Subset DEF Sampled
<1>5. /\ SumFunctionOnSet(f, S \cup R) = SumFunctionOnSet(f, S) + SumFunctionOnSet(f, R)
      /\ SumFunctionOnSet(g, S \cup R) = SumFunctionOnSet(g, S) + SumFunctionOnSet(g, R)
  BY <1>2, <1>4, SumSplit
<1>6. SumFunctionOnSet(g, R) <= SumFunctionOnSet(f, R)
  BY <1>2, <1>4, SumOrder
<1>7. PICK fs \in Int, gs \in Int, fr \in Int, gr \in Int :
        /\ fs = SumFunctionOnSet(f, S) /\ gs = SumFunctionOnSet(g, S)
        /\ fr = SumFunctionOnSet(f, R) /\ gr = SumFunctionOnSet(g, R)
  BY <1>2, <1>4, SumInt
<1>8. /\ EquityAfter(s, b, S) = StartingEquity + fs /\ EquityAfter(s, c, S) = StartingEquity + gs
      /\ EquityAfter(s, b, T) = StartingEquity + (fs + fr)
      /\ EquityAfter(s, c, T) = StartingEquity + (gs + gr)
  BY <1>1, <1>4, <1>5, <1>7, Zenon DEF EquityAfter, SumOver
<1> QED
  BY <1>6, <1>7, <1>8, ConfigAssumption

\* The same trades, closed in the same order, at higher costs.
LEMMA CurvesDiverge ==
  ASSUME NEW s, Sampled(s), NEW b \in CostRecord, NEW c \in CostRecord, Costlier(b, c),
         NEW m, NEW D, D = Executed(s, m), NEW p \in Seq(Point), NEW q \in Seq(Point),
         CurveTold(p, s, m, b, D), CurveTold(q, s, m, c, D)
  PROVE  FallsBehind(p, q) /\ Len(p) >= 1
<1>1. D \subseteq DOMAIN s /\ IsFiniteSet(D) /\ Cardinality(D) \in Nat
  <2>1. D \subseteq DOMAIN s
    BY ExecutedIn
  <2> QED
    BY <2>1, FS_Subset, FS_CardinalityType DEF Sampled
<1>2. Orders(Closing(s), D)
  BY <1>1, SampleOrders, OrdersPart
<1>3. PICK l \in Nat : l = Len(p) /\ l = Len(q) /\ l = 1 + Cardinality(D)
  BY <1>1 DEF CurveTold
<1> DEFINE Told(k, U) ==
             /\ U \subseteq D /\ Cardinality(U) = k - 1
             /\ p[k].equity = EquityAfter(s, b, U) /\ q[k].equity = EquityAfter(s, c, U)
             /\ U = {} \/ \E i \in D : U = UpTo(Closing(s), D, i)
<1>4. ASSUME NEW k \in 1 .. l
      PROVE  p[k].day = q[k].day /\ \E U : Told(k, U)
  <2>1. CASE k = 1
    <3>1. p[1] = q[1] /\ p[1].equity = StartingEquity /\ q[1].equity = StartingEquity
      BY DEF CurveTold
    <3>2. Told(1, {})
      BY <3>1, NothingAdded, FS_EmptySet
    <3> QED
      BY <2>1, <3>1, <3>2
  <2>2. CASE k # 1
    <3>1. k \in 2 .. l
      BY <2>2
    <3>2. PICK i \in D : IsPoint(p[k], k, s, m, b, i)
      BY <1>3, <3>1 DEF CurveTold
    <3>3. PICK j \in D : IsPoint(q[k], k, s, m, c, j)
      BY <1>3, <3>1 DEF CurveTold
    <3>4. PICK U, V : U = UpTo(Closing(s), D, i) /\ V = UpTo(Closing(s), D, j)
      OBVIOUS
    <3>5. /\ Cardinality(U) = k - 1 /\ p[k].day = s[i].exit /\ p[k].equity = EquityAfter(s, b, U)
          /\ Cardinality(V) = k - 1 /\ q[k].day = s[j].exit /\ q[k].equity = EquityAfter(s, c, V)
      BY <3>2, <3>3, <3>4 DEF IsPoint, ClosedBy
    <3>6. i = j
      <4>1. Cardinality(UpTo(Closing(s), D, i)) = k - 1 /\ Cardinality(UpTo(Closing(s), D, j)) = k - 1
        BY <3>4, <3>5
      <4>2. /\ Cardinality(UpTo(Closing(s), D, i)) <= Cardinality(UpTo(Closing(s), D, j))
            /\ Cardinality(UpTo(Closing(s), D, i)) = Cardinality(UpTo(Closing(s), D, j))
        BY <4>1
      <4> QED
        BY <1>1, <1>2, <4>2, RanksTell
    <3>7. Told(k, U)
      BY <3>4, <3>5, <3>6 DEF UpTo
    <3> QED
      BY <3>5, <3>6, <3>7
  <2> QED
    BY <2>1, <2>2
<1>5. ASSUME NEW n \in 1 .. l, NEW k \in 1 .. n
      PROVE  /\ 0 <= p[k].equity - q[k].equity
             /\ p[k].equity - q[k].equity <= p[n].equity - q[n].equity
  <2>1. k \in 1 .. l
    OBVIOUS
  <2>2. PICK U : Told(k, U)
    BY <1>4, <2>1
  <2>3. PICK V : Told(n, V)
    BY <1>4
  <2>4. U \subseteq V
    <3>1. CASE U = {}
      BY <3>1
    <3>2. CASE U # {}
      <4>1. PICK i \in D : U = UpTo(Closing(s), D, i)
        BY <2>2, <3>2
      <4>2. Cardinality(U) # 0 /\ Cardinality(U) = k - 1 /\ Cardinality(V) = n - 1
        <5>1. IsFiniteSet(U)
          BY <1>1, <2>2, FS_Subset
        <5> QED
          BY <2>2, <2>3, <3>2, <5>1, FS_EmptySet
      <4>3. V # {}
        <5>1. n - 1 # 0
          BY <4>2
        <5>2. Cardinality({}) = 0
          BY FS_EmptySet
        <5> QED
          BY <4>2, <5>1, <5>2
      <4>4. PICK j \in D : V = UpTo(Closing(s), D, j)
        BY <2>3, <4>3
      <4>5. Cardinality(UpTo(Closing(s), D, i)) <= Cardinality(UpTo(Closing(s), D, j))
        BY <4>1, <4>2, <4>4
      <4> QED
        BY <1>1, <1>2, <4>1, <4>4, <4>5, RanksTell
    <3> QED
      BY <3>1, <3>2
  <2>5. U \subseteq DOMAIN s /\ V \subseteq DOMAIN s /\ {} \subseteq U
    BY <1>1, <2>2, <2>3
  <2>6. EquityAfter(s, b, U) - EquityAfter(s, c, U) <= EquityAfter(s, b, V) - EquityAfter(s, c, V)
    BY <2>4, <2>5, LagGrows
  <2>7. EquityAfter(s, b, {}) - EquityAfter(s, c, {}) <= EquityAfter(s, b, U) - EquityAfter(s, c, U)
    BY <2>5, LagGrows
  <2>8. EquityAfter(s, b, {}) - EquityAfter(s, c, {}) = 0
    BY NothingAdded, ConfigAssumption
  <2> QED
    BY <2>2, <2>3, <2>6, <2>7, <2>8
<1>6. \A k \in 1 .. l : p[k].day = q[k].day
  BY <1>4
<1> QED
  BY <1>1, <1>3, <1>5, <1>6 DEF FallsBehind

\* Higher costs win no more trades and earn no more.
LEMMA CostlierEarnsLess ==
  ASSUME NEW s, Sampled(s), NEW b \in CostRecord, NEW c \in CostRecord, Costlier(b, c),
         NEW D, D \subseteq DOMAIN s
  PROVE  /\ EquityAfter(s, c, D) <= EquityAfter(s, b, D)
         /\ TotalsOf(s, c, D).wins <= TotalsOf(s, b, D).wins
<1>1. IsFiniteSet(D)
  BY FS_Subset DEF Sampled
<1>2. PICK f, g, v, w : f = Net(s, c) /\ g = Net(s, b) /\ v = Win(s, c) /\ w = Win(s, b)
  OBVIOUS
<1>3. \A i \in D : /\ f[i] \in Int /\ g[i] \in Int /\ f[i] <= g[i]
                   /\ f[i] = NetPnl(s[i], c) /\ g[i] = NetPnl(s[i], b)
  BY <1>2, AmountsAre, CostlierTrade DEF Sampled
<1>4. \A i \in D : /\ v[i] \in Int /\ v[i] = (IF f[i] > 0 THEN 1 ELSE 0)
                   /\ w[i] \in Int /\ w[i] = (IF g[i] > 0 THEN 1 ELSE 0)
  BY <1>2, <1>3, AmountsAre
<1>5. \A i \in D : v[i] <= w[i]
  BY <1>3, <1>4
<1>6. SumFunctionOnSet(f, D) <= SumFunctionOnSet(g, D)
  BY <1>1, <1>3, SumOrder
<1>7. SumFunctionOnSet(v, D) <= SumFunctionOnSet(w, D)
  BY <1>1, <1>4, <1>5, SumOrder
<1>8. SumFunctionOnSet(f, D) \in Int /\ SumFunctionOnSet(g, D) \in Int
  BY <1>1, <1>3, SumInt
<1>9. EquityAfter(s, c, D) <= EquityAfter(s, b, D)
  BY <1>2, <1>6, <1>8, ConfigAssumption DEF EquityAfter, SumOver
<1> QED
  BY <1>2, <1>7, <1>9 DEF TotalsOf, SumOver

\* No scenario that raises the costs ends higher, wins more or falls less far than the base
\* run, for any file, account and costs; nor does it recover faster when the trade entered
\* last exits last.
THEOREM CostsNeverFlatter == Spec => []HigherCostsLookNoBetter
<1>1. ToldInv /\ DrawdownIsExact /\ RecoveryIsExact => HigherCostsLookNoBetter
  <2> SUFFICES ASSUME ToldInv, DrawdownIsExact, RecoveryIsExact,
                      NEW n \in DOMAIN reports \cap {2, 3, 6},
                      NEW base, base = reports[1], NEW r, r = reports[n]
               PROVE  /\ r.executed = base.executed
                      /\ r.equity <= base.equity /\ r.sums.wins <= base.sums.wins
                      /\ base.fall * r.from <= r.fall * base.from
                      /\ LastEnteredExitsLast(history) => base.recovery <= r.recovery
    BY Zenon DEF HigherCostsLookNoBetter
  <2>1. /\ base.sample = history /\ RunTold(base, BaseCosts) /\ ReportOK(base)
        /\ Sampled(history) /\ BaseCosts \in CostRecord
    BY BaseReport
  <2>2. PICK c \in CostRecord : Plays(n, r.sample, c) /\ RunTold(r, c)
    BY ReportOf
  <2>3. 1 \in DOMAIN reports /\ ReportOK(r)
    BY ReportOf
  <2>4. r.sample = history /\ Costlier(BaseCosts, c)
    <3>1. /\ r.sample = history
          /\ c \in {[BaseCosts EXCEPT !.slippage = 2 * @], [BaseCosts EXCEPT !.slippage = 3 * @],
                    SensitivityCosts}
      BY <2>2 DEF Plays
    <3>2. /\ HalfSlippage \in Nat /\ HalfCommission \in Nat
      BY ConfigAssumption
    <3> QED
      BY <3>1, <3>2 DEF Costlier, BaseCosts, SensitivityCosts, Costs
  <2>5. PICK s, m, b, D : s = history /\ m = mode /\ b = BaseCosts /\ D = Executed(history, mode)
    OBVIOUS
  <2>6. D \subseteq DOMAIN s /\ D = Executed(s, m) /\ Sampled(s) /\ b \in CostRecord
    BY <2>1, <2>5, ExecutedIn
  <2>7. /\ base.executed = Cardinality(D) /\ base.equity = EquityAfter(s, b, D)
        /\ base.sums = TotalsOf(s, b, D) /\ CurveTold(base.curve, s, m, b, D)
        /\ r.executed = Cardinality(D) /\ r.equity = EquityAfter(s, c, D)
        /\ r.sums = TotalsOf(s, c, D) /\ CurveTold(r.curve, s, m, c, D)
    BY <2>1, <2>2, <2>4, <2>5 DEF RunTold
  <2>8. r.equity <= base.equity /\ r.sums.wins <= base.sums.wins
    BY <2>4, <2>5, <2>6, <2>7, CostlierEarnsLess
  <2>9. PICK p \in Seq(Point), q \in Seq(Point) : p = base.curve /\ q = r.curve
    BY <2>1, <2>3 DEF ReportOK
  <2>10. FallsBehind(p, q) /\ Len(p) >= 1
    BY <2>4, <2>5, <2>6, <2>7, <2>9, CurvesDiverge
  <2>11. base.fall * r.from <= r.fall * base.from
    <3>1. IsDrawdown(p, base.fall, base.from) /\ IsDrawdown(q, r.fall, r.from)
      BY <2>3, <2>9 DEF DrawdownIsExact
    <3>2. p[1].equity = StartingEquity /\ q[1].equity = StartingEquity
      BY <2>7, <2>9 DEF CurveTold
    <3>3. PICK f \in Nat, g \in Nat \ {0}, k \in Nat, h \in Nat \ {0} :
            f = base.fall /\ g = base.from /\ k = r.fall /\ h = r.from
      BY <2>1, <2>3 DEF ReportOK
    <3>4. f * h <= k * g
      BY <2>10, <3>1, <3>2, <3>3, DrawdownBehind
    <3> QED
      BY <3>3, <3>4
  <2>12. LastEnteredExitsLast(history) => base.recovery <= r.recovery
    <3>1. DaysRise(q)
      BY <2>6, <2>7, <2>9, CurveRises
    <3>2. LongestUnderwater(p) <= LongestUnderwater(q)
      BY <2>10, <3>1, LongestBehind
    <3>3. LastEnteredExitsLast(history) =>
            base.recovery = LongestUnderwater(p) /\ r.recovery = LongestUnderwater(q)
      BY <2>1, <2>3, <2>4, <2>9 DEF RecoveryIsExact
    <3> QED
      BY <3>2, <3>3
  <2> QED
    BY <2>7, <2>8, <2>11, <2>12
<1>2. Spec => []ToldInv
  BY InitTold, NextTold, PTL DEF Spec
<1> QED
  BY <1>1, <1>2, DrawdownAlwaysExact, RecoveryAlwaysExact, PTL
=============================================================================
