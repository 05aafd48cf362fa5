------------------------------ MODULE Backtest ------------------------------
(***************************************************************************)
(* The offline backtest: backtest/engine.py, from the rows of the CSV file *)
(* to the metrics of the base run and of its five stress scenarios.        *)
(*                                                                         *)
(* One run_backtest is a Begin and one CloseTrade per executed trade, in   *)
(* the order of the exits; the trades still to be closed are a set, since  *)
(* both sort orders are total.  Sums over trade_results are accumulated as *)
(* the trades are closed.  A scenario that raises takes the whole backtest *)
(* with it.  Ratios are left as pairs; the ratios of returns (Sharpe,      *)
(* Sortino, annualized return) are not modelled.                           *)
(***************************************************************************)
EXTENDS Integers, Sequences, SequencesExt, FiniteSetsExt

CONSTANTS
  Rows,            \* the rows a CSV file may hold
  StartingEquity,
  Multiplier,
  HalfSlippage,    \* half of slippage_per_spread, so that 1.5 times it is whole
  HalfCommission,  \* half of commission_per_contract
  RemovePct,       \* percentage of the best trades one scenario removes
  None,            \* no drawdown has started
  MaxTrades        \* bound: rows of a file

\* BacktestConfig.__post_init__
ASSUME ConfigAssumption ==
  /\ StartingEquity \in Nat \ {0} /\ Multiplier \in Nat \ {0}
  /\ HalfSlippage \in Nat /\ HalfCommission \in Nat
  /\ HalfSlippage + HalfCommission > 0
  /\ RemovePct \in 1 .. 100

RegimeStates == {"GREEN", "YELLOW", "RED", "BLACK"}
KillStates == RegimeStates
Modes == {"NO_FILTER_BASELINE", "SIMPLE_REGIME_FILTER", "FULL_MVP_RULES"}

HistoricalTrade ==
  [id : Nat, entry : Nat, exit : Nat, contracts : Nat, width : Nat, credit : Nat, debit : Nat,
   regime : RegimeStates, quality : BOOLEAN, kill : KillStates, risk : BOOLEAN,
   scanner : {"WATCHLIST", "ELIGIBLE_FOR_REVIEW", "REJECTED"},
   eligibility : {"APPROVED", "BLOCKED"}, fillable : BOOLEAN]

ASSUME RowsAssumption == Rows \subseteq HistoricalTrade
ASSUME NoneAssumption == None \notin Int

VARIABLES
  history,   \* the trades loaded, in the order of the file
  mode,      \* BacktestConfig.mode
  phase,     \* "load", "walk", "next" (between two scenarios), "raised"
  sample,    \* the trades of the scenario that runs, by their place in the file
  costs,     \* its slippage and commission
  todo,      \* its executed trades that are not closed yet
  walk,      \* the locals of _drawdown_metrics
  sums,      \* the totals over the closed trades
  curve,     \* history variable: day and equity after every closed trade
  reports    \* the scenarios finished so far

vars == <<history, mode, phase, sample, costs, todo, walk, sums, curve, reports>>

-----------------------------------------------------------------------------
(* One trade *)

\* HistoricalTrade.__post_init__.  The debit has no upper bound: a loss may be larger
\* than the width of the spread.
Valid(t) ==
  /\ t.exit >= t.entry
  /\ t.contracts > 0 /\ t.width > 0 /\ t.credit > 0 /\ t.credit < t.width

PassesModeFilter(t, m) ==
  /\ m # "NO_FILTER_BASELINE" => t.regime \in {"GREEN", "YELLOW"}
  /\ m = "FULL_MVP_RULES" =>
       /\ t.quality /\ t.risk
       /\ t.kill \in {"GREEN", "YELLOW"}
       /\ t.scanner \in {"WATCHLIST", "ELIGIBLE_FOR_REVIEW"}
       /\ t.eligibility = "APPROVED"

Selected(s, m) == {i \in DOMAIN s : PassesModeFilter(s[i], m)}
Executed(s, m) == {i \in Selected(s, m) : s[i].fillable}

\* _execute_trade, field by field.  Two legs are opened and two are closed.
EntryFill(t, c) == t.credit - c.slippage
ExitFill(t, c) == t.debit + c.slippage
GrossPnl(t) == (t.credit - t.debit) * Multiplier * t.contracts
SlippageDrag(t, c) == c.slippage * 2 * Multiplier * t.contracts
CommissionDrag(t, c) == c.commission * 4 * t.contracts

\* [fault] the mid is paid at the exit
NetPnl_MidExit(t, c) ==
  (EntryFill(t, c) - t.debit) * Multiplier * t.contracts - CommissionDrag(t, c)

NetPnl(t, c) ==
  (EntryFill(t, c) - ExitFill(t, c)) * Multiplier * t.contracts - CommissionDrag(t, c)

-----------------------------------------------------------------------------
(* The two orders.  Python's sort is stable: equal keys keep the order of  *)
(* the list, which for the closing order is the entry order.               *)

Lex(a, b) == \E n \in DOMAIN a : a[n] < b[n] /\ \A m \in 1 .. n - 1 : a[m] = b[m]

EntryBefore(s, i, j) ==
  Lex(<<s[i].entry, s[i].exit, s[i].id, i>>, <<s[j].entry, s[j].exit, s[j].id, j>>)

ClosesBefore(s, i, j) ==
  Lex(<<s[i].exit, s[i].id, s[i].entry, i>>, <<s[j].exit, s[j].id, s[j].entry, j>>)

\* trade_results[-1]
LastEntered(s, S) == CHOOSE i \in S : \A j \in S \ {i} : EntryBefore(s, j, i)

FirstEntryDay(s) == Min({s[i].entry : i \in DOMAIN s})

-----------------------------------------------------------------------------
(* Loading the file *)

\* load_historical_trades_csv; the first row that is no trade raises.
LoadRow(t) ==
  /\ phase = "load" /\ Len(history) < MaxTrades
  /\ IF Valid(t)
     THEN history' = Append(history, t) /\ UNCHANGED phase
     ELSE phase' = "raised" /\ UNCHANGED history
  /\ UNCHANGED <<mode, sample, costs, todo, walk, sums, curve, reports>>

\* A file without trades raises.
EmptyFile ==
  /\ phase = "load" /\ history = <<>>
  /\ phase' = "raised"
  /\ UNCHANGED <<history, mode, sample, costs, todo, walk, sums, curve, reports>>

-----------------------------------------------------------------------------
(* One run_backtest *)

Costs(halves) == [slippage |-> halves * HalfSlippage, commission |-> halves * HalfCommission]
BaseCosts == Costs(2)

NoSums == [gross |-> 0, slippage |-> 0, commission |-> 0, won |-> 0, lost |-> 0, wins |-> 0]

NewWalk(s) ==
  [equity |-> StartingEquity, peak |-> StartingEquity, peakDay |-> FirstEntryDay(s),
   since |-> None, fall |-> 0, from |-> StartingEquity, recovery |-> 0]

\* Filter, execute every trade that can be filled, and start the walk; a trade whose
\* credit does not pay the slippage raises.
Begin(s, m, c) ==
  /\ sample' = s /\ costs' = c /\ mode' = m
  /\ IF \E i \in Executed(s, m) : EntryFill(s[i], c) <= 0
     THEN phase' = "raised" /\ UNCHANGED <<todo, walk, sums, curve>>
     ELSE /\ phase' = "walk"
          /\ todo' = Executed(s, m)
          /\ walk' = NewWalk(s) /\ sums' = NoSums
          /\ curve' = <<[day |-> FirstEntryDay(s), equity |-> StartingEquity]>>
  /\ UNCHANGED <<history, reports>>

Larger(a, b) == IF a >= b THEN a ELSE b

\* [fault] the drawdown goes on after the peak is reached again
Recovered_Lingering(w, e, day) ==
  [w EXCEPT !.equity = e, !.peak = e, !.peakDay = day,
     !.recovery = IF w.since = None THEN @ ELSE Larger(@, day - w.since)]

\* At or above the peak: an open drawdown ends here.
Recovered(w, e, day) ==
  [w EXCEPT !.equity = e, !.peak = e, !.peakDay = day, !.since = None,
     !.recovery = IF w.since = None THEN @ ELSE Larger(@, day - w.since)]

\* [fault] the fall in money is compared, whatever peak it is from
Deeper_Absolute(w, e) == w.peak - e > w.fall

\* Is peak - e a larger part of the peak than the deepest fall so far?
Deeper(w, e) == (w.peak - e) * w.from > w.fall * w.peak

\* Below the peak: a drawdown starts on the day of the peak, or goes on.
Underwater(w, e) ==
  [w EXCEPT !.equity = e,
     !.since = IF @ = None THEN w.peakDay ELSE @,
     !.fall = IF Deeper(w, e) THEN w.peak - e ELSE @,
     !.from = IF Deeper(w, e) THEN w.peak ELSE @]

\* The totals of _calculate_metrics.
Totalled(t, c) ==
  LET net == NetPnl(t, c) IN
  [gross |-> sums.gross + GrossPnl(t),
   slippage |-> sums.slippage + SlippageDrag(t, c),
   commission |-> sums.commission + CommissionDrag(t, c),
   won |-> sums.won + (IF net > 0 THEN net ELSE 0),
   lost |-> sums.lost + (IF net < 0 THEN net ELSE 0),
   wins |-> sums.wins + (IF net > 0 THEN 1 ELSE 0)]

\* One turn of the loop of _drawdown_metrics.
CloseTrade(i) ==
  LET e == walk.equity + NetPnl(sample[i], costs)
      day == sample[i].exit
  IN /\ phase = "walk" /\ i \in todo
     /\ \A j \in todo \ {i} : ClosesBefore(sample, i, j)
     /\ todo' = todo \ {i}
     /\ walk' = IF e >= walk.peak THEN Recovered(walk, e, day) ELSE Underwater(walk, e)
     /\ sums' = Totalled(sample[i], costs)
     /\ curve' = Append(curve, [day |-> day, equity |-> e])
     /\ UNCHANGED <<history, mode, phase, sample, costs, reports>>

\* A drawdown that is still open lasts until the exit of the trade entered last, which
\* is not always the trade closed last.
Recovery ==
  LET done == Executed(sample, mode) IN
  IF walk.since = None \/ done = {} THEN walk.recovery
  ELSE Larger(walk.recovery, sample[LastEntered(sample, done)].exit - walk.since)

\* The metrics of the scenario.
FinishRun ==
  /\ phase = "walk" /\ todo = {}
  /\ phase' = "next"
  /\ reports' = Append(reports,
       [equity |-> walk.equity, fall |-> walk.fall, from |-> walk.from, recovery |-> Recovery,
        sums |-> sums, sample |-> sample, curve |-> curve,
        selected |-> Cardinality(Selected(sample, mode)),
        executed |-> Cardinality(Executed(sample, mode))])
  /\ UNCHANGED <<history, mode, sample, costs, todo, walk, sums, curve>>

-----------------------------------------------------------------------------
(* run_backtest of the caller, and _run_stress_tests in its order *)

Base(m) ==
  /\ phase = "load" /\ history # <<>>
  /\ Begin(history, m, BaseCosts)

NextScenario(n) == phase = "next" /\ Len(reports) = n

DoubledSlippage ==
  /\ NextScenario(1)
  /\ Begin(history, mode, [BaseCosts EXCEPT !.slippage = 2 * @])

TripledSlippage ==
  /\ NextScenario(2)
  /\ Begin(history, mode, [BaseCosts EXCEPT !.slippage = 3 * @])

\* [fault] the worst trades are removed
Ahead_Worst(i, j) ==
  LET a == NetPnl(history[i], BaseCosts)
      b == NetPnl(history[j], BaseCosts)
  IN a < b \/ (a = b /\ EntryBefore(history, i, j))

\* The trades sorted by profit, the best first.
Ahead(i, j) ==
  LET a == NetPnl(history[i], BaseCosts)
      b == NetPnl(history[j], BaseCosts)
  IN a > b \/ (a = b /\ EntryBefore(history, i, j))

RemoveCount(n) == Larger(1, (n * RemovePct + 99) \div 100)

\* _remove_best_trade_samples: by id, so trades that share an id go together, and not
\* at all when none would be left.
WithoutBest ==
  LET done == Executed(history, mode)
      best == {i \in done : Cardinality({j \in done : Ahead(j, i)})
                              < RemoveCount(Cardinality(done))}
      ids == {history[i].id : i \in best}
      remaining == {i \in DOMAIN history : history[i].id \notin ids}
  IN IF remaining = {} THEN history ELSE [i \in remaining |-> history[i]]

RemoveBest ==
  /\ NextScenario(3)
  /\ Begin(WithoutBest, mode, BaseCosts)

\* [fault] the exit stays where it was
Moved_KeepsExit(t, entry) == [t EXCEPT !.entry = entry]

\* The trade entered on another day, held as long.
Moved(t, entry) == [t EXCEPT !.entry = entry, !.exit = entry + (t.exit - t.entry)]

\* [fault] dates are drawn anew instead of shuffled
Shuffles_Drawn == [DOMAIN history -> DOMAIN history]

\* What random.shuffle may do to the dates: the seed decides, and is not modelled.
Shuffles == {order \in [DOMAIN history -> DOMAIN history] : IsInjective(order)}

\* _randomize_entry_dates
RandomizedEntries ==
  /\ NextScenario(4)
  /\ \E order \in Shuffles :
       Begin([i \in DOMAIN history |-> Moved(history[i], history[order[i]].entry)],
             mode, BaseCosts)

\* [fault] the parameters are relaxed
SensitivityCosts_Half == Costs(1)

\* Slippage and commission times 1.5.
SensitivityCosts == Costs(3)

ParameterSensitivity ==
  /\ NextScenario(5)
  /\ Begin(history, mode, SensitivityCosts)

Init ==
  /\ history = <<>> /\ mode = "NO_FILTER_BASELINE" /\ phase = "load"
  /\ sample = <<>> /\ costs = BaseCosts /\ todo = {}
  /\ walk = [equity |-> StartingEquity, peak |-> StartingEquity, peakDay |-> 0,
             since |-> None, fall |-> 0, from |-> StartingEquity, recovery |-> 0]
  /\ sums = NoSums
  /\ curve = <<[day |-> 0, equity |-> StartingEquity]>>
  /\ reports = <<>>

Next ==
  \/ \E t \in Rows : LoadRow(t)
  \/ EmptyFile
  \/ \E m \in Modes : Base(m)
  \/ DoubledSlippage
  \/ TripledSlippage
  \/ RemoveBest
  \/ RandomizedEntries
  \/ ParameterSensitivity
  \/ \E i \in todo : CloseTrade(i)
  \/ FinishRun

Spec == Init /\ [][Next]_vars

-----------------------------------------------------------------------------
(* Properties *)

Totals == [gross : Int, slippage : Int, commission : Int, won : Int, lost : Int, wins : Int]
Point == [day : Nat, equity : Int]

ReportOK(r) ==
  /\ r.equity \in Int /\ r.fall \in Nat /\ r.from \in Nat \ {0}
  /\ r.sums \in Totals /\ r.curve \in Seq(Point)

\* Every variable stays within its type; every scenario works on valid trades, also
\* the one that moves their dates, and what is still to be closed is of its sample.
TypeOK ==
  /\ history \in Seq(HistoricalTrade) /\ \A i \in DOMAIN history : Valid(history[i])
  /\ DOMAIN sample \subseteq DOMAIN history
  /\ \A i \in DOMAIN sample : sample[i] \in HistoricalTrade /\ Valid(sample[i])
  /\ mode \in Modes /\ phase \in {"load", "walk", "next", "raised"}
  /\ costs \in [slippage : Nat, commission : Nat]
  /\ todo \subseteq DOMAIN sample
  /\ phase \in {"load", "next"} => todo = {}
  /\ phase \in {"walk", "next"} => history # <<>>
  /\ walk \in [equity : Int, peak : Nat \ {0}, peakDay : Nat, since : Nat \cup {None},
               fall : Nat, from : Nat \ {0}, recovery : Nat]
  /\ sums \in Totals
  /\ curve \in Seq(Point)
  /\ Len(reports) \in Nat /\ reports = [n \in 1 .. Len(reports) |-> reports[n]]
  /\ \A n \in DOMAIN reports : ReportOK(reports[n])

\* The result of a run and the totals it reports are computed by separate formulas:
\* what was won and lost, and the gross result less the two drags, both explain the
\* change of the equity to the cent.
Balances(equity, s) ==
  /\ equity - StartingEquity = s.gross - s.slippage - s.commission
  /\ equity - StartingEquity = s.won + s.lost

LedgerBalances ==
  /\ Balances(walk.equity, sums)
  /\ \A n \in DOMAIN reports : Balances(reports[n].equity, reports[n].sums)

\* Point i of the equity curve c is the last of the highest up to point j.
IsPeak(c, i, j) ==
  /\ i \in 1 .. j
  /\ \A k \in 1 .. j : c[k].equity <= c[i].equity /\ (c[k].equity = c[i].equity => k <= i)

\* The deepest fall from a peak of curve c, as a part of that peak, is fall / from.
IsDrawdown(c, fall, from) ==
  /\ \A j \in DOMAIN c : \A i \in 1 .. j :
       IsPeak(c, i, j) => (c[i].equity - c[j].equity) * from <= fall * c[i].equity
  /\ \/ fall = 0
     \/ \E j \in DOMAIN c : \E i \in 1 .. j :
          IsPeak(c, i, j) /\ from = c[i].equity /\ fall = c[i].equity - c[j].equity

\* The single pass with its running peak reports the maximum drawdown of the equity
\* curve, compared as a part of the peak it fell from, also when a peak is only
\* reached again, trades close on one day, or the equity is negative.
DrawdownIsExact ==
  /\ IsDrawdown(curve, walk.fall, walk.from)
  /\ \A n \in DOMAIN reports :
       IsDrawdown(reports[n].curve, reports[n].fall, reports[n].from)

\* Curve c is under water from its peak i, left at once, to k: the next point as high,
\* or the last point when there is none.
IsStretch(c, i, k) ==
  /\ k > i /\ IsPeak(c, i, k - 1)
  /\ \/ k > i + 1 /\ c[k].equity >= c[i].equity
     \/ k = Len(c) /\ c[k].equity < c[i].equity

DaysUnderwater(c) ==
  {c[x[2]].day - c[x[1]].day :
     x \in {x \in (DOMAIN c) \X (DOMAIN c) : IsStretch(c, x[1], x[2])}}
LongestUnderwater(c) == Max({0} \cup DaysUnderwater(c))

\* The trade entered last is also the one that exits last.
LastEnteredExitsLast(s) ==
  LET done == Executed(s, mode) IN
  \A i \in done : s[i].exit <= s[LastEntered(s, done)].exit

\* recovery_time_days is the longest time under water.  An open drawdown is measured
\* to the exit of the trade entered last: it is too short, never too long, when some
\* other trade exits later.
RecoveryIsExact ==
  \A n \in DOMAIN reports :
    LET r == reports[n] IN
    /\ r.recovery <= LongestUnderwater(r.curve)
    /\ LastEnteredExitsLast(r.sample) => r.recovery = LongestUnderwater(r.curve)

\* Scenarios 2, 3 and 6 only raise the costs: the trades are the same and close in the
\* same order, the account ends no higher, no more trades win, and the maximum drawdown is
\* no smaller relative to its peak; nor is the recovery time shorter, unless the last trade
\* entered is not the last to exit.  Averages and ratios may improve: a small winner that
\* turns loser raises the average win.
HigherCostsLookNoBetter ==
  \A n \in DOMAIN reports \cap {2, 3, 6} :
    LET base == reports[1]
        r == reports[n]
    IN /\ r.executed = base.executed
       /\ r.equity <= base.equity /\ r.sums.wins <= base.sums.wins
       /\ base.fall * r.from <= r.fall * base.from
       /\ LastEnteredExitsLast(history) => base.recovery <= r.recovery

UniqueIds == \A i, j \in DOMAIN history : history[i].id = history[j].id => i = j

\* Without its best trades a run ends lower, provided they are winners; but only when
\* ids are unique (trades that share an id go together, losers too) and some trade is
\* left (with none left nothing is removed).
RemovalNeverFlatters ==
  4 \in DOMAIN reports /\ UniqueIds =>
    LET n == RemoveCount(reports[1].executed) IN
    reports[1].sums.wins >= n /\ Len(history) > n =>
      /\ reports[4].equity < reports[1].equity
      /\ reports[4].executed = reports[1].executed - n

\* Shuffled entry dates change when trades close, and therefore the drawdown, but not
\* what they earn, whatever the seed.
ShuffleKeepsTotals ==
  5 \in DOMAIN reports =>
    /\ reports[5].sums = reports[1].sums
    /\ reports[5].curve[1] = reports[1].curve[1]
=============================================================================
