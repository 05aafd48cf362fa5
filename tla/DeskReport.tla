----------------------------- MODULE DeskReport -----------------------------
(***************************************************************************)
(* The risk section and the exit advice of the daily report,               *)
(* reporting/daily_report.py, as the paper workflow and the daily-report   *)
(* command draw it while other workers go on trading.                      *)
(*                                                                         *)
(* The report is one query after the other: the fills and the exits of its *)
(* date, and the open positions of every date.  A run dates its fill and   *)
(* its exit by two timestamps of the request, which nothing compares.      *)
(* Neither caller of the report gives an as-of time; PilotReports has one. *)
(***************************************************************************)
EXTENDS PaperDesk

CONSTANT LastDay  \* bound: the last day of a timestamp

ASSUME LastDayAssumption == LastDay \in Nat

VARIABLES
  filledOn, \* the date in filled_at, of every run with a fill
  markedOn, \* the date in evaluated_at, of every run with an exit
  section   \* the report that is built, and after it is done what it says

reportVars == <<vars, filledOn, markedOn, section>>

Dates == 0 .. LastDay

\* The runs whose worker is at work.
Busy == {run[w].id : w \in {w \in Workers : pc[w] # "idle"}}

-----------------------------------------------------------------------------
(* The queries *)

\* [fault] the fills before the date
FillsOn_Before(date) == {f \in fills : filledOn[f.ticket] < date}

\* _load_fills, by filled_at
FillsOn(date) == {f \in fills : filledOn[f.ticket] = date}

\* [fault] the exits of all dates
ExitsOn_AnyDate(date) == {x.position : x \in exits}

\* _load_exits, by evaluated_at
ExitsOn(date) == {x.position : x \in {x \in exits : markedOn[x.position] = date}}

\* _position_max_loss: None when no fill of the position was read, or the credit
\* covers the width.
PositionMaxLoss(p, read) ==
  LET own == {f \in read : f.position = p.run} IN
  IF own = {} THEN None
  ELSE LET loss == p.width - (CHOOSE f \in own : TRUE).price IN
       IF p.width <= 0 \/ loss <= 0 THEN None ELSE loss * p.quantity

PricedLines(lines) == {p \in DOMAIN lines : lines[p] # None}
Total(lines, S) == SumFunctionOnSet(lines, S)

\* [fault] a position without a price does not count
OpenMaxLoss_Partial(lines) == Total(lines, PricedLines(lines))

\* open_max_loss: one position without a price, and it is MISSING.
OpenMaxLoss(lines) ==
  IF PricedLines(lines) # DOMAIN lines THEN None ELSE Total(lines, DOMAIN lines)

\* risk_by_underlying, risk_by_expiration: positions without a price are left out.
RiskBy(lines, key) ==
  LET priced == PricedLines(lines) IN
  [k \in {p[key] : p \in priced} |-> Total(lines, {p \in priced : p[key] = k})]

-----------------------------------------------------------------------------
(* The report *)

NoSection == [step |-> "none"]

\* The runs at work and their number are history variables.
BeginReport(date) ==
  /\ section.step \in {"none", "done"}
  /\ section' = [step |-> "fills", date |-> date, busy |-> Busy, known |-> started]
  /\ UNCHANGED <<vars, filledOn, markedOn>>

LoadFills ==
  /\ section.step = "fills"
  /\ section' = [step |-> "positions", date |-> section.date, busy |-> section.busy,
                 known |-> section.known, read |-> FillsOn(section.date)]
  /\ UNCHANGED <<vars, filledOn, markedOn>>

\* _load_open_positions and _position_risk_summary.  The book is a history variable:
\* what is really open at this moment.
LoadOpenPositions ==
  LET lines == [p \in positions |-> PositionMaxLoss(p, section.read)] IN
  /\ section.step = "positions"
  /\ section' = [step |-> "exits", date |-> section.date, busy |-> section.busy,
                 known |-> section.known, book |-> positions, lines |-> lines,
                 openMaxLoss |-> OpenMaxLoss(lines),
                 byUnderlying |-> RiskBy(lines, "underlying"),
                 byExpiration |-> RiskBy(lines, "expiration")]
  /\ UNCHANGED <<vars, filledOn, markedOn>>

LoadExits ==
  /\ section.step = "exits"
  /\ \E r \in {section} :
       section' = [f \in DOMAIN r \cup {"advice"} |->
                     IF f = "advice" THEN ExitsOn(r.date)
                     ELSE IF f = "step" THEN "done" ELSE r[f]]
  /\ UNCHANGED <<vars, filledOn, markedOn>>

\* The dates of the rows of some runs, when the new one among them is of the date given.
WithDate(dates, runs, date) ==
  [id \in runs |-> IF id \in DOMAIN dates THEN dates[id] ELSE date]

\* A step of a worker.  It dates its fill by entry_market.observed_at of its request and its
\* exit by exit_market.marked_at: any two, each is only checked to have an offset.
Trade ==
  /\ Next
  /\ \E date \in Dates :
       /\ filledOn' = WithDate(filledOn, {f.ticket : f \in fills'}, date)
       /\ markedOn' = WithDate(markedOn, {x.position : x \in exits'}, date)
  /\ UNCHANGED section

ReportInit == Init /\ filledOn = <<>> /\ markedOn = <<>> /\ section = NoSection

ReportNext ==
  \/ Trade
  \/ \E date \in Dates : BeginReport(date)
  \/ LoadFills \/ LoadOpenPositions \/ LoadExits

ReportSpec == ReportInit /\ [][ReportNext]_reportVars

-----------------------------------------------------------------------------
(* Properties *)

Done == section.step = "done"

\* Every fill and every exit has a date; a report lists losses of positions that exist, and
\* advice of its own date.
ReportTypeOK ==
  /\ filledOn \in [{f.ticket : f \in fills} -> Dates]
  /\ markedOn \in [{x.position : x \in exits} -> Dates]
  /\ section.step \in {"none", "fills", "positions", "exits", "done"}
  /\ section.step # "none" => section.date \in Dates /\ section.known <= started
  /\ Done =>
       /\ DOMAIN section.lines \subseteq positions
       /\ \A p \in DOMAIN section.lines : section.lines[p] \in (Nat \ {0}) \cup {None}
       /\ \A id \in section.advice : markedOn[id] = section.date

\* Fills and positions are separate queries, positions and fills separate commits, and
\* fills are read of one date only: a report that states an open max loss still states
\* that of every position open at that moment, of whatever date, and splits it without
\* a rest both ways; a report with MISSING never shows a group with more risk than it has.
RiskStatedIsWhole ==
  Done =>
    /\ section.openMaxLoss # None =>
         /\ section.openMaxLoss = OpenLoss(section.book)
         /\ \A p \in section.book :
              /\ section.byUnderlying[p.underlying] =
                   OpenLoss({q \in section.book : q.underlying = p.underlying})
              /\ section.byExpiration[p.expiration] =
                   OpenLoss({q \in section.book : q.expiration = p.expiration})
    /\ \A u \in DOMAIN section.byUnderlying :
         section.byUnderlying[u] <= OpenLoss({p \in section.book : p.underlying = u})
    /\ \A x \in DOMAIN section.byExpiration :
         section.byExpiration[x] <= OpenLoss({p \in section.book : p.expiration = x})

\* The exits are read last, and a run may date its fill and its exit on different days: a
\* report advises on a position it does not list only if the run was at work when the
\* report began, or began after it; and lists one without its loss only in these cases, or
\* when the fill is of another day than the advice.
AdviceIsOnListedRisk ==
  Done =>
    \A id \in section.advice :
      \/ id \in section.busy \/ id > section.known
      \/ \E p \in DOMAIN section.lines :
           /\ p.run = id
           /\ section.lines[p] = None => filledOn[id] # section.date
=============================================================================
