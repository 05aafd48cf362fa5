--------------------------- MODULE DailyDecision ---------------------------
(***************************************************************************)
(* One trading day seen from the decisions: evidence keeps arriving, and   *)
(* at any moment an operator may ask whether a spread may be ticketed and  *)
(* what to do with a position that is held.  The answers are pure          *)
(* functions of the evidence spread over nine source files; the properties *)
(* relate the answers of different files, and of different moments.        *)
(*                                                                         *)
(* An action is one source of evidence reporting one new value.            *)
(***************************************************************************)
EXTENDS TradeEntry, ExitEngine

CONSTANTS
  CleanDay,    \* evidence of a day on which nothing is wrong
  GoodSpread,  \* a spread with nothing wrong
  CalmHolding, \* a position with nothing wrong
  DayRange,    \* field of the day -> what it may be reported as
  SpreadRange, \* the same for the spread
  HeldRange,   \* the same for the position
  OpenTrades,  \* positions that may be open: [id, underlying, expiration, loss]
  Underlying, Expiration,  \* of the spread
  Sizes, WorstCredits,     \* contracts and worst credits a caller may ask for
  RegimePcts,  \* regime multipliers a caller may size with, in percent
  \* bound of the model
  MaxTroubles  \* fields that differ from the clean ones, and open positions

\* What a field may hold.
DayTypes ==
  [barAge |-> Int \cup {None}, chainAge |-> Int \cup {None}, malformed |-> BOOLEAN,
   positionsKnown |-> BOOLEAN, equity |-> Int, close |-> Int, average |-> Int, iv |-> Int,
   rv |-> Int, vix |-> {"NORMAL", "INVERTED", "UNKNOWN"}, reconciled |-> BOOLEAN,
   verified |-> BOOLEAN, hardCap |-> BOOLEAN, lossCap |-> BOOLEAN, lossCluster |-> BOOLEAN,
   orderRisk |-> BOOLEAN, reducedSize |-> BOOLEAN, weeklyLoss |-> Int, drawdown |-> Int,
   stopped |-> Int]
SpreadTypes ==
  [consistent |-> BOOLEAN, days |-> Int, shortDelta |-> Int, legWidth |-> Int, width |-> Int,
   credit |-> Int]
HeldTypes ==
  [closed |-> BOOLEAN, days |-> Int, credit |-> Int, width |-> Int, mark |-> Int, delta0 |-> Int,
   delta |-> Int, close |-> Int, trend |-> Int, vixShock |-> BOOLEAN, priceAge |-> Int \cup {None}]

Typed(r, types) ==
  DOMAIN r = DOMAIN types /\ \A f \in DOMAIN types : r[f] \in types[f]
RangeTyped(range, types) ==
  DOMAIN range \subseteq DOMAIN types /\ \A f \in DOMAIN range : range[f] \subseteq types[f]

ASSUME DayAssumption ==
  /\ Typed(CleanDay, DayTypes) /\ RangeTyped(DayRange, DayTypes)
  /\ Typed(GoodSpread, SpreadTypes) /\ RangeTyped(SpreadRange, SpreadTypes)
  /\ Typed(CalmHolding, HeldTypes) /\ RangeTyped(HeldRange, HeldTypes)
  /\ Sizes \subseteq Nat \ {0} /\ RegimePcts \subseteq 1 .. 100
  /\ WorstCredits \subseteq Nat /\ MaxTroubles \in Nat

\* Open positions passed calculate_max_loss_per_spread, which raises when the
\* loss is not positive.
ASSUME BookAssumption == IsFiniteSet(OpenTrades) /\ \A p \in OpenTrades : p.loss \in Nat

\* So are the values of config/default.yaml and of the exit policies.
ASSUME ThresholdAssumption ==
  MinDTE > CloseDTE /\ MinDelta > 0 /\ ReviewDTE <= CloseDTE

MarketFields == {"close", "iv", "rv", "vix"}
DataFields == {"barAge", "chainAge", "malformed", "positionsKnown"}
AccountFields ==
  {"equity", "reconciled", "verified", "hardCap", "lossCap", "lossCluster", "orderRisk",
   "reducedSize", "weeklyLoss", "drawdown", "stopped"}

VARIABLES day, spread, held, book
vars == <<day, spread, held, book>>

Troubles(d, s, h, b) ==
  Cardinality({f \in DOMAIN DayRange : d[f] # CleanDay[f]})
  + Cardinality({f \in DOMAIN SpreadRange : s[f] # GoodSpread[f]})
  + Cardinality({f \in DOMAIN HeldRange : h[f] # CalmHolding[f]})
  + Cardinality(b)

Init == day = CleanDay /\ spread = GoodSpread /\ held = CalmHolding /\ book = {}

Bounded == Troubles(day', spread', held', book') <= MaxTroubles

DayReport(fields) ==
  /\ \E f \in fields \cap DOMAIN DayRange : \E v \in DayRange[f] \ {day[f]} : day' = [day EXCEPT ![f] = v]
  /\ UNCHANGED <<spread, held, book>>

MarketReport == DayReport(MarketFields)
DataReport == DayReport(DataFields)
AccountReport == DayReport(AccountFields)

ChainReport ==
  /\ \E f \in DOMAIN SpreadRange : \E v \in SpreadRange[f] \ {spread[f]} : spread' = [spread EXCEPT ![f] = v]
  /\ UNCHANGED <<day, held, book>>

HoldingReport ==
  /\ \E f \in DOMAIN HeldRange : \E v \in HeldRange[f] \ {held[f]} : held' = [held EXCEPT ![f] = v]
  /\ UNCHANGED <<day, spread, book>>

BookReport ==
  /\ \E p \in OpenTrades : book' = IF p \in book THEN book \ {p} ELSE book \cup {p}
  /\ UNCHANGED <<day, spread, held>>

Next ==
  /\ \/ MarketReport \/ DataReport \/ AccountReport
     \/ ChainReport \/ HoldingReport \/ BookReport
  /\ Bounded

Spec == Init /\ [][Next]_vars

-----------------------------------------------------------------------------
(* The answers *)

\* The caller's kill switch; asked or not, the workflow takes both.
KillOf(d, asked) == IF asked THEN KillSwitch(d, Regime(d)) ELSE None

TradeOf(s, n) ==
  [underlying |-> Underlying, expiration |-> Expiration,
   loss |-> n * MaxLossPerSpread(s.width, s.credit)]

\* The decisions of one workflow run up to the ticket.
Ticketed(d, s, b, asked, n, worst) ==
  LET kill == KillOf(d, asked)
      scan == ScanStatus(s, Regime(d), None, kill)
      status == TradeStatus(scan, DataPassed(d), Regime(d),
                            PortfolioRiskPasses(b, TradeOf(s, n), d), n, kill)
  IN scan = "WATCHLIST" /\ TicketAccepted(s, scan, status, d.equity, worst, kill)

\* The decision on a held position, with the kill switch evaluated.
Advice(h, d) == Recommendation(h, Regime(d), RiskOffReview(KillOf(d, TRUE)))

-----------------------------------------------------------------------------
(* Worse evidence *)

Staler(x, y) == x = y \/ y = None \/ (x # None /\ 0 <= x /\ (y < 0 \/ x <= y))

\* Day b is nowhere better than day a.  Implied volatility has no bad
\* direction (low fails the regime, high reduces the size): it is the same.
\* A loss or a count below zero is refused as invalid, so what follows it must be too.
DayNoBetter(a, b) ==
  /\ Staler(a.barAge, b.barAge) /\ Staler(a.chainAge, b.chainAge)
  /\ \A f \in {"malformed", "hardCap", "lossCap", "lossCluster", "orderRisk", "reducedSize"} :
       a[f] => b[f]
  /\ \A f \in {"positionsKnown", "reconciled", "verified"} : b[f] => a[f]
  /\ \A f \in {"rv", "weeklyLoss", "drawdown", "stopped"} : a[f] <= b[f]
  /\ \A f \in {"weeklyLoss", "drawdown", "stopped"} : a[f] < 0 => b[f] < 0
  /\ \A f \in {"equity", "close"} : b[f] <= a[f]
  /\ b.vix = "NORMAL" => a.vix = "NORMAL"
  /\ b.iv = a.iv /\ b.average = a.average

\* A credit that reaches the width is refused, so a lower one is better then.
SpreadNoBetter(a, b) ==
  /\ b.consistent => a.consistent
  /\ b.credit < b.width => a.credit < a.width
  /\ b.credit <= a.credit /\ a.legWidth <= b.legWidth
  /\ b.width = a.width /\ b.days = a.days /\ b.shortDelta = a.shortDelta

HoldingNoBetter(a, b) ==
  /\ b.days <= a.days /\ a.mark <= b.mark /\ a.delta <= b.delta /\ b.close <= a.close
  /\ a.vixShock => b.vixShock
  /\ \A f \in {"closed", "credit", "width", "delta0", "trend"} : b[f] = a[f]

Danger(action) ==
  CASE action = "KILL_SWITCH_EXIT" -> 3
    [] action = "CLOSE_POSITION" -> 2
    [] action = "REDUCE_RISK" -> 1
    [] OTHER -> 0

-----------------------------------------------------------------------------
(* Properties *)

\* Every field keeps its type, the book has known positions only, and regime
\* and kill switch always come to a state.
TypeOK ==
  /\ Typed(day, DayTypes) /\ Typed(spread, SpreadTypes) /\ Typed(held, HeldTypes)
  /\ book \subseteq OpenTrades
  /\ Regime(day) \in States /\ KillOf(day, TRUE) \in States

\* A report that makes nothing better never turns a refusal into a ticket.
\* The regime alone does become milder (a close that falls to its average is
\* GREEN again), so this rests on all the gates together.
WorseNeverPermits ==
  [][DayNoBetter(day, day') /\ SpreadNoBetter(spread, spread') /\ book \subseteq book' =>
     \A asked \in BOOLEAN, n \in Sizes, worst \in WorstCredits :
       Ticketed(day', spread', book', asked, n, worst) =>
       Ticketed(day, spread, book, asked, n, worst)]_vars

\* A report that makes nothing better never softens the advice on a position,
\* although a reason may go: REGIME is a reason in RED and none in BLACK.
WorseNeverEases ==
  [][DayNoBetter(day, day') /\ HoldingNoBetter(held, held') =>
     Danger(Advice(held, day)) <= Danger(Advice(held', day'))]_vars

\* What the chain of gates before a ticket amounts to in raw evidence: equity known and
\* positive, positions verified and reconciled, sound and fresh data, nothing that makes the
\* regime or the kill switch RED or BLACK; what only the kill switch knows counts when the
\* caller evaluated it.  The runbook's "Do Not Continue If" list is longer: no ticket asks
\* for the shutdown flag, violations, system errors, sessions, review points, stop events, a
\* market order or the age of the equity.
TicketNeedsCleanEvidence ==
  \A asked \in BOOLEAN, n \in Sizes, worst \in WorstCredits :
    Ticketed(day, spread, book, asked, n, worst) =>
      /\ day.equity > 0 /\ day.positionsKnown /\ day.reconciled /\ day.verified
      /\ ~day.malformed /\ Fresh(day.barAge, MaxPriceAge) /\ Fresh(day.chainAge, MaxChainAge)
      /\ day.close >= day.average /\ day.vix = "NORMAL" /\ day.rv <= day.iv
      /\ ~day.lossCluster /\ ~day.hardCap
      /\ day.stopped < MaxStoppedBaskets
      /\ asked => ~day.lossCap /\ ~day.orderRisk

\* Entry and exit rules are in different files with thresholds of their own.
\* A position filled at its target on the evidence that got it a ticket is not
\* told to leave by the exit engine on the same evidence.
EntryIsNoExit ==
  \A asked \in BOOLEAN, n \in Sizes, worst \in WorstCredits :
    Ticketed(day, spread, book, asked, n, worst) =>
      Recommendation(
        [closed |-> FALSE, days |-> spread.days, credit |-> spread.credit, width |-> spread.width,
         mark |-> spread.credit, delta0 |-> spread.shortDelta, delta |-> spread.shortDelta,
         close |-> day.close, trend |-> day.average, vixShock |-> FALSE],
        Regime(day), RiskOffReview(KillOf(day, asked))) = "HOLD"

\* The two exit engines agree on a position that runs out of time: what the
\* daily review wants reviewed, the recommendation wants closed.
ReviewMeansClose ==
  Review(held) = "REVIEW_EXIT" => Danger(Advice(held, day)) >= 2

\* sizing.py with the loss limits, on running totals, and portfolio_heat.py,
\* on the positions themselves, implement the same limits: they agree on every
\* trade when the totals are those of the positions.
LimitsAgree ==
  \A n \in Sizes :
    LET t == TradeOf(spread, n)
        totals ==
          [equity |-> day.equity, proposed |-> t.loss, heat |-> LossOf(book),
           clusterRisk |-> LossOf({p \in book : p.underlying = Underlying}),
           expirationRisk |-> LossOf({p \in book : p.expiration = Expiration}),
           weeklyLoss |-> day.weeklyLoss, drawdown |-> day.drawdown, stopped |-> day.stopped]
    IN (SizingPasses(totals) /\ HeatPasses(totals) /\ LossLimitsPass(totals))
         <=> PortfolioRiskPasses(book, t, day)

\* The size computed from the cluster limit is accepted by that limit, and
\* without a regime discount it is the largest that is.
SizeFits ==
  LET loss == MaxLossPerSpread(spread.width, spread.credit) IN
  day.equity > 0 /\ loss > 0 =>
    \A pct \in RegimePcts :
      LET n == Contracts(AllowedTradeRisk(day.equity, ClusterPct, pct), loss) IN
      /\ ~Exceeds(n * loss, day.equity, ClusterPct)
      /\ pct = 100 => Exceeds((n + 1) * loss, day.equity, ClusterPct)
=============================================================================
