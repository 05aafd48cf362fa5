# Verification of the options put-spread engine

Formal models of `options_engine` (Python, `src/src/options_engine/`): a research, paper-trading and
manually executed live-pilot engine for put credit spreads. It never talks to a broker. An operator runs
command-line programs; each reads a SQLite database and a few JSON files, decides, and commits rows one
at a time. What has to be right is therefore not an algorithm but the *protocol* the commands follow
through the database: several processes, no transaction that spans more than one row, timestamps that an
operator types, and every state (is a session active? is the config locked? may we trade?) derived anew
from rows.

Paths below are relative to `src/src/options_engine/`.

## Inventory

| Component | Source | State it keeps | Operations | Correct when |
| --- | --- | --- | --- | --- |
| Live pilot operations | `live/operations.py` | none of its own: sessions are a fold over `audit_log` | start, stop, resume, reset review, fill through the session gate, dashboard, signoff, evidence packet | at most one active session, a hard stop holds until it is reviewed, a fill with a hard violation stops its session, the trade count respects the review point |
| Live fills, violations, shutdown flag | `live/pilot.py` | rows in `fills` and `audit_log` | record a fill (up to ten commits), record a violation, activate the shutdown, lock the config | all rows of a fill are there or the process died |
| Storage | `storage/database.py` | SQLite tables | one insert per transaction, foreign keys on | rows come back in the order they are meant to be read |
| Release gate | `live/release_gate.py` | report files | reads two files, six queries, one verdict | a verdict depends only on its moment; no GO after a violation |
| Readiness and demo packet | `live/readiness.py`, `live/demo.py` | JSON files | drive all components on fixture data | leave the pilot database usable |
| Paper workflow | `paper/workflow.py` | rows of eight tables | one daily run: ticket, fill, position, mark, exit, report | a run that dies leaves a database the next run and the reconciliation read correctly |
| Positions | `execution/*.py` | `positions`, `fills` | record, mark, reconcile | a position is verified only with its entry fill |
| Ticket | `execution/ticket.py` | none | refuses or writes a manual ticket | never for a blocked trade |
| Kill switch | `risk/kill_switch.py` | `kill_switch_events` | severity ladder, reset | the most severe trigger wins; BLACK needs a manual reset |
| Sizing and heat | `risk/sizing.py`, `risk/portfolio_heat.py` | none | approve or refuse a trade | approved trades stay within the limits one after the other |
| Exit engine | `strategy/exits.py` | none | recommendation for a position | forced exits win over holds |
| Eligibility, scanner | `strategy/*.py` | none | filter and rank spreads | no eligible spread when blocked |
| Regime | `regime/classifier.py` | none | GREEN to BLACK | worst evidence wins |
| Data quality, market data, chains | `data/*.py` | none | checks, CSV loading | critical errors block |
| Backtest | `backtest/engine.py` | in-memory equity curve | load a file, filter, execute, walk over the exits, five stress scenarios | costs are counted once, drawdown and recovery are those of the curve, a stress scenario ends no higher, wins no more and falls no less than the base run |
| Configuration | `config/loader.py` | none | validate YAML | |
| Daily report | `reporting/daily_report.py` | none | eight queries for a date, with or without an as-of time | drawn again for its moment it says the same; what it cannot price it does not state |
| Command line, utilities | `main.py`, `utils/*.py` | none | parse, call, print | |

How they interact: only by calls inside one process and by rows and files between processes. No command
holds a lock; `storage/database.py` opens a connection per call and commits per insert. The behaviours
that are hard here are

* check-then-insert races of two commands (`live/operations.py:271`, `:566`);
* kills between two commits of one command (`live/pilot.py:637`, `paper/workflow.py:366`);
* rows ordered by the text of operator-supplied timestamps (`live/operations.py:739`), late or in
  different UTC offsets, where other places compare instants;
* a gate that reads while others write (`live/release_gate.py:519`), and whose verdict is later repeated
  for the same moment;
* a long sequence of legal commands that leads a stopped pilot back to work;
* reports that are several queries outside a transaction (`live/pilot.py:731`, `live/operations.py:680`,
  `reporting/daily_report.py:237`) over rows that are written one by one;
* verdicts computed in one place and used in another (`execution/ticket.py:60`), and pure decisions that
  are spread over nine files and have to agree (`regime/classifier.py`, `strategy/exits.py`, ...).

`PROJECT.json` lists each at its line with the property that covers it.

## Plan

The order is that of importance: what a live pilot relies on first, then the paper desk, then the decisions
both use, then what only reports.

1. *Done.* The session log and the commands on it (`PilotSessions`, `PilotOperations`), with the pass over
   the rows (`PilotFold`), the abstract lifecycle (`PilotLifecycle`) and the refinement.
2. *Done.* The release gate among other commands (`ReleaseGate`).
3. *Done.* The gates as operators (`MarketGates`, `RiskBook`, `TradeEntry`, `ExitEngine`), composed twice: by
   the paper workflow (`PaperDesk`) and by a day of changing evidence (`DailyDecision`).
4. *Done.* Proofs about the session log and the pass that reads it, the fills, the gate, the paper desk and the daily decision.
5. *Done.* The backtest (`Backtest`) and its proofs, the stress scenarios included.
6. *Done.* What the operator reads: daily report, dashboards and evidence packet over the pilot's rows
   (`PilotReports`, on top of `PilotOperations`) and the risk section over the desk's (`DeskReport`, on top of
   `PaperDesk`).
7. *Done.* Proofs about what is read, which rest on tables that only grow (`PilotReports_proofs`,
   `DeskReport_proofs`).
8. A run for the regime on a close that equals its average (see the differences below).

The abstract specifications worth stating are the lifecycle of a session, which is there, and a desk in which a
run either happens as a whole or leaves a position that stops the next one.

## Modules

| Module | Models | Notes |
| --- | --- | --- |
| `PilotSessions` | how sessions are derived from the audit log | operators only; used by the two machines below |
| `PilotOperations` | session commands, `record_live_fill_for_active_session`, `record_live_fill`, `record_rule_violation`, their commits | one process per running command |
| `PilotFold` | `load_pilot_sessions` as the pass it is | its invariant says that the pass and `PilotSessions` agree |
| `PilotLifecycle` | the abstract session machine: a reported success has taken effect | |
| `PilotRefinement` | refinement mapping from the log to `PilotLifecycle` | |
| `PilotOperations_proofs` | TLAPS proofs: sessions, fills, the refinement | types, active sessions, hard stops; torn fills, missed stops, review point; the log implements the lifecycle; the pass over the rows |
| `SumLemmas` | TLAPS proofs about sums over finite sets, and about places in an order | used by the proofs about counts, risk and backtest, and by those about the pass |
| `ReleaseGate` | the release gate with the other commands between its reads | composes `PilotSessions` with files, snapshots and control rows |
| `ReleaseGate_proofs` | TLAPS proofs | verdicts, violations |
| `MarketGates` | data-quality severity, regime, kill switch | operators only |
| `RiskBook` | sizing, heat, loss limits, on totals and on positions | operators only |
| `TradeEntry` | eligibility, scan status, final status, ticket acceptance | operators only; on top of the two above |
| `ExitEngine` | exit recommendation and daily review | operators only; on top of `MarketGates` |
| `PaperDesk` | the daily paper workflow, one action per commit | composes all four with the tables |
| `PaperDesk_proofs` | TLAPS proofs | rows, trail, torn positions, limits |
| `DailyDecision` | evidence that changes report by report, and the decisions on it | composes all four without tables |
| `DailyDecision_proofs` | TLAPS proofs | tickets, exits, sizes, limits, worse evidence |
| `PilotReports` | daily signoff; daily report counts, dashboards, evidence packet, query by query | extends `PilotOperations`; its commands are the writers |
| `PilotReports_proofs` | TLAPS proofs: reports | late rows, hidden fills, shutdown, review, packets; on top of `PilotOperations_proofs` |
| `DeskReport` | risk section and exit advice of the daily report, query by query | extends `PaperDesk`; its workers are the writers |
| `DeskReport_proofs` | TLAPS proofs | types of the section, advice on listed risk, the stated risk |
| `Backtest` | CSV rows to metrics: base run and stress scenarios | a sequential program |
| `Backtest_proofs` | TLAPS proofs | ledger, drawdown, recovery, stress scenarios |
| `MC*` | constants for TLC | |

### State and code

`PilotOperations`: `log` is the part of `audit_log` about sessions, its index the row id; `fills[f]` is a
row of `fills` with the audit rows that name it; `shutdowns` the ACTIVATED rows. `pc`, `pending`, `task`
are the local state of a running process: where it is, the row it has decided to insert, the fill it is
recording. Each action is one commit together with the reads and decisions since the last one, because
nothing of another process can be seen or disturbed in between. `Crash` kills a process between two
commits. `mark` in a fill and the gate's `mark` and `seen` are history variables that no action reads.

A timestamp is an instant and an offset: SQL compares the text (`Text`), Python compares instants. Equal
texts are ordered by id. With `Clocked` an operator's timestamp is the moment of the command; without it,
any moment, which is what `--started-at` allows. `FillStamps` always allows a fill to be typed in up to
`MaxLag` late, because `filled_at` is the broker's.

`ReleaseGate`: `log` holds the rows the six queries read. The gate is a process of its own: `Begin` takes
the timestamp and the readiness file, `ReadEvidence` the packet, `QueryDatabase` has one step per query,
`WriteReport` the verdict. Other commands decide and insert in one step here, since `PilotOperations`
covers their overlap; the rows of a fill stay separate (`owed`). The initial state is what
`build_pilot_demo_packet` leaves behind.

`PaperDesk`: one set per table, rows named by the run that inserted them, since a run inserts at most one
ticket, position, fill and exit. `pc` and `run` are the local state of a worker: the commit it does next, and
the request with what was decided so far. `Reconcile` and `Assess` are the caller, who reads the open
positions (two queries), prices the book from the fills, judges the risk and hands the verdicts to
`run_daily_paper_workflow`, which checks none of them again. No caller of the workflow is in the repository
(tests pass fixed verdicts), so the caller is modelled from the fields of `PaperTradingRequest`: it reconciles
with `reconcile_open_positions`, evaluates `evaluate_portfolio_risk` for the first eligible spread, and may or
may not pass a kill switch. The other actions are the commits of the workflow in the order of the code; a
candidate row is one commit each. `Crash` kills a worker between two of them, and the exceptions of the
workflow (`TicketError`, an expired spread) end a run the same way, after what was committed.

`DailyDecision`: the state is evidence (`day`, `spread`, `held`, `book`); an action is one source reporting
one new value. Everything the code does is in the operators: `Ticketed` is the chain of decisions of one run
up to the ticket, `Advice` the exit recommendation. Amounts are whole numbers, percentages multiplied out, so
comparisons are exact as they are with `Decimal`; the divisions of `calculate_contracts` are whole divisions.

`PilotReports`: `report` is the one report that is being built; `step` is the query that comes next, and each
query is an action, so that any commit of `PilotOperations` may fall between two. Reports write nothing that
another reads (the gated dashboard writes a gate row, which no query of a report selects), so one report, begun at any moment,
is enough. The fields `counted`, `open`, `openLive` and `closed` note the tables when a report begins, and
`touched` whether a row it could read was added since; no action reads them. A report that is done is put
away by the first row it would have read, to keep the state small: `OnlyLateRowsRewriteReports` speaks only
of reports without such a row anyway. A
signoff is in `signoffs` and nothing but the packet reads it. The packet holds the counts of its snapshots from its
second query on, but asks for the shutdown flag of each day anew (`LoadDayShutdown`). A day is `DayLength` ticks of the row's text, as `substr(created_at, 1,
10)` is.

`DeskReport`: `filledOn` and `markedOn` date the fill and the exit of each run of `PaperDesk`, each when it is
committed: the fill carries `entry_market.observed_at` of the request, the exit `exit_market.marked_at`, and
nothing compares the two (`paper/workflow.py:354`, `:387`), so `Trade` takes any date for either. The positions
are read of every date. `section` is the report. The report at the end of the workflow is drawn by the same function
as the `daily-report` command, so it is one of those drawn at any moment. `book` in a section is what was
open when the positions were read, and only the properties look at it.

`Backtest`: `history` is the file, `sample` the trades of the scenario that runs (by their place in the file,
since ids need not be unique), `walk` the locals of `_drawdown_metrics`, `sums` the sums over
`trade_results`, added up trade by trade instead of afterwards. Slippage and commission are given in halves so
that 1.5 times either is whole; a ratio is kept as the pair it is made of, and two ratios are compared by
cross-multiplication. `curve` is a history variable.

## Runs

Deadlock is not checked: every bounded instance stops when its rows, fills and clock are used up, and the
program stops whenever the operator does.

| Run | Question | Bounds, and why they are enough |
| --- | --- | --- |
| `PilotSequential` | With one command at a time and honest clocks, do the log-derived sessions implement the lifecycle machine, and is a hard stop released only by a review or a new start? | two pilots, five rows: start, hard stop, review, resume and one more |
| `PilotConcurrent` | Is a kill the only thing that leaves a fill half recorded, or a hard violation without its stop? How far can races exceed one active session, and the review point? | three pilots, so that two starts and a spare are possible; two fills, each with a soft or a hard violation or a dry run, in two processes, one kill; two session rows are a start and a stop that races the stop of a fill; review point 1 |
| `PilotDelayed` | With timestamps in any order, does the pass over the rows agree with its closed form? Does a hard violation lead to a stop while another command stops and resumes the session? | one pilot, one config version, three session rows of commands and the stop of one fill, under two timestamps, by two processes: every order of start, stop and resume (the fill is stamped with the first of the two) |
| `GateReplay` | Does the gate, run again for the same moment, answer the same unless a late row came in? Is there a way back to GO after a violation? | two rows or snapshots of other commands after the initial four, and the rows of one fill with a hard violation (a soft one is that fill killed before its stop); one gate; files and verification are stale one tick later; each of the six queries may be overtaken, and the rows of a violation may be followed by any command |
| `PilotReports` | What can a report, drawn query by query, hide or get wrong while fills are recorded and killed? Is it the same when drawn again? Is the dashboard ever milder than the gate? | one pilot, one process, one signoff, two fills of which the first may be torn by the one kill and the second overlap the report; two dates; fills one tick late; review points of the session 2 and 2, of the dashboard 1 and 2, and a session is due after one tick: the dashboard's point is passed on the way to the gate's, and time alone makes a session due |
| `DeskReports` | Is a stated open risk the whole risk? Does advice refer to listed positions? | two workers, two runs on two underlyings, one kill, and two dates for every fill, exit and report: a position of another date, one filled and advised on on different days, a torn one, and one inserted between two queries |
| `BacktestWalk` | Do the totals explain the equity, does the single pass find drawdown and recovery, and does any stress scenario end higher, win more or fall less than the base run? | files of up to three trades out of a winner, losers of two sizes, trades of one day, a trade filtered out, one not filled, one refused; three trades make a fall, a recovery and a second fall |
| `DeskRaces` | Do positions that lost their fill pile up over kills and reruns? How far do two workflows overrun a limit? Does the trail explain every position and exit? | two workers, three runs, three kills: one more run than workers, so that a run follows two torn ones; limits of 8 on an account of 100 hold one trade of 4 or 5, so each of the three limits is the binding one for some pair of chains |
| `DecisionLadder` | Do the entry and exit decisions, made of gates in nine files, agree with each other, and do they move one way only? | each field on both sides of its threshold and on it; up to three fields wrong at once, because a decision that goes wrong does so through two gates and a verdict that masks one of them |

Three runs end in a counterexample, each about a sentence of the docs or a comment:

* `PilotDelayedStop`: a hard-violation fill typed in late writes its STOPPED row with the broker's time; it
  sorts before the STARTED row and stops nothing.
* `PilotOffsets`: a stop written in another UTC offset sorts before its start by text.
* `PilotRestart`: `pilot-start` with the id of a hard-stopped session needs no reset review.

Differences between code and docs met while modelling that are not kept as runs:

* At `review_min_trades` the gate answers REVIEW_REQUIRED for good: no recorded review lowers what it
  compares (`live/operations.py:424`), although the runbook speaks of "20 trades without review".
* A soft violation (two lots, a market order) prints "Live pilot stopped" (`live/pilot.py:607`); the
  session stays active and the session gate reads no shutdown row.
* The equity snapshot the gate reads has no age limit (`live/release_gate.py:666`); the runbook asks for
  one that is not stale.
* The gate compares `created_at` as text (`live/release_gate.py:622`): a violation in an eastern offset is
  outside a UTC gate's query. `NoGoAfterViolation` is therefore checked and proved with one offset, and
  `GateReplay` and `PilotReports` run with one: what mixed offsets do is shown by `PilotOffsets` alone.
* A close exactly on its average is neither RED nor YELLOW (`regime/classifier.py:371`): GREEN, even when the
  implied volatility is elevated, with the reason "underlying close is above 50-day moving average"
  (`:209`). The older `classify_regime` says RED there. Therefore the regime alone is not monotonic;
  `WorseNeverPermits` shows that the tickets still are.
* The exit engine knows RED but not BLACK (`strategy/exits.py:333`): without a kill switch in the request, a
  regime that gets worse from RED to BLACK drops the reason to reduce. `WorseNeverEases` evaluates the kill
  switch. In the paper workflow itself `KILL_SWITCH_EXIT` cannot occur, because no position is opened when
  the kill switch is BLACK.
* The risk is approved at the target credit, the simulated fill may be as low as the worst acceptable credit
  (`paper/workflow.py:224`): hence the slippage term of `BookWithinLimits`.
* The FILLED audit row comes before `record_open_position`, which may refuse an expired spread
  (`paper/workflow.py:361`): a trail row without a position. `TrailLeadsRows` therefore goes one way only.
* A YELLOW kill switch means reduced size only, and nothing enforces it; `TicketNeedsCleanEvidence` says
  nothing of `reducedSize`.
* Nothing closes a position and tickets stay DRAFT, so the book of `PaperDesk` only grows.
* Rows of a fill carry the broker's time, so a fill typed in late belongs to the past of a gate report that
  was already written: the exception in `OnlyLateRowsRewriteVerdicts`.

* The dashboards of `pilot-dashboard` know no start date of the pilot, so the 90-day review of
  `evaluate_pilot_review_status` is shown only by `risk-dashboard --pilot-started-at`
  (`live/operations.py:637`).
* The unclassified counts are a difference of two queries clamped at zero (`live/pilot.py:755`,
  `reporting/daily_report.py:208`): a fill classified between the two hides a torn one from that report.
  `HiddenFillsBounded` bounds what is hidden.
* The dashboard reads the shutdown flag before the fills (`live/pilot.py:742`): it can show a violation fill
  and no shutdown, but only one classified while it was built (`ViolationsShowShutdown`).
* Violation rows name no session, and the packet picks them by the session's dates
  (`live/operations.py:793`): the violations of a fill dated before the start or after the stop of its session
  are not in the packet that lists the fill. `PacketCoherent` asks only for the others.
* The dashboard compares with constants (20 and 30 trades, 90 days, `live/pilot.py:22`) the trades of all sessions
  and the start it is told; the gate compares with the points of its session (`live/operations.py:81`, `:424`),
  which `pilot-start` leaves at the same values and a caller of `start_pilot_session` may lower. Such a session may
  need a review while the dashboard says READY, and so may one that is due, when the dashboard is given no start.
  `ReviewNotMilder` therefore speaks of as many trades as the dashboard's own point, and of the start of a
  session that is due after at least as many days as the dashboard's; the model has constants of its own for the two. It also
  speaks of dashboards that no fill is dated after, since a fill of later date counts for the gate (which has
  no as-of time for trades) and not for an earlier dashboard.
* A paper run dates its fill by `entry_market.observed_at` and its exit by `exit_market.marked_at`
  (`paper/workflow.py:354`, `:387`), which `PaperTradingRequest` does not compare (`:188`). A report of the day of
  the exit then advises on a position whose fill of another day it does not read, so the position has no price,
  with no worker at work: the last case of `AdviceIsOnListedRisk`.
* The stop list of the runbook (`docs/live_pilot_runbook.md:46`) names the emergency shutdown, violations,
  critical errors, market orders, sessions, review points, stop events and stale equity. No paper ticket asks for any of
  them (`execution/ticket.py:195`, `paper/workflow.py:257`); the session gate and the release gate, which stand
  before a live fill, ask for most, and nothing for the age of the equity. `TicketNeedsCleanEvidence` says only
  what the gates before a ticket look at.
* Higher costs do not make every number of a backtest worse: a small winner that turns loser raises the average
  win (`backtest/engine.py:367`), and averages and ratios follow. `HigherCostsLookNoBetter` is about equity,
  winners, maximum drawdown and recovery.
* A cleared shutdown leads back to GO (`live/release_gate.py:588` asks for the latest row); only violations are final.
* The daily report prices open positions with the fills of its own date (`reporting/daily_report.py:671`,
  `:400`): for a position held overnight `open_max_loss` is MISSING, and `risk_by_expiration` and
  `risk_by_underlying` leave it out without saying so. `RiskStatedIsWhole` is what holds.
* The debit of a backtest trade has no upper bound: a loss may exceed the width of the spread
  (`backtest/engine.py:121`). Ids need not be unique, and the scenario without the best trades then removes
  every trade that shares an id with one (`:471`): hence `UniqueIds` in `RemovalNeverFlatters`.
* `math.ceil(n * 0.05)` is computed with floats (`backtest/engine.py:466`): of 140 trades it removes 8, not 7.
  The model computes the exact ceiling; in small numbers the two agree.
* A credit that does not pay three times the slippage raises in a scenario, and the base run that was
  finished is lost with it (`backtest/engine.py:314`): phase "raised" with a report on file.

### Fairness

Only `PilotDelayed` assumes any: weak fairness of each process' `Continue`. A started command runs to its
end because the operating system schedules it, and none of its steps waits for another process. Nothing
is assumed of the operator (no fairness for commands), and no process is killed in that run.

## Proofs

`PilotOperations_proofs`, for any sets of pilots, versions, processes, fills, offsets and any bounds:

* `TypeCorrect`: `Spec => []TypeOK`. `TypeOK` includes that a process at a step holds the row or the fill
  that step writes, which makes it inductive by itself.
* `ActiveSessionsBound`: `Spec => []ActiveSessionsBounded`. Neither the active sessions nor the pending
  starts are bounded alone; what is inductive is the number of both together. A start or resume is decided
  only when no session is active, so the commands that hold one were all undecided then; inserting the row
  moves one unit from pending to active; the stop of a late timestamp may activate nothing. That rows are
  read in text order matters at one place: a row that is appended can change the last row only of its own
  pilot.
* `HardStopsHold`: `Spec => []HardStopNeedsReviewOrRestart`, assuming `OneHonestOperator`: one command at a
  time, stamped with its moment, in one UTC offset. `PilotDelayedStop` shows that the property is lost
  when a fill is typed in late. Under the assumption the text order is the order of the ids (`ReadInOrder`), so an active
  session has a start or a resumption as its last row. The invariant `StopInv` adds that two stops have a
  revival between them (`Alternating`), that a resumption after a hard stop came after its review
  (`ResumedInOrder`), and that what a command has decided still holds when it commits (`Decided`).

* `LogImplementsLifecycle`: `Spec => ImplementsLifecycle`, under the same assumption: the refinement of
  `PilotLifecycle`, step by step. A row that is inserted last is also read last, so a row of a kind maps to the
  action of that kind and every other step to a stutter (`InsertIsStep`, `SameLogStutters`). The guard of
  the abstract action is what the command has decided on, and it still holds at the commit (`Sound`): for a
  start or a resumption that no session is active, from `ActiveSessionsBounded` (`NoneActiveYet`), for the
  others from `StopInv`.

Its second part is about the fills, for any interleaving and any timestamps:

* `TornFillsBound`: `Spec => []OneTornFillPerCrash`, and `MissedStopsBound`: `Spec => []HardFillLeavesStopRow`.
  Both count fills against kills, so the invariant has to know of each step that the rows written so far fit
  the step, and that no two processes hold the same fill (`HoldInv`); then a commit leaves the set of torn
  fills alone and a kill adds one. For the stop, `GateInv` says that the session of a fill in progress is
  active or was stopped since its gate check: when the stop raises because another command stopped the session
  first, the row is there.
* `TradeOverrunBound`: `Spec => []TradeOverrunBounded`. A trade is counted, held by a process, or torn
  (`TradesAccounted`). What is inductive is the bound on the counted trades together with the processes that hold
  an uncounted one (`ReviewInv`), as for the active sessions: the gate lets a process hold one only
  below the review point.

And its last part is about reading:

* `FoldIsOutcome`: `Spec => []FoldAgrees`. It holds of any rows whatever (`FoldOfLog`), so types are all the
  invariant it needs. After n turns the dictionary of the loop is what `Derived` reads off the first n rows of the
  query (`ReadOffIsPass`): a row is read after those before it, so it is the last of its session from then on, and
  `Apply` does to the session what a new last row means for it (`DerivedApplies`). That the query returns
  the rows one by one and all of them (`FirstRowsAre`) is the lemma about places in an order. The loop is a
  recursive function; that there is one and only one (`OnePass`) is again proved by a smallest counterexample.

`ReleaseGate_proofs`, for any constants:

* `TypeCorrect`: `Spec => []TypeOK`; needs that only rows with a config version start a session
  (`StartsHaveVersion`), since the packet takes its version from such a row.
* `LateRowsAlone`: `Spec => []OnlyLateRowsRewriteVerdicts`. The inductive invariant says for the running
  gate and for each report: if no row and no snapshot inserted after its mark lies in its past, then
  `failed` is exactly that one of the checks done so far does not hold on the *present* log
  (`GateAgrees`, `ReportsAgree`). A row after the gate's moment leaves `AsOf` unchanged; a row in its past
  makes the premise false for good. `MarksOK` bounds the marks by the lengths.
* `ViolationsAreFinal`: `Spec => []NoGoAfterViolation`, assuming `OneOffset` (see the differences above for
  why it must). A violation recorded before the gate began is in the past of its moment, so the check fails
  whenever the query is made; `CleanSoFar` carries over the steps that a gate which has passed that check began
  on a log without violations.

`PilotReports_proofs`, on top of `PilotOperations_proofs`, for any interleaving, kills and timestamps:

* `LateRowsAloneRewrite`: `Spec => []OnlyLateRowsRewriteReports` (here and below `Spec` is `ReportsSpec`).
  `Readable` is what the queries of a report depend on (`SameRows`, `SameAnswers`), so a query asked again
  answers the same unless `touched`. The invariant `Faithful` says it of the queries made so far: what the
  report holds is what they would answer now; each query adds itself (`ContinueFaithful`), and a commit
  either leaves `Readable` alone or sets `touched`.
* `HiddenFillsBound`: `Spec => []HiddenFillsBounded`, and `ShutdownShown`: `Spec => []ViolationsShowShutdown`.
  Of a fill the rows are only added to (`Grown`), in an order that the proofs about fills know from the step of
  the process that holds it (`RowsInOrder`): classified after `LIVE_FILL` and after its shutdown. So each
  count taken is at least the one at the beginning and at most the one of now (`CountsWithin`), which bounds
  the difference of two of them; and as long as no shutdown was seen, what was classified at the beginning
  was calm, and stays among the calm fills that the violation fills are counted apart from.
* `NeverMilder`: `Spec => []ReviewNotMilder`. What the gate counts has a `LIVE_FILL` row (`GateCountsLive`), so
  before the trade query the rows are there, and the query counts them all unless one is dated later. The half
  about days needs only that a dashboard is for a moment: the days of the session are over by then.
* `ReportTypes`: `Spec => []ReportTypeOK`, and `PacketsCohere`: `Spec => []PacketCoherent`. `PacketInv` says of a
  packet what the queries made so far have to hold about the fills listed (`PacketTold`): a listed fill is
  classified, so all its rows are committed, and neither they nor the fill change afterwards (`GrowPacket`); each
  query therefore finds them, however late it comes. The violations a snapshot counts are a sum over the fills
  of its day, of which the listed ones are a part.

`PaperDesk_proofs`, for any workers, chains, limits and numbers of runs and kills:

* `TypeCorrect`: `Spec => []TypeOK`, and `TrailFirst`: `Spec => []TrailLeadsRows`. The invariant `IInv` is what
  the rows refer to (`Rows`), and for each worker what it remembers of its run (`Memory`) and that the commits
  before its step are in the tables (`Committed`). Two workers never share a run, since a run is numbered when
  it starts.
* `TornBounded`: `Spec => []OneTornPositionPerWorker`. `TornHaveWorkers`: the torn positions map one to one to
  workers that cannot open another position before they have seen them (`Spent`): they are at the fill itself, or over,
  or their reconciliation sees the position and refuses. A kill changes no owner, a new torn position gets
  the worker that inserted it.
* `LimitsHold`: `Spec => []BookWithinLimits`. No count of what is open is inductive by itself, because the book
  a worker judges lacks the runs that are not yet filled. `LimitInv` therefore speaks of the worker approved last:
  with its trade, the book it saw was within the limit, and of all that is open or about to be opened now, that book
  lacked at most one run of each worker. An approval starts over with the book of now, and what that lacks
  are runs other workers have in hand; a kill only takes runs away. From there to the limit it is a sum: each run lacked loses
  at most `Max(FilledLosses)`, and a position loses what its fill says, which stays between the worst credit the
  caller accepted and the target (`SaleInv`). It needs `PriceInv` (below) as well, and `MarketAssumption`: finitely many
  chains and sizes, and evidence judged by the equity of the account or by none.

`DeskReport_proofs`, on top of it, for any dates of fills and exits as well; it needs `SpreadAssumption`, that widths and
credits are whole numbers (`Spec` is `ReportSpec`):

* `ReportTypes`: `Spec => []ReportTypeOK`, and `AdviceIsListed`: `Spec => []AdviceIsOnListedRisk`. A position is
  listed with a loss only if the credit of its fill is below its width. `PriceInv` follows that from the ticket,
  which is refused otherwise, over the simulated fill, which is at its target or below, to the rows of position and
  fill (`Prices`, `PriceRows`); it needs that no two workers share a run (`Apart`). `SectionInv` says of each step of
  the report: whoever is at work is recent (`Begun`), so that new advice is too (`DeskGoesOn`); the fills read
  cover the older advice of the date (`FillsRead`) whose fill is of the date too, and the lines cover it after
  them (`LinesCover`); a position without a price has its fill on another day.
* `StatedRiskIsWhole`: `Spec => []RiskStatedIsWhole`. `WholeInv` keeps, from the last query that reads them on, that the lines
  are those of the book and that a priced line is the loss of its position (`LineIsRisk`: the fill of the tables
  has the credit of the trail). A total is stated only when every line is priced, and then is a sum of equal terms; with
  a line unpriced, the sum of a group runs over a part of it.

`DailyDecision_proofs`, for any thresholds, limits and evidence. The decisions are functions of the state, so
type correctness is the whole invariant, and each theorem is a case analysis of the ladders:

* `TypeCorrect`: `Spec => []TypeOK`, from the types of the reported values.
* `TicketsNeedCleanEvidence`, what the gates before a ticket amount to: a ticket is traced back through status,
  scan, regime and data quality to the raw evidence (`TicketGates`, `OpenRegime`, `PassedData`).
* `EntriesAreNoExits` and `ReviewsMeanClose` need the order of thresholds of different files:
  `ThresholdAssumption`, `MinDTE > CloseDTE`, `MinDelta > 0`, `ReviewDTE <= CloseDTE`, which the values of
  `config/default.yaml` and of the exit policies satisfy and no validation of the code enforces.
* `WorseEvidenceNeverEases`: each ladder climbs with worse evidence (`FindingsGrow`, `LaddersClimb`), and each
  exit reason stays or the kill switch replaces it (`ReasonsStay`).
* `SizesFit`: the size is a whole division, and multiplying it back stays below the limit.
* `TheLimitsAgree`: both implementations add the trade to a sum over the same positions, and the totals are
  these sums; an underlying or expiration without positions has the sum zero (`BookAssumption` types the
  losses).
* `WorseEvidenceNeverPermits`: the ladders of regime and kill switch do not climb in step (GREEN comes back on a
  close equal to its average), so each refusal is followed through the gate that keeps it: a check that fails
  goes on failing with worse evidence, and a book that grows has no smaller sum.

`Backtest_proofs`, for files of any trades, any costs and any bound on the rows:

* `TypeCorrect`: `Spec => []TypeOK`, which includes that every scenario works on valid trades, also after the
  dates are moved. Proved from each action; the stress scenarios share the lemma about `Begin`.
* `LedgerAlwaysBalances`: `Spec => []LedgerBalances`. The totals and the equity change by the same amount at
  each `CloseTrade`: one identity of products, `NetPnl = GrossPnl - SlippageDrag - CommissionDrag`, that
  the solvers get factor by factor.
* `DrawdownAlwaysExact`: `Spec => []DrawdownIsExact`. What is inductive is `DrawdownInv`: the running peak is
  the last of the highest points of the curve and the walk's equity is its last point (`WalkOK`). A new
  point below the peak has that peak and no other, and the comparison of two falls by cross-multiplication
  is transitive because peaks are positive.

Its other theorems compare a metric with what the whole curve says, or one scenario with another. Both need to know what a
report *is*, after the variables of its walk are gone. `ToldInv` says it: each report is the run of a sample that
its scenario may play, at the costs of its scenario (`Plays`); its totals are the sums over the executed trades
(`TotalsOf`), and the k-th point of its curve has the equity and the exit day of the k-th trade to close
(`IsPoint`). `CloseTrade` adds one term to each sum and one point to the curve (`TradeAdds`, `CurveGoesOn`).

* `ShufflingKeepsTotals`: `Spec => []ShuffleKeepsTotals`. Dealing out the dates changes neither what a trade earns
  nor whether it is executed, and a sum does not see the order (`ShuffledEarns`).
* `RemovalLowers`: `Spec => []RemovalNeverFlatters`. Of a set of at least n trades exactly n have fewer than n
  ahead of them (`FirstMany`). As at least n trades win and winners are ahead of the others, those n are winners
  (`BestAreWinners`); with unique ids nobody else is removed (`OnlyBestRemoved`), and the equity loses a positive sum.
* `RecoveryAlwaysExact`: `Spec => []RecoveryIsExact`. `RecoveryInv` says of the pass that it stands at the last of
  the highest points and holds the longest stretch regained so far (`RecoveryTold`). A point that regains the peak
  closes the one stretch that was open, all others were closed before (`LongestGoesOn`). At the end there is
  at most one open stretch, from the last peak (`StretchIs`), and the two branches of the code differ in the
  day they measure it to.
* `CostsNeverFlatter`: `Spec => []HigherCostsLookNoBetter`, about equity, winners, maximum drawdown and
  recovery. The two curves have the same days, and the costlier one falls behind from point to point and never catches up (`CurvesDiverge`, `FallsBehind`). Hence a fall from a peak
  of the cheap curve is there in the costlier one, at least as deep and from a base no higher (`DeeperPart`), and
  a stretch under water lies within one of the costlier curve (`StretchWidens`).

`SumLemmas` is about the sums of the community modules, which are defined by recursion over a finite set. No
induction theorem is used: each fact is proved of a smallest set that would contradict it, which exists because
the inclusion of finite sets is well-founded. That the recursion has a solution at all is proved the same
way (`SumsExist`), then what one element adds (`SumAdd`), that parts of a sum of naturals are smaller (`SumPart`), and
that equal terms give equal sums, also under other indices (`SumSame`, `SumMoved`). Its last part is about finite
sets in an order: first and last elements, that the number of elements before one tells it from the others
(`RanksTell`), and that n elements have fewer than n before them (`FirstMany`).

Only model-checked is liveness (`HardFillEventuallyStops`), which the prover does not cover. Every invariant and
the refinement that a run checks are proved, three of them under an assumption that their run makes as well:
`OneHonestOperator` for `HardStopsHold` and `LogImplementsLifecycle` (`PilotDelayedStop` shows what is lost without it)
and `OneOffset` for `ViolationsAreFinal`.

## Not modelled

Configuration, command line, readiness dry run
and demo packet are left out for the reasons `PROJECT.json` gives. The evidence that a request carries is not
tied to the chain it is used with (`paper/workflow.py:257` checks neither times nor symbols of its verdicts):
`PaperDesk` takes the verdicts of a day as they are, and one evaluation time per run.

Price arithmetic, CSV parsing, argument parsing, wording and JSON layout. Gate checks that a file parses or
asks for broker submission: files are valid or absent. What was ticked off on
a daily signoff. The execution checklist (`live/pilot.py:107`) is a pure check no command calls.

Of the daily report: candidates, tickets, rejection counts, the latest regime, snapshot and kill switch of the
day; each is one query and a maximum or a count. Of the dashboard: the config-lock line. Of the backtest: the
ratios of returns, averages, and the seed, which `Shuffles` replaces by every order it could give.
