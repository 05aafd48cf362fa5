---------------------------- MODULE PilotReports ----------------------------
(***************************************************************************)
(* What an operator reads of the pilot: the daily report, the risk         *)
(* dashboard, the same dashboard behind the session gate, and the evidence *)
(* packet, while the commands of PilotOperations go on writing.            *)
(*                                                                         *)
(* A report is several queries one after the other, each a read of its     *)
(* own: rows committed between two of them are in the later one only.      *)
(* Reports write nothing that any of them reads, so one, begun at any      *)
(* moment, is enough.  Prices, positions and the config lock are left out; *)
(* the rows about a fill all carry the time of the fill                    *)
(* (LiveFillEntry.to_fill).                                                *)
(***************************************************************************)
EXTENDS PilotOperations, FiniteSetsExt

CONSTANTS
  DayLength,    \* ticks of a day
  NoBound,      \* as_of or pilot_started_at left out
  \* What the dashboard compares with, whatever the review points of the sessions are
  PilotReviewMin, \* PILOT_REVIEW_MIN_TRADES
  PilotReviewMax, \* PILOT_REVIEW_MAX_TRADES
  PilotReviewAfter, \* PILOT_REVIEW_DAYS, in ticks
  MaxSignoffs   \* bound: daily signoffs

ASSUME DayLengthAssumption == DayLength \in Nat \ {0}
ASSUME PilotReviewAssumption ==
  /\ PilotReviewMin \in Nat \ {0} /\ PilotReviewMax \in Nat /\ PilotReviewMax >= PilotReviewMin
  /\ PilotReviewAfter \in Nat \ {0}
ASSUME SignoffAssumption == MaxSignoffs \in Nat

\* The program's own timestamps are UTC, in whatever offsets an operator writes.
OwnStamp == {Utc(t) : t \in Times}

ASSUME NoBoundAssumption == NoBound \notin Stamp \cup OwnStamp

VARIABLES
  signoffs, \* rows LIVE_PILOT_DAILY_SIGNOFF_*, their index is the row id
  report,   \* the report that is built, and after it is done what it says
  touched   \* history variable: rows the report may read were added since it began

reportVars == <<vars, signoffs, report, touched>>

-----------------------------------------------------------------------------
(* The queries *)

Day(t) == Text(t) \div DayLength

\* (? IS NULL OR created_at <= ?)
Seen(t, at) == at = NoBound \/ Text(t) <= Text(at)

SeenFills(at) == {f \in DOMAIN fills : Seen(fills[f].at, at)}

\* [fault] the moment the report is for is left out
FillsOn_AnyTime(date, at) == {f \in DOMAIN fills : Day(fills[f].at) = date}

\* substr(created_at, 1, 10) = ?
FillsOn(date, at) == {f \in SeenFills(at) : Day(fills[f].at) = date}

WithRow(S, kind) == {f \in S : kind \in fills[f].rows}

\* _count_live_fills, over all sessions and days, dry runs included
LiveFills(at) == WithRow(SeenFills(at), "LIVE_FILL")

CountTrades(at) == Cardinality(LiveFills(at))

\* [fault] the classifications of all days are counted
ClassifiedOn_AnyDay(date, at) == WithRow(SeenFills(at), "CLASSIFIED")

\* _live_fill_classification_counts
ClassifiedOn(date, at) == WithRow(FillsOn(date, at), "CLASSIFIED")

ViolationFills(S) == {f \in S : Violations(fills[f].entry) # <<>>}

CountViolations(date, at) == SumFunction([f \in FillsOn(date, at) |-> fills[f].violations])

\* [fault] the shutdown of this very moment is not seen
ShutdownActive_Before(at) == \E t \in shutdowns : Text(t) < Text(at)

\* load_latest_emergency_shutdown; nothing here clears the flag.
ShutdownActive(at) == \E t \in shutdowns : Seen(t, at)

\* (as_of - pilot_started_at).days reaches whole days when the difference does.
ReviewDays(started, at) ==
  started # NoBound /\ at.instant - started.instant >= PilotReviewAfter

\* [fault] the review point is passed instead of reached
ReviewStatus_Late(trades, started, at) ==
  IF trades >= PilotReviewMax THEN "STOPPED"
  ELSE IF trades > PilotReviewMin \/ ReviewDays(started, at) THEN "REVIEW_REQUIRED"
  ELSE "READY"

\* evaluate_pilot_review_status.  It raises for a start after as_of.
ReviewStatus(trades, started, at) ==
  IF trades >= PilotReviewMax THEN "STOPPED"
  ELSE IF trades >= PilotReviewMin \/ ReviewDays(started, at) THEN "REVIEW_REQUIRED"
  ELSE "READY"

-----------------------------------------------------------------------------
(* Daily report and dashboards *)

Dates == {Day(t) : t \in Stamp}

\* The fields below the date are history variables, noted when the report begins: the
\* trade counts the gate could read, the fills of the day without a
\* classification, with and without their LIVE_FILL row, and those classified.
Begun(kind, date, at) ==
  [kind |-> kind, step |-> "fills", date |-> date, at |-> at,
   counted |-> {TradeCount(p) : p \in Pilots},
   open |-> Cardinality(FillsOn(date, at) \ ClassifiedOn(date, at)),
   openLive |-> Cardinality(WithRow(FillsOn(date, at), "LIVE_FILL") \ ClassifiedOn(date, at)),
   closed |-> Cardinality(ClassifiedOn(date, at)),
   dailyFills |-> 0, dailyClassified |-> 0, shutdown |-> FALSE, trades |-> 0,
   today |-> 0, classified |-> 0, violationFills |-> 0, violations |-> 0]

Begin(r) ==
  /\ report' = r /\ touched' = FALSE
  /\ UNCHANGED <<vars, signoffs>>

DailyReport(date) == Begin(Begun("DAILY", date, NoBound))
RiskDashboard(date) == Begin(Begun("DASHBOARD", date, Utc(now)))

\* build_gated_live_risk_dashboard_from_database: the gate is asked first.
PilotDashboard(p, v, date, at) ==
  /\ GateReason(p, v, at) = "PILOT_SESSION_ACTIVE"
  /\ Begin(Begun("DASHBOARD", date, at))

\* One query; then the step that follows.
Read(step, r) == report.step = step /\ report' = r /\ UNCHANGED <<vars, signoffs, touched>>

\* _load_fills
LoadFills ==
  Read("fills", [report EXCEPT !.step = "audit",
    !.dailyFills = Cardinality(FillsOn(report.date, report.at))])

\* _load_audit_logs, counted by _fill_classification_counts; this is all of the daily
\* report itself.
LoadAuditLogs ==
  Read("audit", [report EXCEPT !.step = IF report.kind = "DAILY" THEN "done" ELSE "shutdown",
    !.dailyClassified = Cardinality(ClassifiedOn(report.date, report.at))])

LoadShutdown ==
  /\ report.kind # "PACKET"
  /\ Read("shutdown", [report EXCEPT !.step = "trades", !.shutdown = ShutdownActive(report.at)])

CountAllTrades ==
  Read("trades", [report EXCEPT !.step = "today", !.trades = CountTrades(report.at)])

CountToday ==
  Read("today", [report EXCEPT !.step = "classified",
    !.today = Cardinality(WithRow(FillsOn(report.date, report.at), "LIVE_FILL"))])

\* [fault] violation fills are counted whether classified or not
CountClassified_Recorded ==
  Read("classified", [report EXCEPT !.step = "violations",
    !.classified = Cardinality(ClassifiedOn(report.date, report.at)),
    !.violationFills = Cardinality(ViolationFills(FillsOn(report.date, report.at)))])

\* _live_fill_classification_counts reads once and counts both kinds.
CountClassified ==
  Read("classified", [report EXCEPT !.step = "violations",
    !.classified = Cardinality(ClassifiedOn(report.date, report.at)),
    !.violationFills = Cardinality(ViolationFills(ClassifiedOn(report.date, report.at)))])

CountDayViolations ==
  Read("violations", [report EXCEPT !.step = "done",
    !.violations = CountViolations(report.date, report.at)])

-----------------------------------------------------------------------------
(* The evidence packet *)

\* [fault] the fills recorded, whether booked on a session or not
SessionFills_Recorded(p, at) == {f \in LiveFills(at) : fills[f].pilot = p}

\* _session_fill_ids
SessionFills(p, at) == {f \in WithRow(SeenFills(at), "SESSION_FILL") : fills[f].pilot = p}

\* build_pilot_evidence_packet: the first query is the session, as of the packet.
EvidencePacket(p, at) ==
  LET known == AsOf(log, at)
      start == known[StartRow(known, p)].at
      stops == {known[i].at.instant : i \in {i \in DOMAIN known : IsStopRow(known, i, p)}}
  IN /\ Exists(known, p)
     /\ Begin([kind |-> "PACKET", step |-> "rows", pilot |-> p, at |-> at,
               started |-> start.instant, stopped |-> stops,
               tradeCount |-> Cardinality({f \in SessionFills(p, at) : ~fills[f].entry.dryRun}),
               ids |-> {}, slippage |-> {}, violations |-> <<>>, signoffs |-> {},
               counts |-> <<>>, fills |-> {}, days |-> {Day(start), Day(at)},
               shutdown |-> <<>>])

\* _event_belongs_to_pilot_or_session_dates: a violation row names no session.
InSession(r, t) == t.instant >= r.started /\ \A stop \in r.stopped : t.instant <= stop

SignoffsOf(p, at) == {i \in DOMAIN signoffs : signoffs[i].pilot = p /\ Seen(signoffs[i].at, at)}

\* The counts of one day in dashboard_snapshots, over all sessions
DayCounts(date, at) ==
  [fills |-> Cardinality(WithRow(FillsOn(date, at), "LIVE_FILL")),
   violations |-> CountViolations(date, at)]

\* _query_audit_rows, from which everything but the fills and the shutdown flag is
\* taken: the ids of the fills, their slippage rows, the violations, by the fill they are
\* about, the signoffs, and the counts of any day.
LoadPacketRows ==
  LET ids == SessionFills(report.pilot, report.at) IN
  Read("rows", [report EXCEPT !.step = "fillRows",
    !.ids = ids,
    !.slippage = WithRow(ids, "SLIPPAGE"),
    !.violations = [f \in {f \in SeenFills(report.at) : InSession(report, fills[f].at)} |->
                      fills[f].violations],
    !.signoffs = SignoffsOf(report.pilot, report.at),
    !.counts = [d \in Dates |-> DayCounts(d, report.at)]])

\* _fill_rows, and the days of _dashboard_snapshots_for_fills
LoadFillRows ==
  LET found == report.ids \cap SeenFills(report.at) IN
  Read("fillRows", [report EXCEPT !.step = "shutdown",
    !.fills = found, !.days = @ \cup {Day(fills[f].at) : f \in found}])

\* One dashboard per day, in order; of each, only the shutdown flag is new.
LoadDayShutdown ==
  LET left == report.days \ DOMAIN report.shutdown
      day == Min(left)
  IN /\ report.kind = "PACKET"
     /\ Read("shutdown", [report EXCEPT
          !.step = IF left = {day} THEN "done" ELSE "shutdown",
          !.shutdown = [d \in DOMAIN @ \cup {day} |->
                          IF d = day THEN ShutdownActive(report.at) ELSE @[d]]])

-----------------------------------------------------------------------------

NoReport == [kind |-> "NONE", step |-> "done", at |-> NoBound]

\* --generated-at: the moment of the command or an earlier one
AskStamps == {t \in Stamp : t.instant <= now}

BeginReport ==
  /\ report = NoReport
  /\ \/ \E date \in Dates : DailyReport(date)
     \/ \E date \in Dates : RiskDashboard(date)
     \/ \E p \in Pilots \cup {AnyPilot}, v \in Versions, date \in Dates, at \in AskStamps :
          PilotDashboard(p, v, date, at)
     \/ \E p \in Pilots, at \in AskStamps : EvidencePacket(p, at)

ContinueReport ==
  \/ LoadFills \/ LoadAuditLogs \/ LoadShutdown
  \/ CountAllTrades \/ CountToday \/ CountClassified \/ CountDayViolations
  \/ LoadPacketRows \/ LoadFillRows \/ LoadDayShutdown

\* The rows report r may read.
Readable(r) ==
  [log |-> IF r.kind = "PACKET" THEN AsOf(log, r.at) ELSE <<>>,
   signoffs |-> IF r.kind = "PACKET" THEN SignoffsOf(r.pilot, r.at) ELSE {},
   fills |-> [f \in SeenFills(r.at) |-> fills[f]],
   shutdowns |-> {t \in shutdowns : Seen(t, r.at)}]

\* record_daily_operator_signoff: one insert for a session that exists, active or not,
\* whatever was ticked off.
RecordSignoff(p, at) ==
  /\ Exists(log, p) /\ Len(signoffs) < MaxSignoffs
  /\ signoffs' = Append(signoffs, [pilot |-> p, at |-> at])
  /\ UNCHANGED vars

ReportsInit == Init /\ signoffs = <<>> /\ report = NoReport /\ touched = FALSE

\* A step of a command.  A report that is done is put away when a row is added that it
\* would have read.
Write ==
  /\ \/ Next /\ UNCHANGED signoffs
     \/ \E p \in Pilots, at \in Stamps : RecordSignoff(p, at)
  /\ \E r \in {report} :
       LET added == Readable(r)' # Readable(r) IN
       IF added /\ r.step = "done"
       THEN report' = NoReport /\ touched' = FALSE
       ELSE report' = r /\ touched' = (touched \/ added)

ReportsNext == Write \/ BeginReport \/ ContinueReport

ReportsSpec == ReportsInit /\ [][ReportsNext]_reportVars

-----------------------------------------------------------------------------
(* Properties *)

Dashboards == {"DAILY", "DASHBOARD"}
Done(kinds) == report.kind \in kinds /\ report.step = "done"

Counts ==
  {"open", "openLive", "closed", "dailyFills", "dailyClassified", "trades",
   "today", "classified", "violationFills", "violations"}

\* A report holds dates, counts and fills that exist; a dashboard never shows more
\* violation fills than fills it counts as classified.
ReportTypeOK ==
  /\ touched \in BOOLEAN
  /\ report.kind \in Dashboards =>
       /\ report.date \in Dates /\ report.at \in Stamp \cup OwnStamp \cup {NoBound}
       /\ report.counted \subseteq Nat /\ \A c \in Counts : report[c] \in Nat
       /\ report.shutdown \in BOOLEAN /\ report.violationFills <= report.classified
  /\ report.kind = "PACKET" =>
       /\ report.at \in Stamp /\ report.started \in Times /\ report.stopped \subseteq Times
       /\ report.ids \cup report.slippage \cup report.fills \subseteq DOMAIN fills
       /\ report.signoffs \subseteq DOMAIN signoffs
       /\ report.days \subseteq Dates /\ DOMAIN report.shutdown \subseteq report.days
       /\ report.step = "done" => report.shutdown \in [report.days -> BOOLEAN]

\* The report with all its queries asked again, in one moment.
AskedAgain ==
  LET daily == [report EXCEPT
        !.dailyFills = Cardinality(FillsOn(report.date, report.at)),
        !.dailyClassified = Cardinality(ClassifiedOn(report.date, report.at))]
  IN CASE report.kind = "DAILY" -> daily
       [] report.kind = "DASHBOARD" ->
            [daily EXCEPT
               !.shutdown = ShutdownActive(report.at),
               !.trades = CountTrades(report.at),
               !.today = Cardinality(WithRow(FillsOn(report.date, report.at), "LIVE_FILL")),
               !.classified = Cardinality(ClassifiedOn(report.date, report.at)),
               !.violationFills =
                 Cardinality(ViolationFills(ClassifiedOn(report.date, report.at))),
               !.violations = CountViolations(report.date, report.at)]
       [] report.kind = "PACKET" ->
            LET ids == SessionFills(report.pilot, report.at) IN
            [report EXCEPT
               !.tradeCount = Cardinality({f \in ids : ~fills[f].entry.dryRun}),
               !.ids = ids, !.fills = ids, !.slippage = WithRow(ids, "SLIPPAGE"),
               !.signoffs = SignoffsOf(report.pilot, report.at),
               !.counts = [d \in Dates |-> DayCounts(d, report.at)],
               !.shutdown = [d \in DOMAIN @ |-> ShutdownActive(report.at)]]

\* docs/forensic_end_to_end_audit.md:141 and :149: generated_at is an as-of boundary.
\* Rows dated after it never change a report that is asked for again, whichever query
\* they fall between; only rows typed in late, dated at or before it, do.
OnlyLateRowsRewriteReports ==
  report.kind # "NONE" /\ report.step = "done" /\ ~touched => report = AskedAgain

\* What --pilot-started-at may say; without it and in pilot-dashboard there is no start.
PilotStarts(at) == {NoBound} \cup {t \in Stamp : t.instant <= at.instant}

\* The dashboard counts LIVE_FILL rows of every session, dry runs too; the gate counts
\* the fills booked on one session.  A dashboard that no fill is dated after is never
\* READY when the gate could count as many fills of one session, by the time it began, as
\* the dashboard's own review point, wherever a command was killed; nor when it is given the
\* start of a session that is due, if that session's days are not fewer than its own.
\* A session with a lower review point of its own may be due and the dashboard READY.
ReviewNotMilder ==
  Done({"DASHBOARD"}) =>
    /\ (\E n \in report.counted : n >= PilotReviewMin)
         /\ (\A f \in DOMAIN fills : Seen(fills[f].at, report.at))
       => \A start \in PilotStarts(report.at) :
            ReviewStatus(report.trades, start, report.at) # "READY"
    /\ \A i \in DOMAIN log :
         /\ log[i].kind = "STARTED" /\ log[i].due <= report.at.instant
         /\ log[i].due - log[i].at.instant >= PilotReviewAfter
         => ReviewStatus(report.trades, log[i].at, report.at) # "READY"

\* Fills of the day classified since the report began.
ClassifiedMeanwhile == Cardinality(ClassifiedOn(report.date, report.at)) - report.closed

Unclassified(n, classified) == IF n > classified THEN n - classified ELSE 0

\* Both unclassified counts are a difference of two queries, cut off at zero: a fill
\* classified between the two hides one that a kill left unclassified.  No other fill
\* is hidden.
HiddenFillsBounded ==
  /\ Done(Dashboards) =>
       report.open - Unclassified(report.dailyFills, report.dailyClassified)
         <= ClassifiedMeanwhile
  /\ Done({"DASHBOARD"}) =>
       report.openLive - Unclassified(report.today, report.classified) <= ClassifiedMeanwhile

\* The shutdown flag is read before the fills are counted.  A dashboard that shows
\* violation fills and no shutdown shows only fills classified while it was built: the
\* shutdown row is committed before the classification, also when a kill follows.
ViolationsShowShutdown ==
  Done({"DASHBOARD"}) /\ ~report.shutdown =>
    report.violationFills <= ClassifiedMeanwhile

\* The evidence packet is built of one query after the other, and a fill of one commit
\* after the other; still a fill the packet lists comes with its slippage, with its
\* violations if they fall between the start and the stop of the session, and with a
\* snapshot of its day that counts it, counts its violations, and shows an active
\* shutdown if there are any; and no counted trade is missing.
PacketCoherent ==
  Done({"PACKET"}) =>
    /\ report.fills = report.ids /\ report.slippage = report.ids
    /\ report.tradeCount <= Cardinality({f \in report.fills : ~fills[f].entry.dryRun})
    /\ \A f \in report.fills :
         LET n == Len(Violations(fills[f].entry))
             day == Day(fills[f].at)
             listed == {g \in report.fills : Day(fills[g].at) = day}
         IN
         /\ InSession(report, fills[f].at) =>
              f \in DOMAIN report.violations /\ report.violations[f] = n
         /\ report.counts[day].fills >= Cardinality(listed)
         /\ report.counts[day].violations >=
              SumFunction([g \in listed |-> Len(Violations(fills[g].entry))])
         /\ n > 0 => report.shutdown[day]
=============================================================================
