--------------------------- MODULE PilotReports_proofs ---------------------------
(***************************************************************************)
(* Proofs about PilotReports, for every set of pilots, processes and       *)
(* fills, any offsets and any length of a day: a report that is drawn      *)
(* query by query is the report of its moment, and what its differences of *)
(* counts can hide.                                                        *)
(***************************************************************************)
EXTENDS PilotReports, PilotOperations_proofs, SumLemmas

-----------------------------------------------------------------------------
(* The form of a report *)

DashboardFields == {"kind", "step", "date", "at", "counted", "shutdown"} \cup Counts
PacketFields ==
  {"kind", "step", "pilot", "at", "started", "stopped", "tradeCount", "ids", "slippage",
   "violations", "signoffs", "counts", "fills", "days", "shutdown"}

\* The steps that follow each query of a dashboard, and of a packet.
AfterViolations == {"done"}
AfterClassified == AfterViolations \cup {"violations"}
AfterToday == AfterClassified \cup {"classified"}
AfterTrades == AfterToday \cup {"today"}
AfterShutdown == AfterTrades \cup {"trades"}
AfterAudit == AfterShutdown \cup {"shutdown"}
AfterFills == AfterAudit \cup {"audit"}
AfterRows == {"fillRows", "shutdown", "done"}
AfterFillRows == {"shutdown", "done"}

\* Every report is a record with the fields of its kind, at a step of its kind.
ReportShape ==
  /\ report.kind \in Dashboards \cup {"PACKET", "NONE"}
  /\ report.kind \in Dashboards =>
       report = [x \in DashboardFields |-> report[x]] /\ report.step \in AfterFills \cup {"fills"}
  /\ report.kind = "DAILY" => report.step \in {"fills", "audit", "done"}
  /\ report.kind = "PACKET" =>
       report = [x \in PacketFields |-> report[x]] /\ report.step \in AfterRows \cup {"rows"}
  /\ report.kind = "NONE" => report.step = "done"

\* A query changes no row.
LEMMA ReportsOnlyRead ==
  BeginReport \/ ContinueReport => UNCHANGED <<vars, signoffs>>
BY DEF BeginReport, ContinueReport, DailyReport, RiskDashboard, PilotDashboard, EvidencePacket,
       Begin, Read, LoadFills, LoadAuditLogs, LoadShutdown, CountAllTrades, CountToday,
       CountClassified, CountDayViolations, LoadPacketRows, LoadFillRows, LoadDayShutdown

\* A report that begins has the form of its kind, and is at its first query.
LEMMA BeginShape ==
  ASSUME BeginReport
  PROVE  /\ ReportShape' /\ report'.kind \in Dashboards \cup {"PACKET"} /\ touched' = FALSE
         /\ report'.step = IF report'.kind = "PACKET" THEN "rows" ELSE "fills"
<1>1. ASSUME NEW kind \in Dashboards, NEW date, NEW at, Begin(Begun(kind, date, at))
      PROVE  /\ ReportShape' /\ report'.kind \in Dashboards /\ touched' = FALSE
             /\ report'.step = "fills"
  <2>1. /\ report'.kind = kind /\ report'.step = "fills" /\ touched' = FALSE
        /\ report' = [x \in DashboardFields |-> report'[x]]
    BY <1>1 DEF Begin, Begun, DashboardFields, Counts
  <2> QED
    BY <2>1 DEF ReportShape, Dashboards
<1>2. ASSUME NEW p, NEW at, EvidencePacket(p, at)
      PROVE  /\ ReportShape' /\ report'.kind = "PACKET" /\ report'.step = "rows"
             /\ touched' = FALSE
  <2>1. /\ report'.kind = "PACKET" /\ report'.step = "rows" /\ touched' = FALSE
        /\ report' = [x \in PacketFields |-> report'[x]]
    BY <1>2 DEF EvidencePacket, Begin, PacketFields
  <2> QED
    BY <2>1 DEF ReportShape, Dashboards
<1> QED
  BY <1>1, <1>2 DEF BeginReport, DailyReport, RiskDashboard, PilotDashboard, Dashboards

\* Each query leaves a report of the same form behind.
LEMMA ContinueShape ==
  ASSUME ReportShape, ContinueReport
  PROVE  ReportShape' /\ report'.kind = report.kind /\ report'.at = report.at /\ touched' = touched
<1> USE DEF Read, DashboardFields, PacketFields, Counts, AfterFills, AfterAudit, AfterShutdown,
            AfterTrades, AfterToday, AfterClassified, AfterViolations, AfterRows
<1>1. CASE LoadFills
  BY <1>1 DEF LoadFills, ReportShape, Dashboards
<1>2. CASE LoadAuditLogs
  BY <1>2 DEF LoadAuditLogs, ReportShape, Dashboards
<1>3. CASE LoadShutdown
  BY <1>3 DEF LoadShutdown, ReportShape, Dashboards
<1>4. CASE CountAllTrades
  BY <1>4 DEF CountAllTrades, ReportShape, Dashboards
<1>5. CASE CountToday
  BY <1>5 DEF CountToday, ReportShape, Dashboards
<1>6. CASE CountClassified
  BY <1>6 DEF CountClassified, ReportShape, Dashboards
<1>7. CASE CountDayViolations
  BY <1>7 DEF CountDayViolations, ReportShape, Dashboards
<1>8. CASE LoadPacketRows
  BY <1>8 DEF LoadPacketRows, ReportShape, Dashboards
<1>9. CASE LoadFillRows
  BY <1>9 DEF LoadFillRows, ReportShape, Dashboards
<1>10. CASE LoadDayShutdown
  BY <1>10 DEF LoadDayShutdown, ReportShape, Dashboards
<1> QED
  BY <1>1, <1>2, <1>3, <1>4, <1>5, <1>6, <1>7, <1>8, <1>9, <1>10 DEF ContinueReport

-----------------------------------------------------------------------------
(* Rows dated after a report *)

\* A report for which no row was added reads what it read.
LEMMA SameRows ==
  ASSUME NEW r, Readable(r)' = Readable(r)
  PROVE  /\ SeenFills(r.at)' = SeenFills(r.at)
         /\ \A f \in SeenFills(r.at) : fills'[f] = fills[f]
         /\ ShutdownActive(r.at)' = ShutdownActive(r.at)
         /\ r.kind = "PACKET" => SignoffsOf(r.pilot, r.at)' = SignoffsOf(r.pilot, r.at)
<1>1. /\ [f \in SeenFills(r.at)' |-> fills'[f]] = [f \in SeenFills(r.at) |-> fills[f]]
      /\ {t \in shutdowns' : Seen(t, r.at)} = {t \in shutdowns : Seen(t, r.at)}
      /\ r.kind = "PACKET" => SignoffsOf(r.pilot, r.at)' = SignoffsOf(r.pilot, r.at)
  <2>1. /\ Readable(r)'.fills = Readable(r).fills
        /\ Readable(r)'.shutdowns = Readable(r).shutdowns
        /\ Readable(r)'.signoffs = Readable(r).signoffs
    OBVIOUS
  <2> QED
    BY <2>1 DEF Readable
<1> DEFINE S == SeenFills(r.at)
           T == SeenFills(r.at)'
<1>2. T = S /\ \A f \in S : fills'[f] = fills[f]
  <2>1. [f \in T |-> fills'[f]] = [f \in S |-> fills[f]]
    BY <1>1
  <2> HIDE DEF S, T
  <2>2. DOMAIN [f \in T |-> fills'[f]] = DOMAIN [f \in S |-> fills[f]]
    BY <2>1
  <2>3. T = S
    BY <2>2
  <2>4. ASSUME NEW f \in S PROVE fills'[f] = fills[f]
    <3>1. [g \in T |-> fills'[g]][f] = [g \in S |-> fills[g]][f]
      BY <2>1
    <3> QED
      BY <2>3, <2>4, <3>1
  <2> QED
    BY <2>3, <2>4
<1> QED
  BY <1>1, <1>2 DEF ShutdownActive

\* So every query gives the same answer again.
LEMMA SameAnswers ==
  ASSUME NEW r, Readable(r)' = Readable(r)
  PROVE  /\ CountTrades(r.at)' = CountTrades(r.at)
         /\ \A date :
              /\ FillsOn(date, r.at)' = FillsOn(date, r.at)
              /\ WithRow(FillsOn(date, r.at), "LIVE_FILL")' = WithRow(FillsOn(date, r.at), "LIVE_FILL")
              /\ ClassifiedOn(date, r.at)' = ClassifiedOn(date, r.at)
              /\ ViolationFills(ClassifiedOn(date, r.at))' = ViolationFills(ClassifiedOn(date, r.at))
              /\ CountViolations(date, r.at)' = CountViolations(date, r.at)
         /\ SessionFills(r.pilot, r.at)' = SessionFills(r.pilot, r.at)
         /\ \A S \in SUBSET SeenFills(r.at) :
              /\ {f \in S : fills'[f].entry.dryRun} = {f \in S : fills[f].entry.dryRun}
              /\ {f \in S : "SLIPPAGE" \in fills'[f].rows} = WithRow(S, "SLIPPAGE")
<1> DEFINE S == SeenFills(r.at)
<1>1. SeenFills(r.at)' = S /\ \A f \in S : fills'[f] = fills[f]
  BY SameRows
<1>2. \A date : FillsOn(date, r.at)' = FillsOn(date, r.at) /\ FillsOn(date, r.at) \subseteq S
  BY <1>1 DEF FillsOn
<1>3. \A date : WithRow(FillsOn(date, r.at), "LIVE_FILL")' = WithRow(FillsOn(date, r.at), "LIVE_FILL")
  BY <1>1, <1>2 DEF WithRow
<1>4. \A date : /\ ClassifiedOn(date, r.at)' = ClassifiedOn(date, r.at)
                /\ ClassifiedOn(date, r.at) \subseteq S
  BY <1>1, <1>2 DEF ClassifiedOn, WithRow
<1>5. \A date : ViolationFills(ClassifiedOn(date, r.at))' = ViolationFills(ClassifiedOn(date, r.at))
  BY <1>1, <1>4 DEF ViolationFills
<1>6. \A date : CountViolations(date, r.at)' = CountViolations(date, r.at)
  <2> TAKE date
  <2>1. FillsOn(date, r.at)' = FillsOn(date, r.at) /\ FillsOn(date, r.at) \subseteq S
    BY <1>2
  <2>2. [f \in FillsOn(date, r.at) |-> fills[f].violations]'
          = [f \in FillsOn(date, r.at) |-> fills[f].violations]
    BY <1>1, <2>1
  <2> QED
    BY <2>2 DEF CountViolations
<1>7. CountTrades(r.at)' = CountTrades(r.at)
  <2>1. LiveFills(r.at)' = LiveFills(r.at)
    BY <1>1 DEF LiveFills, WithRow
  <2> QED
    BY <2>1 DEF CountTrades
<1>8. SessionFills(r.pilot, r.at)' = SessionFills(r.pilot, r.at)
  BY <1>1 DEF SessionFills, WithRow
<1>9. \A R \in SUBSET S : /\ {f \in R : fills'[f].entry.dryRun} = {f \in R : fills[f].entry.dryRun}
                          /\ {f \in R : "SLIPPAGE" \in fills'[f].rows} = WithRow(R, "SLIPPAGE")
  BY <1>1 DEF WithRow
<1> QED
  BY <1>2, <1>3, <1>4, <1>5, <1>6, <1>7, <1>8, <1>9

\* What report r says so far is what its queries answer now.
DashboardAnswers(r) ==
  /\ r.step \in AfterFills => r.dailyFills = Cardinality(FillsOn(r.date, r.at))
  /\ r.step \in AfterAudit => r.dailyClassified = Cardinality(ClassifiedOn(r.date, r.at))
  /\ r.kind = "DASHBOARD" =>
       /\ r.step \in AfterShutdown => r.shutdown = ShutdownActive(r.at)
       /\ r.step \in AfterTrades => r.trades = CountTrades(r.at)
       /\ r.step \in AfterToday =>
            r.today = Cardinality(WithRow(FillsOn(r.date, r.at), "LIVE_FILL"))
       /\ r.step \in AfterClassified =>
            /\ r.classified = Cardinality(ClassifiedOn(r.date, r.at))
            /\ r.violationFills = Cardinality(ViolationFills(ClassifiedOn(r.date, r.at)))
       /\ r.step \in AfterViolations => r.violations = CountViolations(r.date, r.at)

PacketAnswers(r) ==
  LET ids == SessionFills(r.pilot, r.at) IN
  /\ r.tradeCount = Cardinality({f \in ids : ~fills[f].entry.dryRun})
  /\ r.step \in AfterRows =>
       /\ r.ids = ids /\ r.slippage = WithRow(ids, "SLIPPAGE")
       /\ r.signoffs = SignoffsOf(r.pilot, r.at)
       /\ r.counts = [d \in Dates |-> DayCounts(d, r.at)]
  /\ r.step \in AfterFillRows => r.fills = ids
  /\ r.shutdown = [d \in DOMAIN r.shutdown |-> ShutdownActive(r.at)]

Answers(r) ==
  /\ r.kind \in Dashboards => DashboardAnswers(r)
  /\ r.kind = "PACKET" => PacketAnswers(r)

\* Unless a row was added that it could read.
Faithful == ~touched => Answers(report)

LEMMA AnswersStay ==
  ASSUME NEW r, Readable(r)' = Readable(r), Answers(r)
  PROVE  Answers(r)'
<1>1. ASSUME r.kind \in Dashboards PROVE DashboardAnswers(r)'
  <2>1. DashboardAnswers(r)
    BY <1>1 DEF Answers
  <2> QED
    BY <2>1, SameRows, SameAnswers DEF DashboardAnswers
<1>2. ASSUME r.kind = "PACKET" PROVE PacketAnswers(r)'
  <2> DEFINE ids == SessionFills(r.pilot, r.at)
  <2>1. ids' = ids /\ ids \subseteq SeenFills(r.at)
    BY SameAnswers DEF SessionFills, WithRow
  <2>2. \A f \in ids : fills'[f] = fills[f]
    BY <2>1, SameRows
  <2>3. /\ {f \in ids : ~fills[f].entry.dryRun}' = {f \in ids : ~fills[f].entry.dryRun}
        /\ WithRow(ids, "SLIPPAGE")' = WithRow(ids, "SLIPPAGE")
    BY <2>1, <2>2 DEF WithRow
  <2>4. [d \in Dates |-> DayCounts(d, r.at)]' = [d \in Dates |-> DayCounts(d, r.at)]
    <3>1. \A d : DayCounts(d, r.at)' = DayCounts(d, r.at)
      BY SameAnswers DEF DayCounts
    <3> QED
      BY <3>1 DEF Dates, Day, Stamp
  <2>5. PacketAnswers(r)
    BY <1>2 DEF Answers
  <2>6. /\ SignoffsOf(r.pilot, r.at)' = SignoffsOf(r.pilot, r.at)
        /\ ShutdownActive(r.at)' = ShutdownActive(r.at)
    BY <1>2, SameRows
  <2> QED
    BY <2>1, <2>3, <2>4, <2>5, <2>6 DEF PacketAnswers
<1> QED
  BY <1>1, <1>2 DEF Answers

\* A report that begins has asked one query at most, in the moment it begins.
LEMMA BeginFaithful ==
  ASSUME BeginReport
  PROVE  Answers(report)'
<1>1. UNCHANGED <<vars, signoffs>>
  BY ReportsOnlyRead
<1>2. ASSUME NEW kind \in Dashboards, NEW date, NEW at, Begin(Begun(kind, date, at))
      PROVE  Answers(report)'
  <2>1. report'.kind # "PACKET" /\ report'.step = "fills"
    BY <1>2 DEF Begin, Begun, Dashboards
  <2> QED
    BY <2>1 DEF Answers, DashboardAnswers, AfterFills, AfterAudit, AfterShutdown, AfterTrades,
       AfterToday, AfterClassified, AfterViolations
<1>3. ASSUME NEW p, NEW at, EvidencePacket(p, at)
      PROVE  Answers(report)'
  <2>1. /\ report'.kind = "PACKET" /\ report'.step = "rows" /\ report'.pilot = p /\ report'.at = at
        /\ report'.shutdown = <<>>
        /\ report'.tradeCount = Cardinality({f \in SessionFills(p, at) : ~fills[f].entry.dryRun})
    BY <1>3 DEF EvidencePacket, Begin
  <2> QED
    BY <1>1, <2>1 DEF Answers, PacketAnswers, AfterRows, AfterFillRows, Dashboards, vars, SessionFills, SeenFills, WithRow
<1> QED
  BY <1>2, <1>3 DEF BeginReport, DailyReport, RiskDashboard, PilotDashboard, Dashboards

\* A further query does not change what the others answer.
LEMMA ContinueFaithful ==
  ASSUME ReportShape, ContinueReport, Answers(report)
  PROVE  Answers(report)'
<1>r. PICK r : r = report'
  OBVIOUS
<1>1. UNCHANGED <<vars, signoffs>>
  BY ReportsOnlyRead
<1>2. SUFFICES Answers(r)
  <2>1. Answers(report)' <=> Answers(r)
    BY <1>r, <1>1 DEF vars, Answers, DashboardAnswers, PacketAnswers, FillsOn, SeenFills, ClassifiedOn, WithRow,
       ShutdownActive, CountTrades, LiveFills, ViolationFills, CountViolations, SessionFills,
       SignoffsOf, DayCounts
  <2> QED
    BY <2>1
<1> USE DEF AfterFills, AfterAudit, AfterShutdown, AfterTrades, AfterToday, AfterClassified,
            AfterViolations, AfterRows, AfterFillRows, DashboardFields, PacketFields, Counts
<1>3. report.kind \in Dashboards => DashboardAnswers(report)
  BY DEF Answers
<1>4. report.kind = "PACKET" => PacketAnswers(report)
  BY DEF Answers
<1>5. CASE LoadFills
  BY <1>r, <1>3, <1>5 DEF LoadFills, Read, ReportShape, Answers, DashboardAnswers, Dashboards
<1>6. CASE LoadAuditLogs
  BY <1>r, <1>3, <1>6 DEF LoadAuditLogs, Read, ReportShape, Answers, DashboardAnswers, Dashboards
<1>7. CASE LoadShutdown
  BY <1>r, <1>3, <1>7 DEF LoadShutdown, Read, ReportShape, Answers, DashboardAnswers, Dashboards
<1>8. CASE CountAllTrades
  BY <1>r, <1>3, <1>8 DEF CountAllTrades, Read, ReportShape, Answers, DashboardAnswers, Dashboards
<1>9. CASE CountToday
  BY <1>r, <1>3, <1>9 DEF CountToday, Read, ReportShape, Answers, DashboardAnswers, Dashboards
<1>10. CASE CountClassified
  BY <1>r, <1>3, <1>10 DEF CountClassified, Read, ReportShape, Answers, DashboardAnswers, Dashboards
<1>11. CASE CountDayViolations
  BY <1>r, <1>3, <1>11 DEF CountDayViolations, Read, ReportShape, Answers, DashboardAnswers, Dashboards
<1>12. CASE LoadPacketRows
  BY <1>r, <1>4, <1>12 DEF LoadPacketRows, Read, ReportShape, Answers, PacketAnswers, Dashboards
<1>13. CASE LoadFillRows
  <2>1. SessionFills(report.pilot, report.at) \subseteq SeenFills(report.at)
    BY DEF SessionFills, WithRow
  <2>2. report.kind = "PACKET"
    BY <1>13 DEF LoadFillRows, Read, ReportShape, Dashboards
  <2>3. report.ids = SessionFills(report.pilot, report.at)
    BY <1>4, <1>13, <2>2 DEF LoadFillRows, Read, PacketAnswers
  <2> QED
    BY <1>r, <1>4, <1>13, <2>1, <2>2, <2>3 DEF LoadFillRows, Read, ReportShape, Answers, PacketAnswers, Dashboards
<1>14. CASE LoadDayShutdown
  <2>1. report.kind = "PACKET" /\ PacketAnswers(report)
    BY <1>4, <1>14 DEF LoadDayShutdown
  <2>2. PICK day, step :
          r = [report EXCEPT !.step = step,
                             !.shutdown = [d \in DOMAIN @ \cup {day} |->
                                IF d = day THEN ShutdownActive(report.at) ELSE @[d]]]
    BY <1>r, <1>14 DEF LoadDayShutdown, Read
  <2>3. /\ r.shutdown = [d \in DOMAIN report.shutdown \cup {day} |->
                            IF d = day THEN ShutdownActive(report.at) ELSE report.shutdown[d]]
        /\ \A x \in PacketFields \ {"step", "shutdown"} : r[x] = report[x]
    BY <2>1, <2>2 DEF ReportShape
  <2>4. r.shutdown = [d \in DOMAIN r.shutdown |-> ShutdownActive(report.at)]
    BY <2>1, <2>3 DEF PacketAnswers
  <2>5. report.step = "shutdown"
    BY <1>14 DEF LoadDayShutdown, Read
  <2>6. /\ r.kind = "PACKET" /\ r.pilot = report.pilot /\ r.at = report.at
        /\ r.tradeCount = report.tradeCount /\ r.ids = report.ids /\ r.slippage = report.slippage
        /\ r.signoffs = report.signoffs /\ r.counts = report.counts /\ r.fills = report.fills
    BY <2>1, <2>3
  <2>7. PacketAnswers(r)
    BY <2>1, <2>4, <2>5, <2>6 DEF PacketAnswers
  <2> QED
    BY <2>6, <2>7 DEF Answers, Dashboards
<1> QED
  BY <1>5, <1>6, <1>7, <1>8, <1>9, <1>10, <1>11, <1>12, <1>13, <1>14 DEF ContinueReport

\* A step of a command leaves the report as it is, or puts it away.
LEMMA WriteReports ==
  ASSUME Write, touched \in BOOLEAN, NEW r, r = report
  PROVE  \/ /\ report' = r
            /\ \/ touched' = TRUE
               \/ touched' = touched /\ Readable(r)' = Readable(r)
         \/ report' = NoReport /\ touched' = FALSE
<1>1. LET added == Readable(r)' # Readable(r) IN
      IF added /\ r.step = "done"
      THEN report' = NoReport /\ touched' = FALSE
      ELSE report' = r /\ touched' = (touched \/ added)
  <2>1. \E s \in {report} :
          LET added == Readable(s)' # Readable(s) IN
          IF added /\ s.step = "done"
          THEN report' = NoReport /\ touched' = FALSE
          ELSE report' = s /\ touched' = (touched \/ added)
    BY Zenon DEF Write
  <2> QED
    BY <2>1, Zenon
<1>2. CASE Readable(r)' = Readable(r)
  BY <1>1, <1>2
<1>3. CASE Readable(r)' # Readable(r)
  BY <1>1, <1>3
<1> QED
  BY <1>2, <1>3

\* What is inductive.
LateInv == touched \in BOOLEAN /\ ReportShape /\ Faithful

\* There is no report at first.
LEMMA NothingDrawn == ReportsInit => LateInv
<1> SUFFICES ASSUME ReportsInit PROVE LateInv
  OBVIOUS
<1>1. report.kind = "NONE" /\ report.step = "done" /\ touched = FALSE
  BY DEF ReportsInit, NoReport
<1> QED
  BY <1>1 DEF LateInv, ReportShape, Faithful, Answers, Dashboards

\* No step of a report or a command makes an answer stale unnoticed.
LEMMA ReportsKeep == LateInv /\ [ReportsNext]_reportVars => LateInv'
<1> SUFFICES ASSUME LateInv, [ReportsNext]_reportVars PROVE LateInv'
  OBVIOUS
<1>1. CASE UNCHANGED reportVars
  <2>r. PICK r : r = report
    OBVIOUS
  <2>1. Readable(r)' = Readable(r) /\ report' = r /\ touched' = touched
    BY <1>1, <2>r DEF reportVars, vars, Readable, AsOf, SeenFills, SignoffsOf
  <2>2. Answers(r) => Answers(r)'
    BY <2>1, AnswersStay
  <2> QED
    BY <2>r, <2>1, <2>2 DEF LateInv, ReportShape, Faithful
<1>2. CASE BeginReport
  BY <1>2, BeginShape, BeginFaithful DEF LateInv, Faithful
<1>3. CASE ContinueReport
  BY <1>3, ContinueShape, ContinueFaithful DEF LateInv, Faithful
<1>4. CASE Write
  <2>r. PICK r : r = report
    OBVIOUS
  <2>1. CASE report' = r /\ touched' = TRUE
    BY <2>r, <2>1 DEF LateInv, ReportShape, Faithful
  <2>2. CASE report' = r /\ touched' = touched /\ Readable(r)' = Readable(r)
    <3>1. Answers(r) => Answers(r)'
      BY <2>2, AnswersStay
    <3> QED
      BY <2>r, <2>2, <3>1 DEF LateInv, ReportShape, Faithful
  <2>3. CASE report' = NoReport /\ touched' = FALSE
    BY <2>3 DEF LateInv, ReportShape, Faithful, Answers, NoReport, Dashboards
  <2> QED
    BY <1>4, <2>r, <2>1, <2>2, <2>3, WriteReports DEF LateInv
<1> QED
  BY <1>1, <1>2, <1>3, <1>4 DEF ReportsNext

\* A report whose queries all answer what it says is the same when it is drawn again.
LEMMA FaithfulAgain ==
  ASSUME ReportShape, Answers(report), report.kind # "NONE", report.step = "done"
  PROVE  report = AskedAgain
<1> USE DEF AfterFills, AfterAudit, AfterShutdown, AfterTrades, AfterToday, AfterClassified,
            AfterViolations, AfterRows, AfterFillRows
<1>1. CASE report.kind = "DAILY"
  BY <1>1 DEF ReportShape, Answers, DashboardAnswers, Dashboards, AskedAgain, DashboardFields, Counts
<1>2. CASE report.kind = "DASHBOARD"
  BY <1>2 DEF ReportShape, Answers, DashboardAnswers, Dashboards, AskedAgain, DashboardFields, Counts
<1>3. CASE report.kind = "PACKET"
  BY <1>3, ZenonT(40) DEF ReportShape, Answers, PacketAnswers, Dashboards, AskedAgain, PacketFields
<1> QED
  BY <1>1, <1>2, <1>3 DEF ReportShape, Dashboards

\* Rows dated after a report never change it when it is asked for again, whichever of its
\* queries they fell between.
THEOREM LateRowsAloneRewrite == ReportsSpec => []OnlyLateRowsRewriteReports
<1>1. ReportsInit => LateInv
  BY NothingDrawn
<1>2. LateInv => OnlyLateRowsRewriteReports
  BY FaithfulAgain DEF LateInv, Faithful, OnlyLateRowsRewriteReports
<1> QED
  BY <1>1, <1>2, ReportsKeep, PTL DEF ReportsSpec

-----------------------------------------------------------------------------
(* What the differences of two counts can hide *)

\* A step of a command adds to the rows about a fill, and nothing more.
Grown ==
  /\ DOMAIN fills \subseteq DOMAIN fills' /\ shutdowns \subseteq shutdowns'
  /\ \A f \in DOMAIN fills : /\ fills'[f].at = fills[f].at /\ fills'[f].entry = fills[f].entry
                             /\ fills'[f].pilot = fills[f].pilot
                             /\ fills[f].rows \subseteq fills'[f].rows
                             /\ fills[f].violations <= fills'[f].violations

\* A fill that is classified has the rows before, all its violations, and the shutdown they
\* ask for; one that is booked on a session is classified.
RowsInOrder ==
  \A f \in DOMAIN fills :
    /\ "CLASSIFIED" \in fills[f].rows =>
         /\ "LIVE_FILL" \in fills[f].rows /\ "SLIPPAGE" \in fills[f].rows
         /\ fills[f].violations = Len(Violations(fills[f].entry))
         /\ Violations(fills[f].entry) # <<>> => fills[f].at \in shutdowns
    /\ "SESSION_FILL" \in fills[f].rows => "CLASSIFIED" \in fills[f].rows

\* A row of the fills table counts its violations.
LEMMA FillRow ==
  ASSUME TypeOK, NEW f \in DOMAIN fills
  PROVE  /\ fills[f] \in FillRecord /\ fills[f].at \in Stamp
         /\ fills[f].violations \in Nat /\ fills[f].violations <= fills[f].violations
<1>1. fills[f] \in FillRecord
  BY DEF TypeOK
<1>2. fills[f].violations \in Nat /\ fills[f].at \in Stamp
  BY <1>1 DEF FillRecord
<1> QED
  BY <1>1, <1>2

\* One row about fill g is changed.
LEMMA OneFillGrows ==
  ASSUME TypeOK, RowsInOrder, NEW g \in DOMAIN fills, NEW new, fills' = [fills EXCEPT ![g] = new],
         shutdowns \subseteq shutdowns', new.pilot = fills[g].pilot, new.at = fills[g].at,
         new.entry = fills[g].entry,
         fills[g].rows \subseteq new.rows, fills[g].violations <= new.violations,
         "CLASSIFIED" \in new.rows =>
           /\ "LIVE_FILL" \in new.rows /\ "SLIPPAGE" \in new.rows
           /\ new.violations = Len(Violations(new.entry))
           /\ Violations(new.entry) # <<>> => new.at \in shutdowns',
         "SESSION_FILL" \in new.rows => "CLASSIFIED" \in new.rows
  PROVE  Grown /\ RowsInOrder'
<1>1. DOMAIN fills' = DOMAIN fills /\ \A f \in DOMAIN fills : fills'[f] = IF f = g THEN new ELSE fills[f]
  BY DEF TypeOK
<1>2. \A f \in DOMAIN fills : fills[f].violations <= fills[f].violations
  BY FillRow
<1> QED
  BY <1>1, <1>2 DEF Grown, RowsInOrder

\* A process that records a fill writes its classification last but one.
LEMMA RecordGrows ==
  ASSUME TypeOK, FillInv, RowsInOrder, NEW q \in Procs,
         \/ RecordLiveFill(q) \/ RecordSlippage(q) \/ RecordViolation(q) \/ RecordShutdown(q)
         \/ Classify(q) \/ RecordSessionFill(q)
  PROVE  Grown /\ RowsInOrder'
<1> DEFINE g == task[q].fill
           f == fills[g]
<1>0. pc[q] \in FillSteps \ {"insert"}
  BY DEF RecordLiveFill, RecordSlippage, RecordViolation, RecordShutdown, Classify, RecordSessionFill,
         FillSteps
<1>1. g \in DOMAIN fills /\ f \in FillRecord /\ Written(f, pc[q], task[q], shutdowns)
  BY <1>0, HeldFill DEF Progress
<1>2. /\ f.violations \in Nat /\ f.activations \in Nat
      /\ "CLASSIFIED" \in f.rows =>
           /\ "LIVE_FILL" \in f.rows /\ "SLIPPAGE" \in f.rows
           /\ f.violations = Len(Violations(f.entry))
           /\ Violations(f.entry) # <<>> => f.at \in shutdowns
      /\ "SESSION_FILL" \in f.rows => "CLASSIFIED" \in f.rows
  BY <1>1 DEF FillRecord, RowsInOrder
<1>3. CASE RecordLiveFill(q) \/ RecordSlippage(q) \/ RecordSessionFill(q)
  <2>1. PICK kind \in {"LIVE_FILL", "SLIPPAGE", "SESSION_FILL"} :
          /\ fills' = [fills EXCEPT ![g].rows = @ \cup {kind}]
          /\ kind = "SESSION_FILL" => "CLASSIFIED" \in f.rows
    <3>1. pc[q] = "sessionFill" => "CLASSIFIED" \in f.rows
      BY <1>1 DEF Written
    <3> QED
      BY <1>3, <3>1 DEF RecordLiveFill, RecordSlippage, RecordSessionFill, WriteFillRow
  <2> DEFINE new == [f EXCEPT !.rows = @ \cup {kind}]
  <2>2. fills' = [fills EXCEPT ![g] = new] /\ shutdowns' = shutdowns
    BY <1>3, <2>1 DEF RecordLiveFill, RecordSlippage, RecordSessionFill, WriteFillRow
  <2>3. /\ new.pilot = f.pilot /\ new.at = f.at /\ new.entry = f.entry /\ new.rows = f.rows \cup {kind}
        /\ new.violations = f.violations /\ f.violations <= f.violations
    BY <1>1 DEF FillRecord
  <2> HIDE DEF new, f, g
  <2> QED
    BY <1>1, <1>2, <2>1, <2>2, <2>3, OneFillGrows DEF f
<1>4. CASE RecordViolation(q)
  <2> DEFINE new == [f EXCEPT !.violations = @ + 1]
  <2>1. fills' = [fills EXCEPT ![g] = new] /\ shutdowns' = shutdowns
    BY <1>4 DEF RecordViolation
  <2>2. /\ new.pilot = f.pilot /\ new.at = f.at /\ new.entry = f.entry /\ new.rows = f.rows
        /\ f.violations <= new.violations /\ "CLASSIFIED" \notin f.rows
        /\ "SESSION_FILL" \notin f.rows
    BY <1>1, <1>2, <1>4 DEF FillRecord, Written, RecordViolation
  <2> HIDE DEF new, f, g
  <2> QED
    BY <1>1, <1>2, <2>1, <2>2, OneFillGrows DEF f
<1>6. CASE RecordShutdown(q)
  <2> DEFINE new == [f EXCEPT !.activations = @ + 1]
  <2>1. fills' = [fills EXCEPT ![g] = new] /\ shutdowns \subseteq shutdowns'
    BY <1>6 DEF RecordShutdown
  <2>2. /\ new.pilot = f.pilot /\ new.at = f.at /\ new.entry = f.entry /\ new.rows = f.rows
        /\ new.violations = f.violations /\ f.violations <= f.violations
    BY <1>1, <1>2 DEF FillRecord
  <2> HIDE DEF new, f, g
  <2> QED
    BY <1>1, <1>2, <2>1, <2>2, OneFillGrows DEF f
<1>5. CASE Classify(q)
  <2> DEFINE new == [f EXCEPT !.rows = @ \cup {"CLASSIFIED"}]
  <2>1. fills' = [fills EXCEPT ![g] = new] /\ shutdowns' = shutdowns /\ pc[q] = "classify"
    BY <1>5 DEF Classify, WriteFillRow
  <2>2. /\ new.pilot = f.pilot /\ new.at = f.at /\ new.entry = f.entry /\ new.rows = f.rows \cup {"CLASSIFIED"}
        /\ new.violations = f.violations /\ f.violations <= f.violations
    BY <1>1, <1>2 DEF FillRecord
  <2>3. /\ "LIVE_FILL" \in f.rows /\ "SLIPPAGE" \in f.rows
        /\ f.violations = Len(Violations(f.entry))
        /\ Violations(f.entry) # <<>> => f.at \in shutdowns
    BY <1>1, <1>2, <2>1, ViolationsType DEF Written
  <2> HIDE DEF new, f, g
  <2> QED
    BY <1>1, <2>1, <2>2, <2>3, OneFillGrows DEF f
<1> QED
  BY <1>3, <1>4, <1>5, <1>6

\* So does every other step.
LEMMA CommandsGrow ==
  ASSUME TypeOK, FillInv, RowsInOrder, [Next]_vars
  PROVE  Grown /\ RowsInOrder'
<1>0. \A f \in DOMAIN fills : fills[f].violations <= fills[f].violations
  BY FillRow
<1>1. CASE fills' = fills /\ shutdowns' = shutdowns
  BY <1>0, <1>1 DEF Grown, RowsInOrder
<1>2. ASSUME NEW q \in Procs, InsertFill(q)
      PROVE  Grown /\ RowsInOrder'
  <2>1. PICK new : fills' = Append(fills, new) /\ new.rows = {}
    BY <1>2 DEF InsertFill
  <2>2. /\ DOMAIN fills = 1 .. Len(fills) /\ DOMAIN fills' = 1 .. Len(fills) + 1 /\ Len(fills) \in Nat
        /\ \A f \in DOMAIN fills : fills'[f] = fills[f]
        /\ fills'[Len(fills) + 1] = new
    <3>1. fills \in Seq(FillRecord \cup {new})
      BY SeqMonotonic DEF TypeOK
    <3> QED
      BY <2>1, <3>1, AppendProperties, LenProperties
  <2>3. shutdowns' = shutdowns
    BY <1>2 DEF InsertFill
  <2> QED
    BY <1>0, <2>1, <2>2, <2>3 DEF Grown, RowsInOrder
<1>3. ASSUME NEW q \in Procs, Command(q) PROVE fills' = fills /\ shutdowns' = shutdowns
  BY <1>3 DEF Command, Start, Stop, Resume, ResetReview, FillGate, Decide
<1>4. ASSUME NEW q \in Procs, Continue(q) PROVE Grown /\ RowsInOrder'
  <2>1. CASE CommitRow(q) \/ RejectFill(q) \/ StopAfterFill(q)
    BY <1>1, <2>1 DEF CommitRow, RejectFill, StopAfterFill
  <2> QED
    BY <1>2, <1>4, <2>1, RecordGrows DEF Continue
<1>5. ASSUME NEW q \in Procs, Crash(q) PROVE fills' = fills /\ shutdowns' = shutdowns
  BY <1>5 DEF Crash
<1>6. CASE UNCHANGED vars \/ Tick
  BY <1>1, <1>6 DEF vars, Tick
<1> QED
  BY <1>1, <1>3, <1>4, <1>5, <1>6 DEF Next

\* The fills classified that violate no rule.
CalmOn(date, at) == ClassifiedOn(date, at) \ ViolationFills(ClassifiedOn(date, at))

\* How the counts of report r are to those of now: all the fills of its day, those with
\* a LIVE_FILL row, those classified, and those classified without a violation.
CountsWithin(r, all, live, closed, calm) ==
  /\ r.open \in Nat /\ r.openLive \in Nat /\ r.closed \in Nat
  /\ r.open + r.closed <= all /\ r.openLive + r.closed <= live /\ r.closed <= closed
  /\ r.step \in AfterFills => r.dailyFills \in Nat /\ r.open + r.closed <= r.dailyFills
  /\ r.step \in AfterAudit => r.dailyClassified \in Nat /\ r.dailyClassified <= closed
  /\ r.kind = "DASHBOARD" =>
       /\ r.step \in AfterToday => r.today \in Nat /\ r.openLive + r.closed <= r.today
       /\ r.step \in AfterClassified => r.classified \in Nat /\ r.classified <= closed
       /\ r.step \in AfterShutdown /\ ~r.shutdown => r.closed <= calm
       /\ r.step \in AfterClassified /\ ~r.shutdown =>
            r.violationFills \in Nat /\ r.violationFills + r.closed <= closed

CountsHold(r) ==
  CountsWithin(r, Cardinality(FillsOn(r.date, r.at)),
                  Cardinality(WithRow(FillsOn(r.date, r.at), "LIVE_FILL")),
                  Cardinality(ClassifiedOn(r.date, r.at)), Cardinality(CalmOn(r.date, r.at)))

\* What is inductive.
CountInv ==
  /\ TypeOK /\ FillInv /\ RowsInOrder
  /\ touched \in BOOLEAN /\ ReportShape
  /\ report.kind \in Dashboards => CountsHold(report)

\* Any set of fills can be counted, and a part of it counts no more.
LEMMA FillsCounted ==
  ASSUME TypeOK, NEW S \in SUBSET DOMAIN fills, NEW T \in SUBSET S
  PROVE  /\ IsFiniteSet(S) /\ Cardinality(S) \in Nat /\ Cardinality(T) \in Nat
         /\ Cardinality(T) <= Cardinality(S)
         /\ Cardinality(S \ T) \in Nat /\ Cardinality(S \ T) + Cardinality(T) = Cardinality(S)
<1>1. IsFiniteSet(DOMAIN fills)
  BY FillIds, FS_Interval
<1>2. IsFiniteSet(S)
  BY <1>1, FS_Subset
<1>3. IsFiniteSet(T) /\ Cardinality(T) <= Cardinality(S)
  BY <1>2, FS_Subset
<1>4. IsFiniteSet(S \ T) /\ Cardinality(S \ T) = Cardinality(S) - Cardinality(S \cap T)
  BY <1>2, FS_Difference
<1>5. S \cap T = T
  OBVIOUS
<1>6. Cardinality(S) \in Nat /\ Cardinality(T) \in Nat /\ Cardinality(S \ T) \in Nat
  BY <1>2, <1>3, <1>4, FS_CardinalityType
<1>7. \A s, t, d \in Nat : d = s - t => d + t = s
  OBVIOUS
<1>8. Cardinality(S \ T) = Cardinality(S) - Cardinality(T)
  BY <1>4, <1>5
<1>9. Cardinality(S \ T) + Cardinality(T) = Cardinality(S)
  BY <1>6, <1>7, <1>8
<1> QED
  BY <1>2, <1>3, <1>6, <1>9

\* Of the fills of a day, those classified have a LIVE_FILL row, and those that violate
\* a rule had the shutdown recorded first.
LEMMA DayOrder ==
  ASSUME RowsInOrder, NEW date, NEW at
  PROVE  /\ FillsOn(date, at) \subseteq DOMAIN fills
         /\ WithRow(FillsOn(date, at), "LIVE_FILL") \subseteq FillsOn(date, at)
         /\ ClassifiedOn(date, at) \subseteq WithRow(FillsOn(date, at), "LIVE_FILL")
         /\ ViolationFills(ClassifiedOn(date, at)) \subseteq ClassifiedOn(date, at)
         /\ ~ShutdownActive(at) => CalmOn(date, at) = ClassifiedOn(date, at)
BY DEF RowsInOrder, FillsOn, SeenFills, WithRow, ClassifiedOn, ViolationFills, CalmOn, ShutdownActive

\* How the four counts of a day are to each other.
LEMMA DayCounted ==
  ASSUME TypeOK, RowsInOrder, NEW date, NEW at
  PROVE  LET all == Cardinality(FillsOn(date, at))
             live == Cardinality(WithRow(FillsOn(date, at), "LIVE_FILL"))
             closed == Cardinality(ClassifiedOn(date, at))
             calm == Cardinality(CalmOn(date, at))
             violent == Cardinality(ViolationFills(ClassifiedOn(date, at)))
             open == Cardinality(FillsOn(date, at) \ ClassifiedOn(date, at))
             openLive == Cardinality(WithRow(FillsOn(date, at), "LIVE_FILL") \ ClassifiedOn(date, at))
         IN /\ all \in Nat /\ live \in Nat /\ closed \in Nat /\ calm \in Nat /\ violent \in Nat
            /\ open \in Nat /\ openLive \in Nat
            /\ open + closed = all /\ openLive + closed = live /\ violent + calm = closed
            /\ ~ShutdownActive(at) => calm = closed
<1> DEFINE F == FillsOn(date, at)
           L == WithRow(F, "LIVE_FILL")
           C == ClassifiedOn(date, at)
           V == ViolationFills(C)
<1>1. F \subseteq DOMAIN fills /\ L \subseteq F /\ C \subseteq L /\ V \subseteq C
  BY DayOrder
<1>2. CalmOn(date, at) = C \ V /\ (~ShutdownActive(at) => CalmOn(date, at) = C)
  BY DayOrder DEF CalmOn
<1> HIDE DEF F, L, C, V
<1>3. /\ Cardinality(F) \in Nat /\ Cardinality(C) \in Nat /\ Cardinality(F \ C) \in Nat
      /\ Cardinality(F \ C) + Cardinality(C) = Cardinality(F)
  BY <1>1, FillsCounted
<1>4. /\ Cardinality(L) \in Nat /\ Cardinality(L \ C) \in Nat
      /\ Cardinality(L \ C) + Cardinality(C) = Cardinality(L)
  BY <1>1, FillsCounted
<1>5. /\ Cardinality(V) \in Nat /\ Cardinality(C \ V) \in Nat
      /\ Cardinality(C \ V) + Cardinality(V) = Cardinality(C)
  BY <1>1, FillsCounted
<1> QED
  BY <1>2, <1>3, <1>4, <1>5, SMTT(30) DEF F, L, C, V

\* The counts of a day only grow.
LEMMA DayGrows ==
  ASSUME TypeOK, TypeOK', RowsInOrder, RowsInOrder', Grown, NEW date, NEW at
  PROVE  /\ Cardinality(FillsOn(date, at)) <= Cardinality(FillsOn(date, at)')
         /\ Cardinality(WithRow(FillsOn(date, at), "LIVE_FILL"))
              <= Cardinality(WithRow(FillsOn(date, at), "LIVE_FILL")')
         /\ Cardinality(ClassifiedOn(date, at)) <= Cardinality(ClassifiedOn(date, at)')
         /\ Cardinality(CalmOn(date, at)) <= Cardinality(CalmOn(date, at)')
         /\ {Cardinality(FillsOn(date, at)'), Cardinality(WithRow(FillsOn(date, at), "LIVE_FILL")'),
             Cardinality(ClassifiedOn(date, at)'), Cardinality(CalmOn(date, at)')} \subseteq Nat
<1>1. /\ FillsOn(date, at) \subseteq FillsOn(date, at)'
      /\ WithRow(FillsOn(date, at), "LIVE_FILL") \subseteq WithRow(FillsOn(date, at), "LIVE_FILL")'
      /\ ClassifiedOn(date, at) \subseteq ClassifiedOn(date, at)'
      /\ CalmOn(date, at) \subseteq CalmOn(date, at)'
  BY DEF Grown, FillsOn, SeenFills, WithRow, ClassifiedOn, CalmOn, ViolationFills
<1>2. /\ FillsOn(date, at)' \subseteq DOMAIN fills'
      /\ WithRow(FillsOn(date, at), "LIVE_FILL")' \subseteq DOMAIN fills'
      /\ ClassifiedOn(date, at)' \subseteq DOMAIN fills' /\ CalmOn(date, at)' \subseteq DOMAIN fills'
  BY DEF FillsOn, SeenFills, WithRow, ClassifiedOn, CalmOn
<1>3. IsFiniteSet(DOMAIN fills')
  <2>1. DOMAIN fills' = 1 .. Len(fills') /\ Len(fills') \in Nat
    BY DEF TypeOK
  <2> QED
    BY <2>1, FS_Interval
<1>4. \A S \in SUBSET DOMAIN fills' : \A T \in SUBSET S :
        Cardinality(T) <= Cardinality(S) /\ Cardinality(S) \in Nat
  BY <1>3, FS_Subset, FS_CardinalityType
<1> QED
  BY <1>1, <1>2, <1>4

\* At first nothing is read, and the counts noted are those of now.
LEMMA BeginCounts ==
  ASSUME TypeOK, RowsInOrder, BeginReport, report'.kind \in Dashboards
  PROVE  CountsHold(report)'
<1>1. PICK date, at, kind : Begin(Begun(kind, date, at))
  <2>1. ASSUME NEW p, NEW at, EvidencePacket(p, at) PROVE FALSE
    <3>1. report'.kind = "PACKET"
      BY <2>1 DEF EvidencePacket, Begin
    <3> QED
      BY <3>1 DEF Dashboards
  <2> QED
    BY <2>1 DEF BeginReport, DailyReport, RiskDashboard, PilotDashboard
<1>2. PICK r : r = report'
  OBVIOUS
<1>3. /\ r.date = date /\ r.at = at /\ r.step = "fills"
      /\ r.open = Cardinality(FillsOn(date, at) \ ClassifiedOn(date, at))
      /\ r.openLive = Cardinality(WithRow(FillsOn(date, at), "LIVE_FILL") \ ClassifiedOn(date, at))
      /\ r.closed = Cardinality(ClassifiedOn(date, at))
  BY <1>1, <1>2 DEF Begin, Begun
<1>4. CountsHold(r)
  <2> DEFINE all == Cardinality(FillsOn(date, at))
             live == Cardinality(WithRow(FillsOn(date, at), "LIVE_FILL"))
             closed == Cardinality(ClassifiedOn(date, at))
             calm == Cardinality(CalmOn(date, at))
             open == Cardinality(FillsOn(date, at) \ ClassifiedOn(date, at))
             openLive == Cardinality(WithRow(FillsOn(date, at), "LIVE_FILL") \ ClassifiedOn(date, at))
  <2>1. /\ all \in Nat /\ live \in Nat /\ closed \in Nat /\ open \in Nat /\ openLive \in Nat
        /\ open + closed = all /\ openLive + closed = live
    BY DayCounted
  <2>3. r.open = open /\ r.openLive = openLive /\ r.closed = closed
    BY <1>3
  <2> HIDE DEF all, live, closed, calm, open, openLive
  <2>2. CountsWithin(r, all, live, closed, calm)
    BY <1>3, <2>1, <2>3 DEF CountsWithin, AfterFills, AfterAudit, AfterShutdown, AfterTrades, AfterToday,
       AfterClassified, AfterViolations
  <2> QED
    BY <1>3, <2>2 DEF CountsHold, all, live, closed, calm
<1>5. CountsHold(r)'
  BY <1>1, <1>4 DEF CountsHold, FillsOn, SeenFills, WithRow, ClassifiedOn, CalmOn, ViolationFills,
     Begin, vars
<1> QED
  BY <1>2, <1>5

\* Each query reads the counts of its moment.
LEMMA ContinueCounts ==
  ASSUME TypeOK, RowsInOrder, ReportShape, report.kind \in Dashboards, CountsHold(report),
         ContinueReport
  PROVE  CountsHold(report)'
<1>1. PICK r, s : r = report /\ s = report'
  OBVIOUS
<1> DEFINE all == Cardinality(FillsOn(r.date, r.at))
           live == Cardinality(WithRow(FillsOn(r.date, r.at), "LIVE_FILL"))
           closed == Cardinality(ClassifiedOn(r.date, r.at))
           calm == Cardinality(CalmOn(r.date, r.at))
           violent == Cardinality(ViolationFills(ClassifiedOn(r.date, r.at)))
<1>2. /\ {all, live, closed, calm, violent} \subseteq Nat /\ violent + calm = closed
      /\ ~ShutdownActive(r.at) => calm = closed
  BY DayCounted, ZenonT(40)
<1>3. CountsWithin(r, all, live, closed, calm)
  BY <1>1 DEF CountsHold
<1>4. r = [x \in DashboardFields |-> r[x]] /\ r.kind \in Dashboards
  BY <1>1 DEF ReportShape
<1> USE DEF Read, DashboardFields, Counts, AfterFills, AfterAudit, AfterShutdown, AfterTrades,
            AfterToday, AfterClassified, AfterViolations, CountsWithin
<1>5. s.date = r.date /\ s.at = r.at /\ CountsWithin(s, all, live, closed, calm)
  <2>1. CASE LoadFills
    <3>1. s = [r EXCEPT !.step = "audit", !.dailyFills = all]
      BY <1>1, <2>1 DEF LoadFills
    <3> HIDE DEF all, live, closed, calm, violent
    <3> QED
      BY <1>2, <1>3, <1>4, <3>1
  <2>2. CASE LoadAuditLogs
    <3>1. /\ s = [r EXCEPT !.step = IF r.kind = "DAILY" THEN "done" ELSE "shutdown",
                           !.dailyClassified = closed]
          /\ r.step = "audit"
      BY <1>1, <2>2 DEF LoadAuditLogs
    <3> HIDE DEF all, live, closed, calm, violent
    <3> QED
      BY <1>2, <1>3, <1>4, <3>1 DEF Dashboards
  <2>3. CASE LoadShutdown
    <3>1. /\ s = [r EXCEPT !.step = "trades", !.shutdown = ShutdownActive(r.at)]
          /\ r.step = "shutdown"
      BY <1>1, <2>3 DEF LoadShutdown
    <3> HIDE DEF all, live, closed, calm, violent
    <3> QED
      BY <1>2, <1>3, <1>4, <3>1
  <2>4. CASE CountAllTrades
    <3>1. PICK n : s = [r EXCEPT !.step = "today", !.trades = n] /\ r.step = "trades"
      BY <1>1, <2>4 DEF CountAllTrades
    <3> HIDE DEF all, live, closed, calm, violent
    <3> QED
      BY <1>2, <1>3, <1>4, <3>1
  <2>5. CASE CountToday
    <3>1. s = [r EXCEPT !.step = "classified", !.today = live] /\ r.step = "today"
      BY <1>1, <2>5 DEF CountToday
    <3> HIDE DEF all, live, closed, calm, violent
    <3> QED
      BY <1>2, <1>3, <1>4, <3>1
  <2>6. CASE CountClassified
    <3>1. /\ s = [r EXCEPT !.step = "violations", !.classified = closed, !.violationFills = violent]
          /\ r.step = "classified"
      BY <1>1, <2>6 DEF CountClassified
    <3> HIDE DEF all, live, closed, calm, violent
    <3> QED
      BY <1>2, <1>3, <1>4, <3>1
  <2>7. CASE CountDayViolations
    <3>1. PICK n : s = [r EXCEPT !.step = "done", !.violations = n] /\ r.step = "violations"
      BY <1>1, <2>7 DEF CountDayViolations
    <3> HIDE DEF all, live, closed, calm, violent
    <3> QED
      BY <1>2, <1>3, <1>4, <3>1
  <2>8. ~(LoadPacketRows \/ LoadFillRows \/ LoadDayShutdown)
    BY DEF LoadPacketRows, LoadFillRows, LoadDayShutdown, ReportShape, Dashboards
  <2> QED
    BY <2>1, <2>2, <2>3, <2>4, <2>5, <2>6, <2>7, <2>8 DEF ContinueReport
<1>6. CountsHold(s)
  BY <1>5 DEF CountsHold
<1>7. UNCHANGED fills
  BY ReportsOnlyRead DEF vars
<1>8. CountsHold(s)'
  BY <1>6, <1>7 DEF CountsHold, FillsOn, SeenFills, WithRow, ClassifiedOn, CalmOn, ViolationFills
<1> QED
  BY <1>1, <1>8

\* Fills that are recorded meanwhile make the counts of now larger only.
LEMMA GrowCounts ==
  ASSUME TypeOK, TypeOK', RowsInOrder, RowsInOrder', Grown, NEW r, CountsHold(r)
  PROVE  CountsHold(r)'
<1> DEFINE all == Cardinality(FillsOn(r.date, r.at))
           live == Cardinality(WithRow(FillsOn(r.date, r.at), "LIVE_FILL"))
           closed == Cardinality(ClassifiedOn(r.date, r.at))
           calm == Cardinality(CalmOn(r.date, r.at))
<1>1. all \in Nat /\ live \in Nat /\ closed \in Nat /\ calm \in Nat
  BY DayCounted
<1>2. {all', live', closed', calm'} \subseteq Nat
  BY DayGrows
<1>3. all <= all' /\ live <= live' /\ closed <= closed' /\ calm <= calm'
  BY DayGrows
<1>4. CountsWithin(r, all, live, closed, calm)
  BY DEF CountsHold
<1> HIDE DEF all, live, closed, calm
<1>5. CountsWithin(r, all', live', closed', calm')
  BY <1>1, <1>2, <1>3, <1>4 DEF CountsWithin
<1> QED
  BY <1>5 DEF all, live, closed, calm, CountsHold

\* There is neither a fill nor a report at first.
LEMMA NothingHidden == ReportsInit => CountInv
<1> SUFFICES ASSUME ReportsInit PROVE CountInv
  OBVIOUS
<1>1. TypeOK /\ FillInv
  BY InitType, InitFills DEF ReportsInit
<1>2. RowsInOrder
  BY DEF ReportsInit, Init, RowsInOrder
<1>3. report.kind = "NONE" /\ report.step = "done" /\ touched = FALSE
  BY DEF ReportsInit, NoReport
<1> QED
  BY <1>1, <1>2, <1>3 DEF CountInv, ReportShape, Dashboards

\* No step of a report or a command lets a count hide more than was classified.
LEMMA CountsKeep == CountInv /\ [ReportsNext]_reportVars => CountInv'
<1> SUFFICES ASSUME CountInv, [ReportsNext]_reportVars PROVE CountInv'
  OBVIOUS
<1>1. [Next]_vars
  BY ReportsOnlyRead DEF ReportsNext, reportVars, Write, RecordSignoff
<1>2. TypeOK' /\ FillInv' /\ Grown /\ RowsInOrder'
  BY <1>1, NextType, NextKeepsFills, CommandsGrow DEF CountInv
<1>3. /\ touched' \in BOOLEAN /\ ReportShape'
      /\ report'.kind \in Dashboards => CountsHold(report)'
  <2>1. CASE UNCHANGED reportVars
    <3>r. PICK r : r = report
      OBVIOUS
    <3>1. r.kind \in Dashboards => CountsHold(r)'
      BY <1>2, <3>r, GrowCounts DEF CountInv
    <3> QED
      BY <2>1, <3>r, <3>1 DEF CountInv, ReportShape, reportVars
  <2>2. CASE BeginReport
    BY <2>2, BeginShape, BeginCounts DEF CountInv
  <2>3. CASE ContinueReport
    BY <2>3, ContinueShape, ContinueCounts DEF CountInv
  <2>4. CASE Write
    <3>r. PICK r : r = report
      OBVIOUS
    <3>1. r.kind \in Dashboards => CountsHold(r)'
      BY <1>2, <3>r, GrowCounts DEF CountInv
    <3>2. CASE report' = r /\ touched' \in BOOLEAN
      BY <3>r, <3>1, <3>2 DEF CountInv, ReportShape
    <3>3. CASE report' = NoReport /\ touched' = FALSE
      BY <3>3 DEF ReportShape, NoReport, Dashboards
    <3> QED
      BY <2>4, <3>r, <3>2, <3>3, WriteReports DEF CountInv
  <2> QED
    BY <2>1, <2>2, <2>3, <2>4 DEF ReportsNext
<1> QED
  BY <1>2, <1>3 DEF CountInv

\* What a report that is done says of its day.
LEMMA DoneCounts ==
  ASSUME CountInv, Done(Dashboards)
  PROVE  /\ report.open - Unclassified(report.dailyFills, report.dailyClassified)
              <= ClassifiedMeanwhile
         /\ report.kind = "DASHBOARD" =>
              /\ report.openLive - Unclassified(report.today, report.classified)
                   <= ClassifiedMeanwhile
              /\ ~report.shutdown => report.violationFills <= ClassifiedMeanwhile
<1>1. PICK r : r = report
  OBVIOUS
<1> DEFINE all == Cardinality(FillsOn(r.date, r.at))
           live == Cardinality(WithRow(FillsOn(r.date, r.at), "LIVE_FILL"))
           closed == Cardinality(ClassifiedOn(r.date, r.at))
           calm == Cardinality(CalmOn(r.date, r.at))
<1>2. closed \in Nat
  BY DayCounted DEF CountInv
<1>3. CountsWithin(r, all, live, closed, calm) /\ r.step = "done"
  BY <1>1 DEF CountInv, Done, CountsHold
<1>4. ClassifiedMeanwhile = closed - r.closed
  BY <1>1 DEF ClassifiedMeanwhile
<1> HIDE DEF all, live, closed, calm
<1> USE DEF CountsWithin, AfterFills, AfterAudit, AfterShutdown, AfterTrades, AfterToday,
            AfterClassified, AfterViolations, Unclassified
<1>5. r.open - Unclassified(r.dailyFills, r.dailyClassified) <= closed - r.closed
  <2>1. /\ r.open \in Nat /\ r.closed \in Nat /\ r.dailyFills \in Nat /\ r.dailyClassified \in Nat
        /\ r.open + r.closed <= r.dailyFills /\ r.dailyClassified <= closed
    BY <1>3
  <2> QED
    BY <1>2, <2>1
<1>6. ASSUME r.kind = "DASHBOARD"
      PROVE  /\ r.openLive - Unclassified(r.today, r.classified) <= closed - r.closed
             /\ ~r.shutdown => r.violationFills <= closed - r.closed
  <2>1. /\ r.openLive \in Nat /\ r.closed \in Nat /\ r.today \in Nat /\ r.classified \in Nat
        /\ r.openLive + r.closed <= r.today /\ r.classified <= closed
        /\ ~r.shutdown => r.violationFills \in Nat /\ r.violationFills + r.closed <= closed
    BY <1>3, <1>6
  <2> QED
    BY <1>2, <2>1
<1> QED
  BY <1>1, <1>4, <1>5, <1>6

\* A fill that a kill left unclassified is missing from the unclassified count of its day
\* only when another was classified while the report was built.
THEOREM HiddenFillsBound == ReportsSpec => []HiddenFillsBounded
<1>1. CountInv => HiddenFillsBounded
  BY DoneCounts DEF HiddenFillsBounded, Done, Dashboards
<1> QED
  BY <1>1, NothingHidden, CountsKeep, PTL DEF ReportsSpec

\* Violation fills that were classified before a dashboard was asked for are never shown
\* without the shutdown they caused.
THEOREM ShutdownShown == ReportsSpec => []ViolationsShowShutdown
<1>1. CountInv => ViolationsShowShutdown
  BY DoneCounts DEF ViolationsShowShutdown, Done, Dashboards
<1> QED
  BY <1>1, NothingHidden, CountsKeep, PTL DEF ReportsSpec

-----------------------------------------------------------------------------
(* The dashboard and the gate *)

LiveRows == WithRow(DOMAIN fills, "LIVE_FILL")

\* Once a dashboard has counted the trades, its count is no less than any the gate could
\* read when it began, unless a fill is dated after it; before, the rows are there.  It is
\* always for a moment.
ReviewHolds(r) ==
  r.kind = "DASHBOARD" =>
    /\ r.counted \subseteq Nat /\ r.at.instant \in Int
    /\ r.step \in AfterTrades =>
         /\ r.trades \in Nat
         /\ (\A f \in DOMAIN fills : Seen(fills[f].at, r.at)) => \A n \in r.counted : n <= r.trades
    /\ r.step \notin AfterTrades => \A n \in r.counted : n <= Cardinality(LiveRows)

\* What is inductive.
MilderInv == CountInv /\ ReviewHolds(report)

\* The rows are counted as any set of fills is.
LEMMA LiveRowsCounted ==
  TypeOK => IsFiniteSet(LiveRows) /\ Cardinality(LiveRows) \in Nat
BY FillsCounted DEF LiveRows, WithRow

\* What the gate counts for a session has a LIVE_FILL row.
LEMMA GateCountsLive ==
  ASSUME TypeOK, RowsInOrder, NEW p
  PROVE  TradeCount(p) \in Nat /\ TradeCount(p) <= Cardinality(LiveRows)
<1>1. CountedFills(p) \subseteq LiveRows /\ LiveRows \subseteq DOMAIN fills
  BY DEF CountedFills, LiveRows, WithRow, RowsInOrder
<1>2. \A S \in SUBSET DOMAIN fills : \A T \in SUBSET S :
        Cardinality(T) \in Nat /\ Cardinality(T) <= Cardinality(S)
  BY FillsCounted
<1>3. Cardinality(CountedFills(p)) \in Nat /\ Cardinality(CountedFills(p)) <= Cardinality(LiveRows)
  BY <1>1, <1>2
<1> QED
  BY <1>3 DEF TradeCount

\* A dashboard begins with the rows it is going to count.
LEMMA BeginReview ==
  ASSUME TypeOK, RowsInOrder, BeginReport
  PROVE  ReviewHolds(report)'
<1>1. ASSUME NEW kind, NEW date, NEW at, Begin(Begun(kind, date, at)),
             kind = "DASHBOARD" => at.instant \in Int
      PROVE  ReviewHolds(report)'
  <2>1. PICK r : r = report'
    OBVIOUS
  <2>2. /\ r.step = "fills" /\ r.counted = {TradeCount(p) : p \in Pilots}
        /\ r.kind = kind /\ r.at = at
        /\ report' = r /\ UNCHANGED fills
    BY <1>1, <2>1 DEF Begin, Begun, vars
  <2>3. /\ r.counted \subseteq Nat /\ \A n \in r.counted : n <= Cardinality(LiveRows)
        /\ LiveRows' = LiveRows
    BY <2>2, GateCountsLive DEF LiveRows, WithRow
  <2>4. r.step \notin AfterTrades
    BY <2>2 DEF AfterTrades, AfterToday, AfterClassified, AfterViolations
  <2> QED
    BY <1>1, <2>2, <2>3, <2>4 DEF ReviewHolds
<1>2. ASSUME NEW p, NEW at, EvidencePacket(p, at) PROVE ReviewHolds(report)'
  <2>1. report'.kind = "PACKET"
    BY <1>2 DEF EvidencePacket, Begin
  <2> QED
    BY <2>1 DEF ReviewHolds
<1>3. Utc(now).instant \in Int /\ \A at \in AskStamps : at.instant \in Int
  <2>1. Times \subseteq Int
    BY ClockAssumption DEF Times
  <2>2. now \in Int
    BY <2>1 DEF TypeOK
  <2> QED
    BY <2>1, <2>2 DEF Utc, AskStamps, Stamp
<1>4. ASSUME NEW date, DailyReport(date) PROVE ReviewHolds(report)'
  <2>1. Begin(Begun("DAILY", date, NoBound))
    BY <1>4 DEF DailyReport
  <2> QED
    BY <1>1, <2>1
<1>5. ASSUME NEW date, RiskDashboard(date) PROVE ReviewHolds(report)'
  <2>1. Begin(Begun("DASHBOARD", date, Utc(now)))
    BY <1>5 DEF RiskDashboard
  <2> QED
    BY <1>1, <1>3, <2>1
<1>6. ASSUME NEW p, NEW v, NEW date, NEW at \in AskStamps, PilotDashboard(p, v, date, at)
      PROVE  ReviewHolds(report)'
  <2>1. Begin(Begun("DASHBOARD", date, at))
    BY <1>6 DEF PilotDashboard
  <2> QED
    BY <1>1, <1>3, <2>1
<1> QED
  BY <1>2, <1>4, <1>5, <1>6 DEF BeginReport

\* The query that counts the trades counts every row, unless a fill is dated after the
\* report; the others count no trades.
LEMMA ContinueReview ==
  ASSUME TypeOK, ReportShape, ReviewHolds(report), ContinueReport
  PROVE  ReviewHolds(report)'
<1>1. PICK r, s : r = report /\ s = report'
  OBVIOUS
<1>2. UNCHANGED fills
  BY ReportsOnlyRead DEF vars
<1>3. CASE r.kind # "DASHBOARD"
  <2>1. s.kind = r.kind
    BY <1>1, ContinueShape
  <2> QED
    BY <1>1, <1>3, <2>1 DEF ReviewHolds
<1>4. CASE r.kind = "DASHBOARD"
  <2> USE DEF AfterFills, AfterAudit, AfterShutdown, AfterTrades, AfterToday, AfterClassified,
              AfterViolations
  <2>1. r = [x \in DashboardFields |-> r[x]]
    BY <1>1, <1>4 DEF ReportShape, Dashboards
  <2>2. CASE CountAllTrades
    <3>1. s = [r EXCEPT !.step = "today", !.trades = CountTrades(r.at)] /\ r.step = "trades"
      BY <1>1, <2>2 DEF CountAllTrades, Read
    <3>2. /\ s.kind = r.kind /\ s.at = r.at /\ s.counted = r.counted /\ s.step = "today"
          /\ s.trades = CountTrades(r.at)
      BY <2>1, <3>1 DEF DashboardFields, Counts
    <3>3. CountTrades(r.at) \in Nat
      BY FillsCounted DEF CountTrades, LiveFills, WithRow, SeenFills
    <3>4. (\A f \in DOMAIN fills : Seen(fills[f].at, r.at)) => CountTrades(r.at) = Cardinality(LiveRows)
      <4>1. (\A f \in DOMAIN fills : Seen(fills[f].at, r.at)) => LiveFills(r.at) = LiveRows
        BY DEF LiveFills, LiveRows, WithRow, SeenFills
      <4> QED
        BY <4>1 DEF CountTrades
    <3>5. /\ r.counted \subseteq Nat /\ r.at.instant \in Int
          /\ \A n \in r.counted : n <= Cardinality(LiveRows)
      BY <1>1, <1>4, <3>1 DEF ReviewHolds
    <3>6. ReviewHolds(s)
      BY <3>2, <3>3, <3>4, <3>5 DEF ReviewHolds
    <3>7. ReviewHolds(s)'
      BY <1>2, <3>6 DEF ReviewHolds, LiveRows, WithRow
    <3> QED
      BY <1>1, <3>7
  <2>3. CASE ~CountAllTrades
    <3>1. /\ s.kind = r.kind /\ s.at = r.at /\ s.counted = r.counted /\ s.trades = r.trades
          /\ r.step \in AfterTrades <=> s.step \in AfterTrades
      <4> USE DEF Read, DashboardFields, Counts
      <4>1. CASE LoadFills
        BY <1>1, <2>1, <4>1 DEF LoadFills
      <4>2. CASE LoadAuditLogs
        BY <1>1, <1>4, <2>1, <4>2 DEF LoadAuditLogs
      <4>3. CASE LoadShutdown
        BY <1>1, <2>1, <4>3 DEF LoadShutdown
      <4>4. CASE CountToday
        BY <1>1, <2>1, <4>4 DEF CountToday
      <4>5. CASE CountClassified
        BY <1>1, <2>1, <4>5 DEF CountClassified
      <4>6. CASE CountDayViolations
        BY <1>1, <2>1, <4>6 DEF CountDayViolations
      <4>7. ~(LoadPacketRows \/ LoadFillRows \/ LoadDayShutdown)
        BY <1>1, <1>4 DEF LoadPacketRows, LoadFillRows, LoadDayShutdown, ReportShape, Dashboards
      <4> QED
        BY <2>3, <4>1, <4>2, <4>3, <4>4, <4>5, <4>6, <4>7 DEF ContinueReport
    <3>2. ReviewHolds(s)
      BY <1>1, <3>1 DEF ReviewHolds
    <3>3. ReviewHolds(s)'
      BY <1>2, <3>2 DEF ReviewHolds, LiveRows, WithRow
    <3> QED
      BY <1>1, <3>3
  <2> QED
    BY <2>2, <2>3
<1> QED
  BY <1>3, <1>4

\* Rows that are added make the rows more, and a fill dated after the report stays one.
LEMMA GrowReview ==
  ASSUME TypeOK, TypeOK', Grown, NEW r, ReviewHolds(r)
  PROVE  ReviewHolds(r)'
<1>1. LiveRows \subseteq LiveRows' /\ LiveRows' \subseteq DOMAIN fills'
  BY DEF LiveRows, WithRow, Grown
<1>2. IsFiniteSet(DOMAIN fills')
  <2>1. DOMAIN fills' = 1 .. Len(fills') /\ Len(fills') \in Nat
    BY DEF TypeOK
  <2> QED
    BY <2>1, FS_Interval
<1>3. /\ Cardinality(LiveRows) <= Cardinality(LiveRows')
      /\ Cardinality(LiveRows) \in Nat /\ Cardinality(LiveRows') \in Nat
  <2>1. IsFiniteSet(LiveRows')
    BY <1>1, <1>2, FS_Subset
  <2> QED
    BY <1>1, <2>1, FS_Subset, FS_CardinalityType, LiveRowsCounted
<1>4. (\A f \in DOMAIN fills' : Seen(fills'[f].at, r.at)) => \A f \in DOMAIN fills : Seen(fills[f].at, r.at)
  BY DEF Grown
<1> DEFINE before == Cardinality(LiveRows)
           after == Cardinality(LiveRows')
<1> HIDE DEF before, after
<1>5. r.counted \subseteq Nat => ((\A n \in r.counted : n <= before) => \A n \in r.counted : n <= after)
  BY <1>3 DEF before, after
<1> QED
  BY <1>4, <1>5 DEF ReviewHolds, before, after

\* No step makes a dashboard milder than the gate was.
LEMMA ReviewKeeps == MilderInv /\ [ReportsNext]_reportVars => MilderInv'
<1> SUFFICES ASSUME MilderInv, [ReportsNext]_reportVars PROVE MilderInv'
  OBVIOUS
<1>1. CountInv'
  BY CountsKeep DEF MilderInv
<1>2. Grown
  <2>1. [Next]_vars
    BY ReportsOnlyRead DEF ReportsNext, reportVars, Write, RecordSignoff
  <2> QED
    BY <2>1, CommandsGrow DEF MilderInv, CountInv
<1>3. PICK r : r = report
  OBVIOUS
<1>4. ReviewHolds(r)'
  BY <1>1, <1>2, <1>3, GrowReview DEF MilderInv, CountInv
<1>5. ReviewHolds(report)'
  <2>1. CASE report' = r
    BY <1>4, <2>1
  <2>2. CASE report' = NoReport
    BY <2>2 DEF ReviewHolds, NoReport
  <2>3. CASE BeginReport
    BY <2>3, BeginReview DEF MilderInv, CountInv
  <2>4. CASE ContinueReport
    BY <2>4, ContinueReview DEF MilderInv, CountInv
  <2>5. CASE Write
    BY <1>3, <2>1, <2>2, <2>5, WriteReports DEF MilderInv, CountInv
  <2> QED
    BY <1>3, <2>1, <2>3, <2>4, <2>5 DEF ReportsNext, reportVars
<1> QED
  BY <1>1, <1>5 DEF MilderInv

\* A dashboard that no fill is dated after is never READY when the gate had counted as many
\* trades of a session as the dashboard's own review point by the time it began, nor when
\* it is given the start of a session that is due after no fewer days than its own.
THEOREM NeverMilder == ReportsSpec => []ReviewNotMilder
<1>1. ReportsInit => MilderInv
  BY NothingHidden DEF MilderInv, ReviewHolds, ReportsInit, NoReport
<1>2. MilderInv => ReviewNotMilder
  <2> SUFFICES ASSUME MilderInv, Done({"DASHBOARD"}) PROVE ReviewNotMilder
    BY DEF ReviewNotMilder
  <2>1. /\ report.at.instant \in Int /\ report.counted \subseteq Nat /\ report.trades \in Nat
        /\ (\A f \in DOMAIN fills : Seen(fills[f].at, report.at)) =>
             \A n \in report.counted : n <= report.trades
    BY DEF MilderInv, ReviewHolds, Done, AfterTrades, AfterToday, AfterClassified, AfterViolations
  <2>2. ASSUME NEW n \in report.counted, n >= PilotReviewMin,
               \A f \in DOMAIN fills : Seen(fills[f].at, report.at),
               NEW start \in PilotStarts(report.at)
        PROVE  ReviewStatus(report.trades, start, report.at) # "READY"
    <3>1. report.trades >= PilotReviewMin
      BY <2>1, <2>2, PilotReviewAssumption
    <3> QED
      BY <3>1 DEF ReviewStatus
  <2>3. ASSUME NEW i \in DOMAIN log, log[i].due <= report.at.instant,
               log[i].due - log[i].at.instant >= PilotReviewAfter
        PROVE  ReviewStatus(report.trades, log[i].at, report.at) # "READY"
    <3>1. log[i].due \in Nat /\ log[i].at \in Stamp /\ log[i].at.instant \in Int
      <4>1. log[i] \in Row
        <5>1. log \in Seq(Row)
          BY DEF MilderInv, CountInv, TypeOK
        <5> QED
          BY <2>3, <5>1
      <4>2. log[i].due \in Nat /\ log[i].at \in Stamp
        BY <4>1 DEF Row
      <4>3. \A t \in Stamp : t.instant \in Times
        BY DEF Stamp
      <4>4. Times \subseteq Int
        BY ClockAssumption DEF Times
      <4> QED
        BY <4>2, <4>3, <4>4
    <3>2. report.at.instant - log[i].at.instant >= PilotReviewAfter
      <4> DEFINE due == log[i].due
                 began == log[i].at.instant
                 asked == report.at.instant
      <4>1. due \in Int /\ began \in Int /\ asked \in Int
        <5>1. due \in Nat
          BY <3>1
        <5>2. began \in Int
          BY <3>1
        <5>3. asked \in Int
          BY <2>1
        <5>4. Nat \subseteq Int
          OBVIOUS
        <5> QED
          BY <5>1, <5>2, <5>3, <5>4
      <4>1a. PilotReviewAfter \in Int
        BY PilotReviewAssumption
      <4>2. due <= asked /\ due - began >= PilotReviewAfter
        BY <2>3
      <4> HIDE DEF due, began, asked
      <4>3. asked - began >= PilotReviewAfter
        BY <4>1, <4>1a, <4>2
      <4> QED
        BY <4>3 DEF began, asked
    <3>3. ReviewDays(log[i].at, report.at)
      BY <3>1, <3>2, NoBoundAssumption DEF ReviewDays
    <3> QED
      BY <3>3 DEF ReviewStatus
  <2> QED
    BY <2>2, <2>3 DEF ReviewNotMilder
<1> QED
  BY <1>1, <1>2, ReviewKeeps, PTL DEF ReportsSpec

-----------------------------------------------------------------------------
(* Types of a report *)

\* The least of some days is one of them.
LEMMA FirstDay ==
  ASSUME NEW S, S \subseteq Nat, S # {}
  PROVE  Min(S) \in S
<1>1. PICK d \in S : \A e \in S : ~(<<e, d>> \in OpToRel(<, Nat))
  BY NatLessThanWellFounded, WFMin, Zenon
<1>2. \A e \in S : ~(e < d)
  BY <1>1, Zenon DEF OpToRel
<1>3. \A e \in S : d <= e
  BY <1>2
<1> QED
  BY <1>3 DEF Min

\* A timestamp is of a day.
LEMMA DayType ==
  ASSUME NEW t \in Stamp
  PROVE  Day(t) \in Dates /\ Day(t) \in Nat
<1>1. t.instant \in Times /\ t.offset \in Offsets
  BY DEF Stamp
<1>2. t.offset \in Nat
  BY <1>1, ClockAssumption
<1>2a. Text(t) \in Nat
  <2>1. t.instant \in Nat
    BY <1>1, ClockAssumption DEF Times
  <2> QED
    BY <1>2, <2>1 DEF Text
<1>3. Text(t) \div DayLength \in Nat
  BY <1>2a, DayLengthAssumption
<1> QED
  BY <1>3 DEF Day, Dates

\* The sessions of a packet have a first row and rows that stopped them, all with timestamps.
LEMMA SessionStamps ==
  ASSUME TypeOK, NEW at, NEW p, Exists(AsOf(log, at), p)
  PROVE  LET known == AsOf(log, at) IN
         /\ known[StartRow(known, p)].at \in Stamp
         /\ \A i \in DOMAIN known : known[i].at \in Stamp
<1> DEFINE known == AsOf(log, at)
           S == RowsOf(known, p, {"STARTED"})
<1>1. DOMAIN log = 1 .. Len(log) /\ Len(log) \in Nat /\ \A i \in DOMAIN log : log[i] \in Row
  BY DEF TypeOK
<1>2. DOMAIN known \subseteq DOMAIN log /\ \A i \in DOMAIN known : known[i] = log[i]
  BY DEF AsOf
<1>3. S \subseteq DOMAIN known /\ S # {}
  BY DEF RowsOf, Exists
<1> HIDE DEF known, S
<1>4. \A i \in DOMAIN known : known[i].at \in Stamp
  BY <1>1, <1>2 DEF Row
<1>5. PartOfLog(known)
  <2>1. IsFiniteSet(DOMAIN log) /\ DOMAIN log \subseteq Int
    BY <1>1, FS_Interval
  <2>2. IsFiniteSet(DOMAIN known)
    BY <1>2, <2>1, FS_Subset
  <2> QED
    BY <1>1, <1>2, <2>1, <2>2 DEF PartOfLog
<1>6. \E i \in DOMAIN known : IsLast(known, i, S)
  BY <1>3, <1>5, LastOfRows
<1>9. StartRow(known, p) \in DOMAIN known
  BY <1>6 DEF StartRow, S
<1> QED
  BY <1>4, <1>9 DEF known

\* The violation rows of a day are counted.
LEMMA ViolationsCounted ==
  ASSUME TypeOK, NEW date, NEW at
  PROVE  CountViolations(date, at) \in Nat
<1> DEFINE S == FillsOn(date, at)
           g == [f \in S |-> fills[f].violations]
<1>1. IsFiniteSet(S) /\ S \subseteq DOMAIN fills
  BY FillsCounted DEF FillsOn, SeenFills
<1>2. \A f \in S : g[f] \in Nat
  BY <1>1, FillRow
<1>3. DOMAIN g = S
  OBVIOUS
<1> HIDE DEF g, S
<1>4. SumFunctionOnSet(g, S) \in Nat
  BY <1>1, <1>2, SumNat
<1> QED
  BY <1>3, <1>4 DEF CountViolations, SumFunction, g, S

\* What dashboard r holds at any step.
DashboardTyped(r) ==
  /\ r.date \in Dates /\ r.at \in Stamp \cup OwnStamp \cup {NoBound}
  /\ r.counted \subseteq Nat /\ \A c \in Counts : r[c] \in Nat
  /\ r.shutdown \in BOOLEAN /\ r.violationFills <= r.classified

\* A dashboard begins with counts that are zero, and the numbers noted.
LEMMA BeginTyped ==
  ASSUME TypeOK, RowsInOrder, BeginReport, report'.kind \in Dashboards
  PROVE  DashboardTyped(report)'
<1>1. PICK kind \in Dashboards, date \in Dates, at \in Stamp \cup OwnStamp \cup {NoBound} :
        Begin(Begun(kind, date, at))
  <2>1. ASSUME NEW p, NEW at, EvidencePacket(p, at) PROVE FALSE
    <3>1. report'.kind = "PACKET"
      BY <2>1 DEF EvidencePacket, Begin
    <3> QED
      BY <3>1 DEF Dashboards
  <2>2. Utc(now) \in OwnStamp
    BY DEF OwnStamp, TypeOK
  <2>3. CASE \E date \in Dates : DailyReport(date)
    BY <2>3 DEF DailyReport, Dashboards
  <2>4. CASE \E date \in Dates : RiskDashboard(date)
    BY <2>2, <2>4 DEF RiskDashboard, Dashboards
  <2>5. CASE \E p \in Pilots \cup {AnyPilot}, v \in Versions, date \in Dates, at \in AskStamps :
               PilotDashboard(p, v, date, at)
    BY <2>5 DEF PilotDashboard, AskStamps, Dashboards
  <2> QED
    BY <2>1, <2>3, <2>4, <2>5 DEF BeginReport
<1>2. PICK r : r = report'
  OBVIOUS
<1>3. /\ r.date = date /\ r.at = at /\ r.shutdown = FALSE
      /\ r.counted = {TradeCount(p) : p \in Pilots}
      /\ r.open = Cardinality(FillsOn(date, at) \ ClassifiedOn(date, at))
      /\ r.openLive = Cardinality(WithRow(FillsOn(date, at), "LIVE_FILL") \ ClassifiedOn(date, at))
      /\ r.closed = Cardinality(ClassifiedOn(date, at))
      /\ \A c \in Counts \ {"open", "openLive", "closed"} : r[c] = 0
  BY <1>1, <1>2 DEF Begin, Begun, Counts
<1>4. r.open \in Nat /\ r.openLive \in Nat /\ r.closed \in Nat
  <2>1. /\ Cardinality(FillsOn(date, at) \ ClassifiedOn(date, at)) \in Nat
        /\ Cardinality(WithRow(FillsOn(date, at), "LIVE_FILL") \ ClassifiedOn(date, at)) \in Nat
        /\ Cardinality(ClassifiedOn(date, at)) \in Nat
    BY DayCounted
  <2> QED
    BY <1>3, <2>1
<1>5. r.counted \subseteq Nat
  BY <1>3, GateCountsLive
<1>6. DashboardTyped(r)
  <2>1. r.violationFills <= r.classified
    <3>1. r.violationFills = 0 /\ r.classified = 0
      BY <1>3 DEF Counts
    <3> QED
      BY <3>1
  <2>3. r.shutdown \in BOOLEAN
    BY <1>3
  <2>2. \A c \in Counts : r[c] \in Nat
    <3>1. r["open"] \in Nat /\ r["openLive"] \in Nat /\ r["closed"] \in Nat
      BY <1>4
    <3>2. \A c \in Counts \ {"open", "openLive", "closed"} : r[c] \in Nat
      BY <1>3
    <3> QED
      BY <3>1, <3>2
  <2> QED
    BY <1>3, <1>5, <2>1, <2>2, <2>3, Zenon DEF DashboardTyped
<1> QED
  BY <1>2, <1>6 DEF DashboardTyped

\* Each query adds a number of its type.
LEMMA ContinueTyped ==
  ASSUME TypeOK, RowsInOrder, ReportShape, report.kind \in Dashboards, DashboardTyped(report),
         ContinueReport
  PROVE  DashboardTyped(report)'
<1>1. PICK r, s : r = report /\ s = report'
  OBVIOUS
<1> DEFINE all == Cardinality(FillsOn(r.date, r.at))
           live == Cardinality(WithRow(FillsOn(r.date, r.at), "LIVE_FILL"))
           closed == Cardinality(ClassifiedOn(r.date, r.at))
           violent == Cardinality(ViolationFills(ClassifiedOn(r.date, r.at)))
           trades == CountTrades(r.at)
           broken == CountViolations(r.date, r.at)
           down == ShutdownActive(r.at)
<1>2. {all, live, closed, violent, trades, broken} \subseteq Nat /\ violent <= closed
      /\ down \in BOOLEAN
  <2>1. /\ all \in Nat /\ live \in Nat /\ closed \in Nat /\ violent \in Nat
        /\ Cardinality(CalmOn(r.date, r.at)) \in Nat
        /\ violent + Cardinality(CalmOn(r.date, r.at)) = closed
    BY DayCounted
  <2>2. trades \in Nat
    BY FillsCounted DEF CountTrades, LiveFills, WithRow, SeenFills
  <2>3. broken \in Nat
    BY ViolationsCounted
  <2>4. down \in BOOLEAN
    BY DEF ShutdownActive
  <2> HIDE DEF all, live, closed, violent, trades, broken, down
  <2> QED
    BY <2>1, <2>2, <2>3, <2>4
<1>3. r = [x \in DashboardFields |-> r[x]] /\ r.kind \in Dashboards /\ DashboardTyped(r)
  BY <1>1 DEF ReportShape, DashboardTyped
<1>4. \/ s = [r EXCEPT !.step = "audit", !.dailyFills = all]
      \/ \E step : s = [r EXCEPT !.step = step, !.dailyClassified = closed]
      \/ s = [r EXCEPT !.step = "trades", !.shutdown = down]
      \/ s = [r EXCEPT !.step = "today", !.trades = trades]
      \/ s = [r EXCEPT !.step = "classified", !.today = live]
      \/ s = [r EXCEPT !.step = "violations", !.classified = closed, !.violationFills = violent]
      \/ s = [r EXCEPT !.step = "done", !.violations = broken]
  <2>1. ~(LoadPacketRows \/ LoadFillRows \/ LoadDayShutdown)
    BY DEF LoadPacketRows, LoadFillRows, LoadDayShutdown, ReportShape, Dashboards, Read, AfterFills,
       AfterAudit, AfterShutdown, AfterTrades, AfterToday, AfterClassified, AfterViolations
  <2> QED
    BY <1>1, <2>1 DEF ContinueReport, Read, LoadFills, LoadAuditLogs, LoadShutdown, CountAllTrades,
       CountToday, CountClassified, CountDayViolations
<1> HIDE DEF all, live, closed, violent, trades, broken, down
<1>5. DashboardTyped(s)
  BY <1>2, <1>3, <1>4, ZenonT(40) DEF DashboardTyped, DashboardFields, Counts
<1> QED
  BY <1>1, <1>5 DEF DashboardTyped
-----------------------------------------------------------------------------
(* The evidence packet *)

\* The fills of S that count as trades, and those of a day.
Trades(S) == {f \in S : ~fills[f].entry.dryRun}
Listed(S, date) == {f \in S : Day(fills[f].at) = date}
ViolationsIn(S) == SumFunction([f \in S |-> Len(Violations(fills[f].entry))])

\* What packet r holds at any step.
PacketTyped(r) ==
  /\ r.at \in Stamp /\ r.started \in Times /\ r.stopped \subseteq Times /\ r.tradeCount \in Nat
  /\ r.ids \subseteq DOMAIN fills /\ r.fills \subseteq r.ids /\ r.slippage \subseteq r.ids
  /\ r.signoffs \subseteq DOMAIN signoffs
  /\ r.days \subseteq Dates /\ DOMAIN r.shutdown \subseteq r.days
  /\ \A d \in DOMAIN r.shutdown : r.shutdown[d] \in BOOLEAN
  /\ r.step \in {"rows", "fillRows"} => DOMAIN r.shutdown = {} /\ r.days # {} /\ r.fills = {}
  /\ r.step = "shutdown" => r.days \ DOMAIN r.shutdown # {}
  /\ r.step = "done" => r.shutdown \in [r.days -> BOOLEAN]

\* What packet r says of the fills it lists.
PacketTold(r) ==
  /\ r.step = "rows" => r.tradeCount <= Cardinality(Trades(SessionFills(r.pilot, r.at)))
  /\ r.step \in AfterRows =>
       /\ r.slippage = r.ids /\ r.tradeCount <= Cardinality(Trades(r.ids))
       /\ \A f \in r.ids :
            /\ Seen(fills[f].at, r.at)
            /\ Violations(fills[f].entry) # <<>> => fills[f].at \in shutdowns
            /\ InSession(r, fills[f].at) =>
                 f \in DOMAIN r.violations /\ r.violations[f] = Len(Violations(fills[f].entry))
       /\ \A d \in Dates : /\ r.counts[d].fills >= Cardinality(Listed(r.ids, d))
                           /\ r.counts[d].violations >= ViolationsIn(Listed(r.ids, d))
  /\ r.step \in AfterFillRows => r.fills = r.ids /\ \A f \in r.ids : Day(fills[f].at) \in r.days
  /\ \A f \in r.ids, d \in DOMAIN r.shutdown :
       Violations(fills[f].entry) # <<>> => r.shutdown[d]

SignoffType == signoffs \in Seq([pilot : Pilots, at : Stamp])

\* What is inductive.
PacketInv ==
  /\ CountInv /\ SignoffType
  /\ report.kind \in Dashboards => DashboardTyped(report)
  /\ report.kind = "PACKET" => PacketTyped(report) /\ PacketTold(report)

\* The trades of a packet are counted as any fills are.
LEMMA TradesCounted ==
  ASSUME TypeOK, NEW S, S \subseteq DOMAIN fills
  PROVE  Cardinality(Trades(S)) \in Nat
<1>1. Trades(S) \in SUBSET DOMAIN fills
  BY DEF Trades
<1>2. \A T \in SUBSET DOMAIN fills : Cardinality(T) \in Nat
  BY FillsCounted
<1> QED
  BY <1>1, <1>2

\* A packet begins with the session's own rows, and lists no fill.
LEMMA BeginPacket ==
  ASSUME TypeOK, BeginReport, report'.kind = "PACKET"
  PROVE  PacketTyped(report)' /\ PacketTold(report)'
<1>1. PICK p \in Pilots, at \in AskStamps : EvidencePacket(p, at)
  <2>1. ASSUME NEW kind \in Dashboards, NEW date, NEW at, Begin(Begun(kind, date, at)) PROVE FALSE
    <3>1. report'.kind = kind
      BY <2>1 DEF Begin, Begun
    <3> QED
      BY <3>1 DEF Dashboards
  <2> QED
    BY <2>1 DEF BeginReport, DailyReport, RiskDashboard, PilotDashboard, Dashboards
<1>2. PICK r : r = report'
  OBVIOUS
<1> DEFINE known == AsOf(log, at)
           start == known[StartRow(known, p)].at
           stops == {known[i].at.instant : i \in {i \in DOMAIN known : IsStopRow(known, i, p)}}
           T == Trades(SessionFills(p, at))
<1>3. /\ r.step = "rows" /\ r.pilot = p /\ r.at = at /\ r.started = start.instant /\ r.stopped = stops
      /\ r.tradeCount = Cardinality(T)
      /\ r.ids = {} /\ r.slippage = {} /\ r.signoffs = {} /\ r.fills = {}
      /\ r.days = {Day(start), Day(at)} /\ r.shutdown = <<>>
  BY <1>1, <1>2 DEF EvidencePacket, Begin, Trades
<1>4. Exists(known, p) /\ UNCHANGED <<vars, signoffs>>
  BY <1>1, ReportsOnlyRead DEF EvidencePacket
<1>5. start \in Stamp /\ at \in Stamp /\ \A i \in DOMAIN known : known[i].at \in Stamp
  BY <1>4, SessionStamps DEF AskStamps
<1> HIDE DEF known
<1>6. start.instant \in Times /\ stops \subseteq Times
  BY <1>5 DEF Stamp
<1>7. {Day(start), Day(at)} \subseteq Dates
  BY <1>5, DayType
<1>8. Cardinality(T) \in Nat /\ Cardinality(T) <= Cardinality(T)
  <2>1. Cardinality(T) \in Nat
    BY TradesCounted DEF SessionFills, WithRow, SeenFills
  <2> QED
    BY <2>1
<1> HIDE DEF start, stops, T
<1>9. DOMAIN r.shutdown = {}
  BY <1>3
<1>10. PacketTyped(r)
  BY <1>3, <1>5, <1>6, <1>7, <1>8, <1>9 DEF PacketTyped
<1>11. PacketTold(r)
  <2>1. r.tradeCount <= Cardinality(Trades(SessionFills(r.pilot, r.at)))
    BY <1>3, <1>8 DEF T
  <2> QED
    BY <1>3, <2>1 DEF PacketTold, AfterRows, AfterFillRows
<1>12. PacketTyped(r)' /\ PacketTold(r)'
  BY <1>4, <1>10, <1>11 DEF vars, PacketTyped, PacketTold, Trades, SessionFills, WithRow, SeenFills,
     Listed, ViolationsIn
<1> QED
  BY <1>2, <1>12

\* The rows of the audit log, read at once, tell of each fill that is listed all that the
\* packet says of it.
LEMMA RowsTold ==
  ASSUME RowsInOrder, NEW p, NEW at, NEW ids, ids = SessionFills(p, at)
  PROVE  /\ ids \subseteq DOMAIN fills /\ WithRow(ids, "SLIPPAGE") = ids
         /\ \A f \in ids :
              /\ f \in SeenFills(at) /\ Seen(fills[f].at, at) /\ "LIVE_FILL" \in fills[f].rows
              /\ fills[f].violations = Len(Violations(fills[f].entry))
              /\ Violations(fills[f].entry) # <<>> => fills[f].at \in shutdowns
<1>1. ids \subseteq DOMAIN fills
  BY DEF SessionFills, WithRow, SeenFills
<1>2. \A f \in ids : /\ f \in SeenFills(at) /\ Seen(fills[f].at, at)
                     /\ "SESSION_FILL" \in fills[f].rows
  BY DEF SessionFills, WithRow, SeenFills
<1>3. \A f \in ids :
        /\ "LIVE_FILL" \in fills[f].rows /\ "SLIPPAGE" \in fills[f].rows
        /\ fills[f].violations = Len(Violations(fills[f].entry))
        /\ Violations(fills[f].entry) # <<>> => fills[f].at \in shutdowns
  BY <1>1, <1>2 DEF RowsInOrder
<1>4. WithRow(ids, "SLIPPAGE") = ids
  BY <1>3 DEF WithRow
<1> QED
  BY <1>1, <1>2, <1>3, <1>4

\* The counts of a day are of all sessions, and no less than what is listed of one.
LEMMA DayTold ==
  ASSUME TypeOK, RowsInOrder, NEW p, NEW at, NEW d, NEW ids, ids = SessionFills(p, at)
  PROVE  /\ DayCounts(d, at).fills >= Cardinality(Listed(ids, d))
         /\ DayCounts(d, at).violations >= ViolationsIn(Listed(ids, d))
<1>1. /\ ids \subseteq DOMAIN fills
      /\ \A f \in ids : /\ f \in SeenFills(at) /\ "LIVE_FILL" \in fills[f].rows
                       /\ fills[f].violations = Len(Violations(fills[f].entry))
  BY RowsTold
<1> DEFINE L == Listed(ids, d)
           F == FillsOn(d, at)
           live == WithRow(F, "LIVE_FILL")
           g == [f \in F |-> fills[f].violations]
           h == [f \in L |-> Len(Violations(fills[f].entry))]
<1>5. L \subseteq live /\ live \subseteq F /\ F \subseteq DOMAIN fills /\ L \subseteq F
  BY <1>1 DEF Listed, FillsOn, WithRow, SeenFills
<1>6. \A f \in F : g[f] \in Nat
  BY <1>5, FillRow
<1>7. \A f \in L : g[f] = h[f]
  BY <1>1, <1>5 DEF Listed
<1>8. DOMAIN g = F /\ DOMAIN h = L
  OBVIOUS
<1>9. DayCounts(d, at).fills = Cardinality(live)
  BY DEF DayCounts
<1>10. DayCounts(d, at).violations = SumFunctionOnSet(g, F)
  BY <1>8 DEF DayCounts, CountViolations, SumFunction
<1>11. ViolationsIn(L) = SumFunctionOnSet(h, L)
  BY <1>8 DEF ViolationsIn, SumFunction
<1> HIDE DEF L, F, live, g, h
<1>12. IsFiniteSet(F) /\ IsFiniteSet(L)
  BY <1>5, FillsCounted
<1>13. Cardinality(L) <= Cardinality(live) /\ Cardinality(L) \in Nat /\ Cardinality(live) \in Nat
  BY <1>5, FillsCounted
<1>14. SumFunctionOnSet(h, L) = SumFunctionOnSet(g, L)
  BY <1>7, <1>12, SumSame
<1>15. SumFunctionOnSet(g, L) <= SumFunctionOnSet(g, F)
  BY <1>5, <1>6, <1>12, SumPart
<1>16. SumFunctionOnSet(g, L) \in Nat /\ SumFunctionOnSet(g, F) \in Nat
  <2>1. \A f \in L : g[f] \in Nat
    BY <1>5, <1>6
  <2> QED
    BY <1>6, <1>12, <2>1, SumNat
<1>17. DayCounts(d, at).fills >= Cardinality(L)
  BY <1>9, <1>13
<1>18. DayCounts(d, at).violations >= ViolationsIn(L)
  BY <1>10, <1>11, <1>14, <1>15, <1>16
<1> QED
  BY <1>17, <1>18 DEF L

\* The query of the audit rows is the one that lists the fills.
LEMMA RowsPacket ==
  ASSUME TypeOK, RowsInOrder, NEW r, r = [x \in PacketFields |-> r[x]],
         r.step = "rows", PacketTyped(r), PacketTold(r),
         NEW ids, ids = SessionFills(r.pilot, r.at), NEW s,
         s = [r EXCEPT !.step = "fillRows", !.ids = ids, !.slippage = WithRow(ids, "SLIPPAGE"),
                !.violations = [f \in {f \in SeenFills(r.at) : InSession(r, fills[f].at)} |->
                                  fills[f].violations],
                !.signoffs = SignoffsOf(r.pilot, r.at),
                !.counts = [d \in Dates |-> DayCounts(d, r.at)]]
  PROVE  PacketTyped(s) /\ PacketTold(s)
<1> DEFINE told == [f \in {f \in SeenFills(r.at) : InSession(r, fills[f].at)} |-> fills[f].violations]
           days == [d \in Dates |-> DayCounts(d, r.at)]
<1>1. /\ s.step = "fillRows" /\ s.ids = ids /\ s.slippage = WithRow(ids, "SLIPPAGE")
      /\ s.violations = told /\ s.signoffs = SignoffsOf(r.pilot, r.at) /\ s.counts = days
      /\ s.pilot = r.pilot /\ s.at = r.at /\ s.started = r.started /\ s.stopped = r.stopped
      /\ s.tradeCount = r.tradeCount /\ s.fills = r.fills /\ s.days = r.days
      /\ s.shutdown = r.shutdown
  BY DEF PacketFields
<1>2. /\ ids \subseteq DOMAIN fills /\ WithRow(ids, "SLIPPAGE") = ids
      /\ \A f \in ids :
           /\ f \in SeenFills(r.at) /\ Seen(fills[f].at, r.at)
           /\ fills[f].violations = Len(Violations(fills[f].entry))
           /\ Violations(fills[f].entry) # <<>> => fills[f].at \in shutdowns
  BY RowsTold
<1>3. \A d \in Dates : /\ days[d].fills >= Cardinality(Listed(ids, d))
                       /\ days[d].violations >= ViolationsIn(Listed(ids, d))
  BY DayTold
<1>4. \A f \in ids : InSession(s, fills[f].at) =>
        f \in DOMAIN told /\ told[f] = Len(Violations(fills[f].entry))
  <2>1. \A f \in ids : InSession(s, fills[f].at) <=> InSession(r, fills[f].at)
    BY <1>1 DEF InSession
  <2> QED
    BY <1>2, <2>1
<1>5. SignoffsOf(r.pilot, r.at) \subseteq DOMAIN signoffs
  BY DEF SignoffsOf
<1> HIDE DEF told, days
<1>6. r.tradeCount <= Cardinality(Trades(ids)) /\ DOMAIN r.shutdown = {} /\ r.fills = {}
  BY DEF PacketTyped, PacketTold
<1>7. PacketTyped(s)
  BY <1>1, <1>2, <1>5, <1>6, ZenonT(40) DEF PacketTyped
<1>8. PacketTold(s)
  BY <1>1, <1>2, <1>3, <1>4, <1>6 DEF PacketTold, AfterRows, AfterFillRows
<1> QED
  BY <1>7, <1>8

\* The fills are all found again, and their days added.
LEMMA FillsPacket ==
  ASSUME TypeOK, NEW r, r = [x \in PacketFields |-> r[x]],
         r.step = "fillRows", PacketTyped(r), PacketTold(r),
         NEW found, found = r.ids \cap SeenFills(r.at), NEW s,
         s = [r EXCEPT !.step = "shutdown", !.fills = found,
                       !.days = @ \cup {Day(fills[f].at) : f \in found}]
  PROVE  PacketTyped(s) /\ PacketTold(s)
<1> DEFINE more == {Day(fills[f].at) : f \in found}
<1>1. /\ s.step = "shutdown" /\ s.fills = found /\ s.days = r.days \cup more
      /\ s.pilot = r.pilot /\ s.at = r.at /\ s.started = r.started /\ s.stopped = r.stopped
      /\ s.tradeCount = r.tradeCount /\ s.ids = r.ids /\ s.slippage = r.slippage
      /\ s.violations = r.violations /\ s.signoffs = r.signoffs /\ s.counts = r.counts
      /\ s.shutdown = r.shutdown
  BY DEF PacketFields
<1>2. /\ r.slippage = r.ids /\ r.tradeCount <= Cardinality(Trades(r.ids))
      /\ \A f \in r.ids :
            /\ Seen(fills[f].at, r.at)
            /\ Violations(fills[f].entry) # <<>> => fills[f].at \in shutdowns
            /\ InSession(r, fills[f].at) =>
                 f \in DOMAIN r.violations /\ r.violations[f] = Len(Violations(fills[f].entry))
      /\ \A d \in Dates : /\ r.counts[d].fills >= Cardinality(Listed(r.ids, d))
                          /\ r.counts[d].violations >= ViolationsIn(Listed(r.ids, d))
      /\ DOMAIN r.shutdown = {} /\ r.days # {} /\ r.ids \subseteq DOMAIN fills
  BY DEF PacketTyped, PacketTold, AfterRows
<1>3. found = r.ids
  BY <1>2 DEF SeenFills
<1>4. more \subseteq Dates
  <2>1. \A f \in found : fills[f].at \in Stamp
    BY <1>2, <1>3, FillRow
  <2> QED
    BY <2>1, DayType
<1>5. \A f \in r.ids : Day(fills[f].at) \in s.days
  BY <1>1, <1>3
<1> HIDE DEF more
<1>6. PacketTyped(s)
  BY <1>1, <1>2, <1>3, <1>4 DEF PacketTyped
<1>7. \A f \in r.ids : InSession(s, fills[f].at) <=> InSession(r, fills[f].at)
  BY <1>1 DEF InSession
<1>8. PacketTold(s)
  BY <1>1, <1>2, <1>3, <1>5, <1>7 DEF PacketTold, AfterRows, AfterFillRows
<1> QED
  BY <1>6, <1>8

\* The flag of the next day is that of the packet's moment, on which no listed violation
\* is without its shutdown.
LEMMA FlagsPacket ==
  ASSUME TypeOK, NEW r, r = [x \in PacketFields |-> r[x]], PacketTyped(r), PacketTold(r),
         NEW s, r = report, s = report', LoadDayShutdown
  PROVE  PacketTyped(s) /\ PacketTold(s)
<1>a. PICK left, day : left = r.days \ DOMAIN r.shutdown /\ day = Min(left)
  OBVIOUS
<1>b. /\ r.step = "shutdown"
      /\ s = [r EXCEPT !.step = IF left = {day} THEN "done" ELSE "shutdown",
                       !.shutdown = [d \in DOMAIN @ \cup {day} |->
                          IF d = day THEN ShutdownActive(r.at) ELSE @[d]]]
  BY <1>a DEF LoadDayShutdown, Read
<1> DEFINE flags == [d \in DOMAIN r.shutdown \cup {day} |->
                       IF d = day THEN ShutdownActive(r.at) ELSE r.shutdown[d]]
<1>1. /\ s.step = (IF left = {day} THEN "done" ELSE "shutdown") /\ s.shutdown = flags
      /\ s.fills = r.fills /\ s.days = r.days
      /\ s.pilot = r.pilot /\ s.at = r.at /\ s.started = r.started /\ s.stopped = r.stopped
      /\ s.tradeCount = r.tradeCount /\ s.ids = r.ids /\ s.slippage = r.slippage
      /\ s.violations = r.violations /\ s.signoffs = r.signoffs /\ s.counts = r.counts
  BY <1>b DEF PacketFields
<1>2. day \in left
  <2>1. left \subseteq Nat /\ left # {}
    <3>1. Dates \subseteq Nat
      BY DayType DEF Dates
    <3> QED
      BY <1>a, <1>b, <3>1 DEF PacketTyped
  <2> QED
    BY <1>a, <2>1, FirstDay
<1>3. DOMAIN flags = DOMAIN r.shutdown \cup {day}
  OBVIOUS
<1>4. \A d \in DOMAIN flags : flags[d] \in BOOLEAN
  BY DEF PacketTyped, ShutdownActive
<1>5. /\ r.slippage = r.ids /\ r.tradeCount <= Cardinality(Trades(r.ids))
      /\ \A f \in r.ids :
            /\ Seen(fills[f].at, r.at)
            /\ Violations(fills[f].entry) # <<>> => fills[f].at \in shutdowns
            /\ InSession(r, fills[f].at) =>
                 f \in DOMAIN r.violations /\ r.violations[f] = Len(Violations(fills[f].entry))
      /\ \A d \in Dates : /\ r.counts[d].fills >= Cardinality(Listed(r.ids, d))
                          /\ r.counts[d].violations >= ViolationsIn(Listed(r.ids, d))
      /\ r.fills = r.ids /\ \A f \in r.ids : Day(fills[f].at) \in r.days
  BY <1>b DEF PacketTold, AfterRows, AfterFillRows
<1>6. \A f \in r.ids : Violations(fills[f].entry) # <<>> => ShutdownActive(r.at)
  BY <1>5 DEF ShutdownActive
<1>7. \A f \in r.ids, d \in DOMAIN flags : Violations(fills[f].entry) # <<>> => flags[d]
  BY <1>6 DEF PacketTold
<1>8. left = {day} => flags \in [r.days -> BOOLEAN]
  <2>1. left = {day} => DOMAIN flags = r.days
    BY <1>a, <1>3 DEF PacketTyped
  <2> QED
    BY <1>4, <2>1
<1> HIDE DEF flags
<1>9. PacketTyped(s)
  <2>1. s.step = "shutdown" => s.days \ DOMAIN s.shutdown # {}
    BY <1>a, <1>1, <1>2, <1>3
  <2>2. s.step = "done" => s.shutdown \in [s.days -> BOOLEAN]
    BY <1>1, <1>8
  <2> QED
    <3>1. /\ s.at \in Stamp /\ s.started \in Times /\ s.stopped \subseteq Times
          /\ s.tradeCount \in Nat
          /\ s.ids \subseteq DOMAIN fills /\ s.fills \subseteq s.ids /\ s.slippage \subseteq s.ids
          /\ s.signoffs \subseteq DOMAIN signoffs /\ s.days \subseteq Dates
      BY <1>1 DEF PacketTyped
    <3>2. DOMAIN s.shutdown \subseteq s.days
      BY <1>a, <1>1, <1>2, <1>3 DEF PacketTyped
    <3>3. \A d \in DOMAIN s.shutdown : s.shutdown[d] \in BOOLEAN
      BY <1>1, <1>4, Zenon
    <3>4. s.step \notin {"rows", "fillRows"}
      BY <1>1
    <3> QED
      BY <2>1, <2>2, <3>1, <3>2, <3>3, <3>4 DEF PacketTyped
<1>10. \A f \in r.ids : InSession(s, fills[f].at) <=> InSession(r, fills[f].at)
  BY <1>1 DEF InSession
<1>11. PacketTold(s)
  <2>1. s.step # "rows"
    BY <1>1
  <2>2. \A f \in s.ids, d \in DOMAIN s.shutdown : Violations(fills[f].entry) # <<>> => s.shutdown[d]
    BY <1>1, <1>7, Zenon
  <2>3. /\ s.slippage = s.ids /\ s.tradeCount <= Cardinality(Trades(s.ids))
        /\ \A d \in Dates : /\ s.counts[d].fills >= Cardinality(Listed(s.ids, d))
                            /\ s.counts[d].violations >= ViolationsIn(Listed(s.ids, d))
        /\ s.fills = s.ids /\ \A f \in s.ids : Day(fills[f].at) \in s.days
    BY <1>1, <1>5
  <2>4. \A f \in s.ids :
            /\ Seen(fills[f].at, s.at)
            /\ Violations(fills[f].entry) # <<>> => fills[f].at \in shutdowns
            /\ InSession(s, fills[f].at) =>
                 f \in DOMAIN s.violations /\ s.violations[f] = Len(Violations(fills[f].entry))
    BY <1>1, <1>5, <1>10
  <2> QED
    BY <2>1, <2>2, <2>3, <2>4 DEF PacketTold
<1> QED
  BY <1>9, <1>11

\* Each query leaves a packet that tells all it did.
LEMMA ContinuePacket ==
  ASSUME TypeOK, RowsInOrder, ReportShape, report.kind = "PACKET", PacketTyped(report),
         PacketTold(report), ContinueReport
  PROVE  PacketTyped(report)' /\ PacketTold(report)'
<1>1. PICK r, s : r = report /\ s = report'
  OBVIOUS
<1>2. r = [x \in PacketFields |-> r[x]] /\ r.step \in AfterRows \cup {"rows"}
  BY <1>1 DEF ReportShape
<1>3. LoadPacketRows \/ LoadFillRows \/ LoadDayShutdown
  BY <1>1, <1>2 DEF ContinueReport, LoadFills, LoadAuditLogs, LoadShutdown, CountAllTrades, CountToday,
     CountClassified, CountDayViolations, Read, AfterRows
<1>4. PacketTyped(s) /\ PacketTold(s)
  <2>1. CASE LoadPacketRows
    BY <1>1, <1>2, <2>1, RowsPacket, ZenonT(40) DEF LoadPacketRows, Read
  <2>2. CASE LoadFillRows
    BY <1>1, <1>2, <2>2, FillsPacket DEF LoadFillRows, Read
  <2>3. CASE LoadDayShutdown
    BY <1>1, <1>2, <2>3, FlagsPacket
  <2> QED
    BY <1>3, <2>1, <2>2, <2>3
<1>5. UNCHANGED <<vars, signoffs>>
  BY ReportsOnlyRead
<1>6. PacketTyped(s)' /\ PacketTold(s)'
  BY <1>4, <1>5, ZenonT(40) DEF vars, PacketTyped, PacketTold, Trades, SessionFills, WithRow, SeenFills,
     Listed, ViolationsIn
<1> QED
  BY <1>1, <1>6

\* Rows that are added change nothing that a packet says of fills it lists, and a session
\* has no fewer trades.
LEMMA GrowPacket ==
  ASSUME TypeOK, TypeOK', Grown, DOMAIN signoffs \subseteq DOMAIN signoffs', NEW r,
         PacketTyped(r), PacketTold(r)
  PROVE  PacketTyped(r)' /\ PacketTold(r)'
<1>1. /\ r.ids \subseteq DOMAIN fills
      /\ \A f \in DOMAIN fills : /\ fills'[f].at = fills[f].at /\ fills'[f].entry = fills[f].entry
                                /\ fills'[f].pilot = fills[f].pilot
  BY DEF PacketTyped, Grown
<1>2. PacketTyped(r)'
  BY DEF PacketTyped, Grown
<1>3. Trades(r.ids)' = Trades(r.ids)
  BY <1>1 DEF Trades
<1>4. \A d : Listed(r.ids, d)' = Listed(r.ids, d) /\ Listed(r.ids, d) \subseteq DOMAIN fills
  BY <1>1 DEF Listed
<1>5. ASSUME NEW d PROVE ViolationsIn(Listed(r.ids, d))' = ViolationsIn(Listed(r.ids, d))
  <2> DEFINE L == Listed(r.ids, d)
  <2>1. L' = L /\ L \subseteq DOMAIN fills
    BY <1>4
  <2> HIDE DEF L
  <2>2. [f \in L |-> Len(Violations(fills[f].entry))]' = [f \in L |-> Len(Violations(fills[f].entry))]
    BY <1>1, <2>1
  <2>3. ViolationsIn(L)' = ViolationsIn(L)
    BY <2>2, Zenon DEF ViolationsIn
  <2> QED
    BY <2>3 DEF L
<1>6. r.tradeCount <= Cardinality(Trades(SessionFills(r.pilot, r.at)))
        => r.tradeCount <= Cardinality(Trades(SessionFills(r.pilot, r.at)))'
  <2> DEFINE T == Trades(SessionFills(r.pilot, r.at))
  <2>1. T \subseteq T' /\ T' \subseteq DOMAIN fills' /\ T \subseteq DOMAIN fills
    BY <1>1 DEF Trades, SessionFills, WithRow, SeenFills, Grown
  <2>2. IsFiniteSet(DOMAIN fills')
    <3>1. DOMAIN fills' = 1 .. Len(fills') /\ Len(fills') \in Nat
      BY DEF TypeOK
    <3> QED
      BY <3>1, FS_Interval
  <2> HIDE DEF T
  <2>3. /\ Cardinality(T) <= Cardinality(T')
        /\ Cardinality(T) \in Nat /\ Cardinality(T') \in Nat
    BY <2>1, <2>2, FS_Subset, FS_CardinalityType
  <2>4. r.tradeCount \in Nat
    BY DEF PacketTyped
  <2> QED
    BY <2>3, <2>4 DEF T
<1>7. PacketTold(r)'
  <2>1. r.step = "rows" => (r.tradeCount <= Cardinality(Trades(SessionFills(r.pilot, r.at))))'
    BY <1>6 DEF PacketTold
  <2>2. r.step \in AfterRows =>
          /\ r.slippage = r.ids /\ (r.tradeCount <= Cardinality(Trades(r.ids)))'
          /\ \A d \in Dates : /\ (r.counts[d].fills >= Cardinality(Listed(r.ids, d)))'
                              /\ (r.counts[d].violations >= ViolationsIn(Listed(r.ids, d)))'
    BY <1>3, <1>4, <1>5 DEF PacketTold
  <2>3. r.step \in AfterRows =>
          \A f \in r.ids :
            /\ Seen(fills'[f].at, r.at)
            /\ Violations(fills'[f].entry) # <<>> => fills'[f].at \in shutdowns'
            /\ InSession(r, fills'[f].at) =>
                 f \in DOMAIN r.violations /\ r.violations[f] = Len(Violations(fills'[f].entry))
    BY <1>1 DEF PacketTold, Grown
  <2>4. r.step \in AfterFillRows => r.fills = r.ids /\ \A f \in r.ids : Day(fills'[f].at) \in r.days
    BY <1>1 DEF PacketTold
  <2>5. \A f \in r.ids, d \in DOMAIN r.shutdown :
          Violations(fills'[f].entry) # <<>> => r.shutdown[d]
    BY <1>1 DEF PacketTold
  <2> QED
    BY <2>1, <2>2, <2>3, <2>4, <2>5 DEF PacketTold
<1> QED
  BY <1>2, <1>7

\* There is no report at first.
LEMMA NothingTold == ReportsInit => PacketInv
<1> SUFFICES ASSUME ReportsInit PROVE PacketInv
  OBVIOUS
<1>1. report.kind = "NONE" /\ signoffs = <<>>
  BY DEF ReportsInit, NoReport
<1>2. SignoffType
  BY <1>1 DEF SignoffType
<1> QED
  BY <1>1, <1>2, NothingHidden DEF PacketInv, Dashboards

\* A signoff is added at the end.
LEMMA SignoffsGrow ==
  ASSUME SignoffType, TypeOK, [ReportsNext]_reportVars
  PROVE  SignoffType' /\ DOMAIN signoffs \subseteq DOMAIN signoffs'
<1>1. CASE signoffs' = signoffs
  BY <1>1 DEF SignoffType
<1>2. CASE \E p \in Pilots, at \in Stamps : RecordSignoff(p, at)
  <2>1. PICK p \in Pilots, at \in Stamp : signoffs' = Append(signoffs, [pilot |-> p, at |-> at])
    BY <1>2 DEF RecordSignoff, Stamps
  <2> DEFINE R == [pilot : Pilots, at : Stamp]
             row == [pilot |-> p, at |-> at]
  <2>2. row \in R
    OBVIOUS
  <2> HIDE DEF R, row
  <2>3. signoffs \in Seq(R) /\ signoffs' = Append(signoffs, row)
    BY <2>1 DEF SignoffType, R, row
  <2>4. signoffs' \in Seq(R) /\ DOMAIN signoffs \subseteq DOMAIN signoffs'
    BY <2>2, <2>3
  <2> QED
    BY <2>4 DEF SignoffType, R
<1> QED
  BY <1>1, <1>2, ReportsOnlyRead DEF ReportsNext, reportVars, Write

\* No step of a report or a command makes a report say what was not.
LEMMA PacketsKeep == PacketInv /\ [ReportsNext]_reportVars => PacketInv'
<1> SUFFICES ASSUME PacketInv, [ReportsNext]_reportVars PROVE PacketInv'
  OBVIOUS
<1>1. CountInv /\ CountInv' /\ TypeOK /\ TypeOK' /\ RowsInOrder /\ ReportShape
  BY CountsKeep DEF PacketInv, CountInv
<1>2. SignoffType' /\ DOMAIN signoffs \subseteq DOMAIN signoffs'
  BY <1>1, SignoffsGrow DEF PacketInv
<1>3. Grown
  <2>1. [Next]_vars
    BY ReportsOnlyRead DEF ReportsNext, reportVars, Write, RecordSignoff
  <2> QED
    BY <2>1, CommandsGrow DEF PacketInv, CountInv
<1>4. PICK r : r = report
  OBVIOUS
<1>5. /\ r.kind \in Dashboards => DashboardTyped(r)
      /\ r.kind = "PACKET" => PacketTyped(r)' /\ PacketTold(r)'
  BY <1>1, <1>2, <1>3, <1>4, GrowPacket DEF PacketInv
<1>6. /\ report'.kind \in Dashboards => DashboardTyped(report)'
      /\ report'.kind = "PACKET" => PacketTyped(report)' /\ PacketTold(report)'
  <2>1. CASE report' = r
    BY <1>5, <2>1 DEF DashboardTyped
  <2>2. CASE report' = NoReport
    BY <2>2 DEF NoReport, Dashboards
  <2>3. CASE BeginReport
    BY <1>1, <2>3, BeginTyped, BeginPacket
  <2>4. CASE ContinueReport
    <3>1. report'.kind = report.kind /\ report.kind # "NONE"
      BY <1>1, <2>4, ContinueShape DEF ReportShape, ContinueReport, LoadFills, LoadAuditLogs, LoadShutdown,
         CountAllTrades, CountToday, CountClassified, CountDayViolations, LoadPacketRows, LoadFillRows,
         LoadDayShutdown, Read
    <3> QED
      BY <1>1, <2>4, <3>1, ContinueTyped, ContinuePacket DEF PacketInv
  <2>5. CASE Write
    BY <1>1, <1>4, <2>1, <2>2, <2>5, WriteReports DEF CountInv
  <2> QED
    BY <1>4, <2>1, <2>3, <2>4, <2>5 DEF ReportsNext, reportVars
<1> QED
  BY <1>1, <1>2, <1>6 DEF PacketInv

\* What a report holds are dates, counts and fills that exist.
THEOREM ReportTypes == ReportsSpec => []ReportTypeOK
<1>1. PacketInv => ReportTypeOK
  <2> SUFFICES ASSUME PacketInv PROVE ReportTypeOK
    OBVIOUS
  <2>1. touched \in BOOLEAN
    BY DEF PacketInv, CountInv
  <2>2. ASSUME report.kind \in Dashboards PROVE DashboardTyped(report)
    BY <2>2 DEF PacketInv
  <2>3. ASSUME report.kind = "PACKET" PROVE PacketTyped(report)
    BY <2>3 DEF PacketInv
  <2> QED
    BY <2>1, <2>2, <2>3 DEF ReportTypeOK, DashboardTyped, PacketTyped
<1> QED
  BY <1>1, NothingTold, PacketsKeep, PTL DEF ReportsSpec

\* The packet lists a fill with its slippage, its violations, and a snapshot of its day
\* that counts it and shows the shutdown it asked for, whatever is written meanwhile.
THEOREM PacketsCohere == ReportsSpec => []PacketCoherent
<1>1. PacketInv => PacketCoherent
  <2> SUFFICES ASSUME PacketInv, Done({"PACKET"}) PROVE PacketCoherent
    BY DEF PacketCoherent
  <2>1. PICK r : r = report
    OBVIOUS
  <2>2. PacketTyped(r) /\ PacketTold(r) /\ r.step = "done" /\ TypeOK
    BY <2>1 DEF PacketInv, Done, CountInv
  <2>3. /\ r.fills = r.ids /\ r.slippage = r.ids /\ r.ids \subseteq DOMAIN fills
        /\ r.tradeCount <= Cardinality(Trades(r.ids)) /\ DOMAIN r.shutdown = r.days
        /\ \A f \in r.ids : Day(fills[f].at) \in r.days
        /\ \A f \in r.ids, d \in DOMAIN r.shutdown :
             Violations(fills[f].entry) # <<>> => r.shutdown[d]
        /\ \A f \in r.ids : InSession(r, fills[f].at) =>
             f \in DOMAIN r.violations /\ r.violations[f] = Len(Violations(fills[f].entry))
        /\ \A d \in Dates : /\ r.counts[d].fills >= Cardinality(Listed(r.ids, d))
                            /\ r.counts[d].violations >= ViolationsIn(Listed(r.ids, d))
        /\ r.days \subseteq Dates
    BY <2>2 DEF PacketTyped, PacketTold, AfterRows, AfterFillRows
  <2>4. ASSUME NEW f \in r.fills
        PROVE  LET n == Len(Violations(fills[f].entry))
                   day == Day(fills[f].at)
                   listed == {g \in r.fills : Day(fills[g].at) = day}
               IN
               /\ InSession(r, fills[f].at) => f \in DOMAIN r.violations /\ r.violations[f] = n
               /\ r.counts[day].fills >= Cardinality(listed)
               /\ r.counts[day].violations >=
                    SumFunction([g \in listed |-> Len(Violations(fills[g].entry))])
               /\ n > 0 => r.shutdown[day]
    <3> DEFINE day == Day(fills[f].at)
               L == Listed(r.ids, day)
    <3>1. day \in Dates /\ day \in DOMAIN r.shutdown
      BY <2>3, <2>4
    <3>2. r.counts[day].fills >= Cardinality(L) /\ r.counts[day].violations >= ViolationsIn(L)
      BY <2>3, <3>1
    <3>3. Len(Violations(fills[f].entry)) > 0 => Violations(fills[f].entry) # <<>>
      OBVIOUS
    <3>4. {g \in r.fills : Day(fills[g].at) = day} = L
      BY <2>3 DEF Listed
    <3> HIDE DEF L, day
    <3> QED
      BY <2>3, <2>4, <3>1, <3>2, <3>3, <3>4, Zenon DEF ViolationsIn, day
  <2> QED
    BY <2>1, <2>3, <2>4, Zenon DEF PacketCoherent, Trades
<1> QED
  BY <1>1, NothingTold, PacketsKeep, PTL DEF ReportsSpec
=============================================================================
