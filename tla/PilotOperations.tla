--------------------------- MODULE PilotOperations ---------------------------
(***************************************************************************)
(* The event-sourced live pilot: live/operations.py, the fill recorder and *)
(* the shutdown flag of live/pilot.py, and the row-at-a-time commits of    *)
(* storage/database.py they are built on.                                  *)
(*                                                                         *)
(* Nothing in the program holds the state of a pilot session.  Each        *)
(* command line is a process of its own (an element of Procs here): it     *)
(* reads the whole audit log, derives the sessions from it, decides, and   *)
(* then inserts rows, each insert committed on its own.  What it derives   *)
(* from the rows, and in which order it reads them, is in PilotSessions.   *)
(*                                                                         *)
(* The audit_log table is kept by kind of row: the session rows in log     *)
(* (their order there is their id order), the rows about a fill with the   *)
(* fill they name, the ACTIVATED rows of the shutdown flag as the set of   *)
(* their timestamps.  Rows that no decision reads (gate decisions, signoff *)
(* rows) are not kept.                                                     *)
(***************************************************************************)
EXTENDS PilotSessions

CONSTANTS
  Versions,     \* config versions
  Procs,        \* command-line processes that may run at the same time
  Entries,      \* the fills the operator may observe (LiveFillEntry)
  StopCodes,    \* the reason codes an operator stops a session with
  \* fields of a session, here the same for all
  ReviewMin,    \* review_min_trades
  ReviewMax,    \* review_max_trades
  ReviewAfter,  \* review_after_days, in ticks
  Clocked,      \* TRUE: --started-at, --stopped-at ... are the moment of the command
  Offsets,      \* the UTC offsets timestamps are written in, in ticks
  MaxLag,       \* how long after the broker's fill it may be typed in, in ticks
  \* bounds of the model
  MaxTime,      \* last tick of the clock
  MaxRows,      \* session rows after which no session command starts
  MaxFills,     \* fills after which no fill command starts
  MaxCrashes    \* processes that may be killed

KillStates == {"GREEN", "YELLOW", "RED", "BLACK"}

\* What an operator reports of one fill; prices play no part in any decision.
LiveFillEntry ==
  [manual : BOOLEAN, quantity : Nat \ {0}, order : {"LIMIT", "MARKET"},
   kill : KillStates, critical : BOOLEAN, risk : BOOLEAN, dryRun : BOOLEAN]

ASSUME ProcsAssumption == IsFiniteSet(Procs)
ASSUME EntriesAssumption == Entries \subseteq LiveFillEntry
ASSUME StopCodesAssumption == StopCodes \subseteq ReasonCodes
\* PilotSessionStartRequest.__post_init__
ASSUME ReviewAssumption ==
  /\ ReviewMin \in Nat \ {0}
  /\ ReviewMax \in Nat /\ ReviewMax >= ReviewMin
  /\ ReviewAfter \in Nat \ {0}
ASSUME ClockAssumption ==
  Clocked \in BOOLEAN /\ Offsets \subseteq Nat /\ MaxLag \in Nat /\ MaxTime \in Nat
ASSUME BoundsAssumption ==
  MaxRows \in Nat /\ MaxFills \in Nat /\ MaxCrashes \in Nat

VARIABLES
  now,        \* wall clock
  log,        \* session rows of audit_log, in id order
  fills,      \* the fills table with the audit rows that name each fill
  shutdowns,  \* created_at of the EMERGENCY_SHUTDOWN_ACTIVATED rows
  pc,         \* where each process is
  pending,    \* the session row a process has decided to insert
  task,       \* the fill a process is recording
  crashes     \* processes killed so far

vars == <<now, log, fills, shutdowns, pc, pending, task, crashes>>

-----------------------------------------------------------------------------
(* Types *)

Times == 0 .. MaxTime
Stamp == [instant : Times, offset : Offsets]
RowKinds == {"STARTED", "STOPPED", "RESUMED", "RESET_REVIEW"}

\* version and due mean something in STARTED rows, reason in STOPPED rows.
Row ==
  [kind : RowKinds, pilot : Pilots, at : Stamp, version : Versions \cup {"NONE"},
   reason : ReasonCodes \cup {"NONE"}, due : Nat]

FillRowKinds ==
  {"LIVE_FILL", "SLIPPAGE", "CLASSIFIED", "SESSION_FILL"}

\* A row of fills; rows are the audit kinds written for it, violations and
\* activations count its RULE_VIOLATION and SHUTDOWN_ACTIVATED rows.
FillRecord ==
  [pilot : Pilots, at : Stamp, entry : Entries, rows : SUBSET FillRowKinds,
   violations : Nat, activations : Nat, mark : Nat]

NoRow == [kind |-> "NONE"]
NoTask == [fill |-> 0]

\* fill is the id of the fill once inserted; mark is a history variable: the
\* number of session rows the gate had read when it let the fill pass.
Task == [pilot : Pilots, at : Stamp, entry : Entries, fill : Nat, mark : Nat]

FillSteps ==
  {"insert", "liveFill", "slippage", "violation", "shutdown", "classify",
   "sessionFill", "stop"}
PCs == {"idle", "commit"} \cup FillSteps

-----------------------------------------------------------------------------
\* trade_count: SESSION_FILL_RECORDED rows that are not dry runs, of any age.
CountedFills(p) ==
  {f \in DOMAIN fills : /\ fills[f].pilot = p
                        /\ "SESSION_FILL" \in fills[f].rows
                        /\ ~fills[f].entry.dryRun}
TradeCount(p) == Cardinality(CountedFills(p))

-----------------------------------------------------------------------------
(* Decisions *)

\* require_active_pilot_session: what the gate answers to a check for pilot p.
\* The conditions are tried in this order.
TheActive(l) == CHOOSE p \in ActiveSessions(l) : TRUE

\* [fault] the review point is passed instead of reached
NeedsReview_Late(p, due, at) == at.instant >= due \/ TradeCount(p) > ReviewMin

NeedsReview(p, due, at) == at.instant >= due \/ TradeCount(p) >= ReviewMin

GateReason(p, version, at) ==
  LET active == ActiveSessions(log)
      s == TheActive(log)
      start == log[StartRow(log, s)]
  IN IF active = {} THEN "NO_ACTIVE_SESSION"
     ELSE IF Cardinality(active) > 1 THEN "MULTIPLE_ACTIVE_SESSIONS"
     ELSE IF p # AnyPilot /\ s # p THEN "PILOT_SESSION_NOT_FOUND"
     ELSE IF start.version # version THEN "CONFIG_VERSION_MISMATCH"
     ELSE IF ~NeedsReview(s, start.due, at) THEN "PILOT_SESSION_ACTIVE"
     ELSE IF TradeCount(s) >= ReviewMax THEN "PILOT_TRADE_LIMIT_REACHED"
     ELSE "REVIEW_REQUIRED"

\* _violations_for_live_fill: the violation codes of a fill, in order.
Violations(e) ==
  (IF e.manual THEN <<>> ELSE <<"MANUAL_EXECUTION_ONLY">>)
  \o (IF e.quantity = 1 THEN <<>> ELSE <<"ONE_LOT_ONLY", "SIZE_INCREASE_FORBIDDEN">>)
  \o (IF e.order = "LIMIT" THEN <<>> ELSE <<"MARKET_ORDERS_FORBIDDEN">>)
  \o (IF e.kill \in {"RED", "BLACK"} THEN <<"RED_BLACK_OVERRIDE_FORBIDDEN">> ELSE <<>>)
  \o (IF e.critical THEN <<"CRITICAL_SYSTEM_ERROR">> ELSE <<>>)
  \o (IF e.risk THEN <<"RISK_RULE_VIOLATION">> ELSE <<>>)

\* _stop_reasons_for_fill: the first violation that stops the session, if any.
StopReason(e) ==
  IF e.kill \in {"RED", "BLACK"} THEN "RED_BLACK_STATE"
  ELSE IF e.critical THEN "CRITICAL_SYSTEM_ERROR"
  ELSE IF e.risk THEN "RISK_RULE_VIOLATION"
  ELSE "NONE"

StopsSession(e) == StopReason(e) # "NONE"

-----------------------------------------------------------------------------
(* The session commands.  Each reads the log and decides in one step and   *)
(* inserts its row in a later one; a command that raises changes nothing.  *)

\* The timestamps an operator may put on a session row, and on a fill.
Stamps == {t \in Stamp : Clocked => t.instant = now}
FillStamps == {t \in Stamp : t.instant <= now /\ now - t.instant <= MaxLag}

MkRow(kind, p, at) ==
  [kind |-> kind, pilot |-> p, at |-> at, version |-> "NONE", reason |-> "NONE", due |-> 0]

Decide(q, row) ==
  /\ pc' = [pc EXCEPT ![q] = "commit"]
  /\ pending' = [pending EXCEPT ![q] = row]
  /\ UNCHANGED <<now, log, fills, shutdowns, task, crashes>>

\* [fault] the check for another active session is gone
Start_Unchecked(q, p, v, at) ==
  /\ pc[q] = "idle" /\ Len(log) < MaxRows
  /\ Decide(q, [MkRow("STARTED", p, at) EXCEPT !.version = v, !.due = at.instant + ReviewAfter])

\* start_pilot_session: refused only while some session is active; whether the
\* id was used before is not looked at.
Start(q, p, v, at) ==
  /\ pc[q] = "idle" /\ Len(log) < MaxRows
  /\ ActiveSessions(log) = {}
  /\ Decide(q, [MkRow("STARTED", p, at) EXCEPT !.version = v, !.due = at.instant + ReviewAfter])

\* stop_pilot_session, from pilot-stop
Stop(q, p, at, reason) ==
  /\ pc[q] = "idle" /\ Len(log) < MaxRows
  /\ Active(log, p)
  /\ Decide(q, [MkRow("STOPPED", p, at) EXCEPT !.reason = reason])

\* resume_pilot_session
Resume(q, p, at) ==
  /\ pc[q] = "idle" /\ Len(log) < MaxRows
  /\ Exists(log, p) /\ ~Active(log, p)
  /\ ActiveSessions(log) = {}
  /\ MayResume(log, p)
  /\ Decide(q, MkRow("RESUMED", p, at))

\* record_pilot_reset_review reads nothing, not even whether the pilot exists.
ResetReview(q, p, at) ==
  /\ pc[q] = "idle" /\ Len(log) < MaxRows
  /\ log' = Append(log, MkRow("RESET_REVIEW", p, at))
  /\ UNCHANGED <<now, fills, shutdowns, pc, pending, task, crashes>>

\* record_audit_event of the row decided on; the command is then over.
CommitRow(q) ==
  /\ pc[q] = "commit"
  /\ log' = Append(log, pending[q])
  /\ pc' = [pc EXCEPT ![q] = "idle"]
  /\ pending' = [pending EXCEPT ![q] = NoRow]
  /\ task' = [task EXCEPT ![q] = NoTask]
  /\ UNCHANGED <<now, fills, shutdowns, crashes>>

-----------------------------------------------------------------------------
(* pilot-live-fill: record_live_fill_for_active_session and, called from   *)
(* it, record_live_fill, record_rule_violation and stop_pilot_session.     *)

GoTo(q, step) == pc' = [pc EXCEPT ![q] = step]

\* The gate passes; the session it found is the one the fill is booked on.
FillGate(q, p, v, at, e) ==
  /\ pc[q] = "idle" /\ Len(fills) < MaxFills
  /\ GateReason(p, v, at) = "PILOT_SESSION_ACTIVE"
  /\ GoTo(q, "insert")
  /\ task' = [task EXCEPT ![q] =
       [pilot |-> TheActive(log), at |-> at, entry |-> e, fill |-> 0, mark |-> Len(log)]]
  /\ UNCHANGED <<now, log, fills, shutdowns, pending, crashes>>

\* [fault] the rows that follow name the fill before this one
InsertFill_OffByOne(q) ==
  /\ pc[q] = "insert"
  /\ fills' = Append(fills,
       [pilot |-> task[q].pilot, at |-> task[q].at, entry |-> task[q].entry, rows |-> {},
        violations |-> 0, activations |-> 0, mark |-> task[q].mark])
  /\ task' = [task EXCEPT ![q].fill = Len(fills)]
  /\ GoTo(q, "liveFill")
  /\ UNCHANGED <<now, log, shutdowns, pending, crashes>>

\* insert_fill
InsertFill(q) ==
  /\ pc[q] = "insert"
  /\ fills' = Append(fills,
       [pilot |-> task[q].pilot, at |-> task[q].at, entry |-> task[q].entry, rows |-> {},
        violations |-> 0, activations |-> 0, mark |-> task[q].mark])
  /\ task' = [task EXCEPT ![q].fill = Len(fills) + 1]
  /\ GoTo(q, "liveFill")
  /\ UNCHANGED <<now, log, shutdowns, pending, crashes>>

\* insert_fill raises when the ticket or position named is not in the database: the
\* foreign keys are enforced, and nothing but the gate's own row was written.
RejectFill(q) ==
  /\ pc[q] = "insert"
  /\ GoTo(q, "idle")
  /\ task' = [task EXCEPT ![q] = NoTask]
  /\ UNCHANGED <<now, log, fills, shutdowns, pending, crashes>>

\* One audit row about the fill, then on to the next step.
WriteFillRow(q, kind) ==
  /\ fills' = [fills EXCEPT ![task[q].fill].rows = @ \cup {kind}]
  /\ UNCHANGED <<now, log, shutdowns, pending, task, crashes>>

\* LIVE_FILL_RECORDED
RecordLiveFill(q) ==
  /\ pc[q] = "liveFill"
  /\ GoTo(q, "slippage")
  /\ WriteFillRow(q, "LIVE_FILL")

\* [fault] the loop leaves out the last violation
NextViolation_OneShort(e, n) == IF n + 1 < Len(Violations(e)) THEN "violation" ELSE "classify"

\* Where the loop over the violations goes after n of them.
NextViolation(e, n) == IF n < Len(Violations(e)) THEN "violation" ELSE "classify"

\* LIVE_FILL_SLIPPAGE_RECORDED
RecordSlippage(q) ==
  /\ pc[q] = "slippage"
  /\ GoTo(q, NextViolation(task[q].entry, 0))
  /\ WriteFillRow(q, "SLIPPAGE")

\* record_rule_violation, first row: LIVE_PILOT_RULE_VIOLATION
RecordViolation(q) ==
  /\ pc[q] = "violation"
  /\ fills' = [fills EXCEPT ![task[q].fill].violations = @ + 1]
  /\ GoTo(q, "shutdown")
  /\ UNCHANGED <<now, log, shutdowns, pending, task, crashes>>

\* record_rule_violation, second row: stop_pilot is always true here
RecordShutdown(q) ==
  /\ pc[q] = "shutdown"
  /\ shutdowns' = shutdowns \cup {task[q].at}
  /\ fills' = [fills EXCEPT ![task[q].fill].activations = @ + 1]
  /\ GoTo(q, NextViolation(task[q].entry, fills[task[q].fill].violations))
  /\ UNCHANGED <<now, log, pending, task, crashes>>

\* LIVE_FILL_CLASSIFIED
Classify(q) ==
  /\ pc[q] = "classify"
  /\ GoTo(q, "sessionFill")
  /\ WriteFillRow(q, "CLASSIFIED")

\* [fault] the stop reasons of the fill are not looked at
RecordSessionFill_NeverStops(q) ==
  /\ pc[q] = "sessionFill"
  /\ fills' = [fills EXCEPT ![task[q].fill].rows = @ \cup {"SESSION_FILL"}]
  /\ GoTo(q, "idle") /\ task' = [task EXCEPT ![q] = NoTask]
  /\ UNCHANGED <<now, log, shutdowns, pending, crashes>>

\* LIVE_PILOT_SESSION_FILL_RECORDED; without a stop reason the command is over.
RecordSessionFill(q) ==
  /\ pc[q] = "sessionFill"
  /\ fills' = [fills EXCEPT ![task[q].fill].rows = @ \cup {"SESSION_FILL"}]
  /\ IF StopsSession(task[q].entry)
     THEN GoTo(q, "stop") /\ UNCHANGED task
     ELSE GoTo(q, "idle") /\ task' = [task EXCEPT ![q] = NoTask]
  /\ UNCHANGED <<now, log, shutdowns, pending, crashes>>

\* [fault] the stop is decided on and then not inserted
StopAfterFill_Forgotten(q) ==
  /\ pc[q] = "stop"
  /\ GoTo(q, "idle") /\ task' = [task EXCEPT ![q] = NoTask]
  /\ UNCHANGED <<now, log, fills, shutdowns, pending, crashes>>

\* stop_pilot_session called with filled_at: it reads the sessions again, and
\* raises when the session is no longer active.
StopAfterFill(q) ==
  /\ pc[q] = "stop"
  /\ IF Active(log, task[q].pilot)
     THEN /\ GoTo(q, "commit")
          /\ pending' = [pending EXCEPT ![q] =
               [MkRow("STOPPED", task[q].pilot, task[q].at)
                  EXCEPT !.reason = StopReason(task[q].entry)]]
          /\ UNCHANGED task
     ELSE /\ GoTo(q, "idle")
          /\ task' = [task EXCEPT ![q] = NoTask]
          /\ UNCHANGED pending
  /\ UNCHANGED <<now, log, fills, shutdowns, crashes>>

-----------------------------------------------------------------------------
(* The environment *)

\* The process is killed between two commits; what it committed stays.
Crash(q) ==
  /\ pc[q] # "idle" /\ crashes < MaxCrashes
  /\ crashes' = crashes + 1
  /\ pc' = [pc EXCEPT ![q] = "idle"]
  /\ pending' = [pending EXCEPT ![q] = NoRow]
  /\ task' = [task EXCEPT ![q] = NoTask]
  /\ UNCHANGED <<now, log, fills, shutdowns>>

\* Operators who type any timestamp need no clock.
Tick ==
  /\ Clocked /\ now < MaxTime
  /\ now' = now + 1
  /\ UNCHANGED <<log, fills, shutdowns, pc, pending, task, crashes>>

Init ==
  /\ now = 0
  /\ log = <<>> /\ fills = <<>> /\ shutdowns = {}
  /\ pc = [q \in Procs |-> "idle"]
  /\ pending = [q \in Procs |-> NoRow]
  /\ task = [q \in Procs |-> NoTask]
  /\ crashes = 0

\* What a process does once it has been started.
Continue(q) ==
  \/ CommitRow(q)
  \/ InsertFill(q)
  \/ RejectFill(q)
  \/ RecordLiveFill(q)
  \/ RecordSlippage(q)
  \/ RecordViolation(q)
  \/ RecordShutdown(q)
  \/ Classify(q)
  \/ RecordSessionFill(q)
  \/ StopAfterFill(q)

Command(q) ==
  \/ \E p \in Pilots, v \in Versions, at \in Stamps : Start(q, p, v, at)
  \/ \E p \in Pilots, at \in Stamps, reason \in StopCodes : Stop(q, p, at, reason)
  \/ \E p \in Pilots, at \in Stamps : Resume(q, p, at)
  \/ \E p \in Pilots, at \in Stamps : ResetReview(q, p, at)
  \/ \E p \in Pilots \cup {AnyPilot}, v \in Versions, at \in FillStamps, e \in Entries :
       FillGate(q, p, v, at, e)

Next ==
  \/ \E q \in Procs : Continue(q) \/ Command(q) \/ Crash(q)
  \/ Tick

Spec == Init /\ [][Next]_vars

\* A started process is eventually scheduled until it exits: the operating
\* system runs it, and no step of it waits for another.
FairSpec == Spec /\ \A q \in Procs : WF_vars(Continue(q))

-----------------------------------------------------------------------------
(* Properties *)

\* A process about to insert a row has decided on one; a process recording a fill
\* holds it, and once the fill is inserted it names a row of the fills table.
StepsOK ==
  \A q \in Procs :
    /\ pc[q] = "commit" => pending[q] \in Row
    /\ pc[q] \in FillSteps => task[q] \in Task
    /\ pc[q] \in FillSteps \ {"insert"} => task[q].fill \in DOMAIN fills

\* Every variable stays within its type, and the processes hold what they need.
TypeOK ==
  /\ now \in Times
  /\ log \in Seq(Row)
  /\ fills \in Seq(FillRecord)
  /\ shutdowns \subseteq Stamp
  /\ pc \in [Procs -> PCs]
  /\ pending \in [Procs -> Row \cup {NoRow}]
  /\ task \in [Procs -> Task \cup {NoTask}]
  /\ crashes \in 0 .. MaxCrashes
  /\ StepsOK

\* The check "no other session is active" and the insert that relies on it are
\* two steps, and a row may be inserted under any timestamp; still there are
\* never more active sessions than commands running at the same time.  With one
\* command at a time this is the runbook's "exactly one active pilot session".
ActiveSessionsBounded == Cardinality(ActiveSessions(log)) <= Cardinality(Procs)

\* A fill is being recorded: some process still holds it.
InFlight(f) == \E q \in Procs : task[q].fill = f

\* The fills that count towards the review, counted where they are stored and
\* not where the gate counts them.
TradesOf(p) == {f \in DOMAIN fills : fills[f].pilot = p /\ ~fills[f].entry.dryRun}

\* The gate reads the trade count long before the fill it lets pass is counted:
\* commands that run together all see the old count, and a command killed before
\* SESSION_FILL_RECORDED leaves a trade that is never counted.  The review point is
\* overrun by at most one trade per other running command and one per kill.
TradeOverrunBounded ==
  \A p \in Pilots :
    Cardinality(TradesOf(p)) <= ReviewMin - 1 + Cardinality(Procs) + crashes

\* What record_live_fill_for_active_session writes for a fill it finishes.
Complete(f) ==
  LET n == Len(Violations(fills[f].entry)) IN
  /\ fills[f].rows = FillRowKinds
  /\ fills[f].violations = n /\ fills[f].activations = n
  /\ n > 0 => fills[f].at \in shutdowns

TornFills == {f \in DOMAIN fills : ~Complete(f) /\ ~InFlight(f)}

\* The rows about a fill are separate commits: a kill between two of them leaves a
\* fill that is not classified, not counted, or whose violation has no shutdown row.
\* Nothing else does, whatever the other commands do meanwhile.
OneTornFillPerCrash == Cardinality(TornFills) <= crashes

\* The session of fill f was stopped after the gate let f pass.
StoppedSince(f) ==
  \E i \in RowsOf(log, fills[f].pilot, {"STOPPED"}) : i > fills[f].mark

MissedStops ==
  {f \in DOMAIN fills :
     StopsSession(fills[f].entry) /\ ~StoppedSince(f) /\ ~InFlight(f)}

\* A fill with a hard violation leaves a STOPPED row of its session behind that was
\* inserted after its gate check, although the stop reads the sessions again and
\* raises when another command stopped the session first.  Only a kill loses it.
HardFillLeavesStopRow == Cardinality(MissedStops) <= crashes

HardStops(p) == {i \in RowsOf(log, p, {"STOPPED"}) : log[i].reason \in HardCodes}

\* A session with a hard stop row is active again only after a reset review that is
\* no older than the stop, or when it was started again after it.
HardStopNeedsReviewOrRestart ==
  \A p \in Pilots : \A i \in HardStops(p) :
    Active(log, p) =>
      \/ ReviewedSince(log, p, log[i].at)
      \/ \E j \in RowsOf(log, p, {"STARTED"}) : j > i

\* operations.py:457, "Stop a pilot session with an explicit audit reason": while no
\* other command runs, a session whose last row inserted is a stop is not active.
StopTakesEffect ==
  \A p \in Pilots : \A i \in RowsOf(log, p, {"STOPPED"}) :
    (\A j \in RowsOf(log, p, Lifecycle) : j <= i) => ~Active(log, p)

\* docs/live_pilot_runbook.md:59, "Do Not Continue If [...] A stop event exists and
\* reset review has not been recorded": read as a promise of the gate, no fill is
\* let pass on a session with a hard stop that was never reviewed.
HardStopNeedsReview ==
  \A p \in Pilots : \A i \in HardStops(p) :
    Active(log, p) => ReviewedSince(log, p, log[i].at)

\* A hard violation that has been recorded is followed by a stop of its session, as
\* long as nobody kills the command.
HardFillEventuallyStops ==
  \A f \in 1 .. MaxFills + Cardinality(Procs) :
    (f \in DOMAIN fills /\ StopsSession(fills[f].entry))
      ~> (f \in DOMAIN fills /\ StoppedSince(f))
=============================================================================
