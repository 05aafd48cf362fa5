----------------------------- MODULE ReleaseGate -----------------------------
(***************************************************************************)
(* The release gate of live/release_gate.py and what it reads: two files   *)
(* on disk (the readiness report and the evidence packet) and, each in a   *)
(* query of its own, the audit log and the risk snapshots as of the moment *)
(* the report is generated at.  Commands of other processes insert rows    *)
(* between any two of those reads, and a row may be inserted under an      *)
(* earlier timestamp than the moment of its insertion.                     *)
(***************************************************************************)
EXTENDS PilotSessions

CONSTANTS
  Versions,     \* config versions
  Offsets,      \* the UTC offsets timestamps are written in, in ticks
  MaxAge,       \* max_evidence_age_days, in ticks
  MaxLag,       \* how long after the broker's fill it may be typed in, in ticks
  \* what the runs choose from, and the bounds of the model
  FlagChoices,  \* the assertions the operator may make (Flags)
  Rehearsals,   \* the verdicts a readiness dry run may have
  HardChoices,  \* whether a violation is one that stops the session
  MaxTime,      \* last tick of the clock
  MaxRows,      \* audit rows and risk snapshots after which no command starts
  MaxBreaches,  \* violation rows after which no fill that breaks a rule starts
  MaxReports    \* gate reports

ASSUME GateAssumption ==
  /\ Offsets \subseteq Nat /\ MaxAge \in Nat /\ MaxLag \in Nat /\ MaxTime \in Nat
  /\ FlagChoices \subseteq [asserted : BOOLEAN, acknowledged : BOOLEAN]
  /\ Rehearsals \subseteq BOOLEAN /\ HardChoices \subseteq BOOLEAN
  /\ MaxRows \in Nat /\ MaxBreaches \in Nat /\ MaxReports \in Nat

VARIABLES
  now,        \* wall clock
  log,        \* audit rows the gate reads, in id order
  snapshots,  \* risk_snapshots, in id order
  readiness,  \* the readiness report on disk
  evidence,   \* the evidence packet on disk
  owed,       \* rows a running fill command has still to insert
  gate,       \* the running release gate
  reports     \* the reports it has written

vars == <<now, log, snapshots, readiness, evidence, owed, gate, reports>>

-----------------------------------------------------------------------------
(* Types *)

Times == 0 .. MaxTime
Stamp == [instant : Times, offset : Offsets]

SessionKinds == {"STARTED", "STOPPED", "RESUMED", "RESET_REVIEW"}
RowKinds == SessionKinds \cup
  {"LOCKED", "UNLOCKED", "ACTIVATED", "CLEARED", "VIOLATION", "VERIFIED", "UNVERIFIED"}

Row ==
  [kind : RowKinds, pilot : Pilots \cup {AnyPilot}, at : Stamp,
   version : Versions \cup {"NONE"}, reason : ReasonCodes \cup {"NONE"}]

Snapshot == [at : Stamp, version : Versions, positive : BOOLEAN]

NoFile == [kind |-> "NONE"]
Readiness == [ready : BOOLEAN, at : Stamp, version : Versions]
Evidence == [active : BOOLEAN, at : Stamp, pilot : Pilots, version : Versions]

\* The operator's own assertions: --full-test-suite-passed and the two about equity
\* and positions as one flag, --runbook-acknowledged as the other.
Flags == [asserted : BOOLEAN, acknowledged : BOOLEAN]

GateSteps ==
  {"evidence", "lock", "shutdown", "violations", "session", "equity", "positions", "report"}
Results == {"GO", "NO_GO", "REVIEW_REQUIRED"}

NoGate == [step |-> "idle"]

\* failed: some check so far has failed.  mark and seen are history variables: the rows
\* and snapshots there were when it began.
Gate ==
  [step : GateSteps, at : Stamp, flags : Flags, readiness : Readiness \cup {NoFile},
   evidence : Evidence \cup {NoFile}, failed : BOOLEAN, mark : Nat, seen : Nat]

Report ==
  [at : Stamp, flags : Flags, readiness : Readiness \cup {NoFile},
   evidence : Evidence \cup {NoFile}, result : Results, mark : Nat, seen : Nat]

-----------------------------------------------------------------------------
(* The checks of a gate that generates its report at g; l and s are the     *)
(* rows its queries see, those created at or before g.                     *)

\* ORDER BY created_at DESC, id DESC LIMIT 1
Latest(l, S) == CHOOSE i \in S : IsLast(l, i, S)
OfKinds(l, kinds) == {i \in DOMAIN l : l[i].kind \in kinds}

\* generated_at - t, between no time and max_evidence_age_days
Current(g, t) == g.instant >= t.instant /\ g.instant - t.instant <= MaxAge

ReadinessPasses(r, g) == r # NoFile /\ r.ready /\ Current(g, r.at)
EvidencePasses(e, g) == e # NoFile /\ e.active /\ Current(g, e.at)

\* _readiness_evidence_checks
Coupled(r, e) ==
  r # NoFile /\ e # NoFile => r.version = e.version /\ r.at.instant <= e.at.instant

SameVersion(v, e) == e # NoFile => v = e.version

\* _config_lock_check
LockPasses(l, e, g) ==
  LET S == OfKinds(l, {"LOCKED", "UNLOCKED"})
      row == l[Latest(l, S)]
  IN /\ S # {}
     /\ row.kind = "LOCKED" /\ row.at.instant <= g.instant
     /\ SameVersion(row.version, e)

\* _emergency_shutdown_check
ShutdownPasses(l) ==
  LET S == OfKinds(l, {"ACTIVATED", "CLEARED"})
  IN S = {} \/ l[Latest(l, S)].kind = "CLEARED"

\* [fault] a cleared shutdown settles the violations before it
ViolationsPass_Settled(l) == ShutdownPasses(l) \/ OfKinds(l, {"VIOLATION"}) = {}

\* _rule_violation_check: nothing settles a violation.
ViolationsPass(l) == OfKinds(l, {"VIOLATION"}) = {}

\* _pilot_session_check
SessionPasses(l, e) ==
  LET active == ActiveSessions(l)
  IN /\ Cardinality(active) = 1
     /\ e # NoFile => e.pilot \in active /\ l[StartRow(l, e.pilot)].version = e.version

\* _account_equity_check; as_of and created_at of a snapshot are the same here.  The
\* age of the snapshot is not looked at.
EquityPasses(s, e, g) ==
  LET snapshot == s[Latest(s, DOMAIN s)]
  IN /\ DOMAIN s # {}
     /\ snapshot.at.instant <= g.instant
     /\ SameVersion(snapshot.version, e)
     /\ snapshot.positive

\* _position_reconciliation_check
PositionsPass(l, e, g) ==
  LET S == OfKinds(l, {"VERIFIED", "UNVERIFIED"})
      row == l[Latest(l, S)]
  IN /\ S # {}
     /\ row.kind = "VERIFIED" /\ Current(g, row.at)
     /\ SameVersion(row.version, e)
     /\ e # NoFile => row.at.instant <= e.at.instant

\* _overall_status: a failed check outweighs a missing acknowledgement.
Overall(failed, flags) ==
  IF failed THEN "NO_GO"
  ELSE IF ~flags.acknowledged THEN "REVIEW_REQUIRED" ELSE "GO"

-----------------------------------------------------------------------------
(* The gate, one read after the other *)

Stamps == {t \in Stamp : t.instant = now}

\* It takes its timestamp and reads the first file.
Begin(g, flags) ==
  /\ gate = NoGate /\ Len(reports) < MaxReports
  /\ gate' = [step |-> "evidence", at |-> g, flags |-> flags, readiness |-> readiness,
              evidence |-> NoFile, mark |-> Len(log), seen |-> Len(snapshots),
              failed |-> ~(flags.asserted /\ ReadinessPasses(readiness, g))]
  /\ UNCHANGED <<now, log, snapshots, readiness, evidence, owed, reports>>

ReadEvidence ==
  /\ gate.step = "evidence"
  /\ gate' = [gate EXCEPT !.step = "lock", !.evidence = evidence,
       !.failed = @ \/ ~(EvidencePasses(evidence, gate.at) /\ Coupled(gate.readiness, evidence))]
  /\ UNCHANGED <<now, log, snapshots, readiness, evidence, owed, reports>>

\* One query and its check, then the next step.
Check(step, passes, next) ==
  /\ gate.step = step
  /\ gate' = [gate EXCEPT !.step = next, !.failed = @ \/ ~passes]
  /\ UNCHANGED <<now, log, snapshots, readiness, evidence, owed, reports>>

\* _database_checks, in this order
QueryDatabase ==
  LET l == AsOf(log, gate.at)
      e == gate.evidence
  IN \/ Check("lock", LockPasses(l, e, gate.at), "shutdown")
     \/ Check("shutdown", ShutdownPasses(l), "violations")
     \/ Check("violations", ViolationsPass(l), "session")
     \/ Check("session", SessionPasses(l, e), "equity")
     \/ Check("equity", EquityPasses(AsOf(snapshots, gate.at), e, gate.at), "positions")
     \/ Check("positions", PositionsPass(l, e, gate.at), "report")

\* The report is written to disk; the row of it in the audit log is read by no one.
WriteReport ==
  /\ gate.step = "report"
  /\ reports' = Append(reports,
       [at |-> gate.at, flags |-> gate.flags, readiness |-> gate.readiness,
        evidence |-> gate.evidence, mark |-> gate.mark, seen |-> gate.seen,
        result |-> Overall(gate.failed, gate.flags)])
  /\ gate' = NoGate
  /\ UNCHANGED <<now, log, snapshots, readiness, evidence, owed>>

-----------------------------------------------------------------------------
(* The other commands.  Each decides and inserts its row in one step here; *)
(* what their overlap does to the sessions is PilotOperations' subject.    *)

MkRow(kind, p, at, v) ==
  [kind |-> kind, pilot |-> p, at |-> at, version |-> v, reason |-> "NONE"]

\* Bounds the model, not the code.
MayStart == Len(log) + Len(snapshots) < MaxRows

Insert(row) ==
  /\ MayStart
  /\ log' = Append(log, row)
  /\ UNCHANGED <<now, snapshots, readiness, evidence, owed, gate, reports>>

\* ConfigLock.to_audit_event, locked or not
LockConfig(t, v) == Insert(MkRow("LOCKED", AnyPilot, t, v))
UnlockConfig(t, v) == Insert(MkRow("UNLOCKED", AnyPilot, t, v))

\* activate_emergency_shutdown, and the flag recorded as cleared
ActivateShutdown(t) == Insert(MkRow("ACTIVATED", AnyPilot, t, "NONE"))
ClearShutdown(t) == Insert(MkRow("CLEARED", AnyPilot, t, "NONE"))

\* reconcile_open_positions, its result recorded
Reconcile(t, v, kind) == Insert(MkRow(kind, AnyPilot, t, v))

StartSession(p, t, v) ==
  ActiveSessions(log) = {} /\ Insert(MkRow("STARTED", p, t, v))

StopSession(p, t) ==
  Active(log, p) /\ Insert([MkRow("STOPPED", p, t, "NONE") EXCEPT !.reason = "OPERATOR_STOP"])

ResumeSession(p, t) ==
  /\ Exists(log, p) /\ ActiveSessions(log) = {} /\ MayResume(log, p)
  /\ Insert(MkRow("RESUMED", p, t, "NONE"))

ResetReview(p, t) == Insert(MkRow("RESET_REVIEW", p, t, "NONE"))

\* [fault] the stop carries the code of the violation
RecordFill_RawCode(p, t, hard) ==
  /\ owed = <<>> /\ MayStart
  /\ Cardinality(OfKinds(log, {"VIOLATION"})) < MaxBreaches
  /\ ActiveSessions(log) = {p}
  /\ owed' = <<MkRow("VIOLATION", AnyPilot, t, "NONE"), MkRow("ACTIVATED", AnyPilot, t, "NONE")>>
             \o (IF hard THEN <<[MkRow("STOPPED", p, t, "NONE")
                                   EXCEPT !.reason = "RED_BLACK_OVERRIDE_FORBIDDEN"]>> ELSE <<>>)
  /\ UNCHANGED <<now, log, snapshots, readiness, evidence, gate, reports>>

\* A fill that breaks a rule, let pass by the session gate: its violation row, its
\* shutdown row and, when hard, the stop of its session are separate commits.
RecordFill(p, t, hard) ==
  /\ owed = <<>> /\ MayStart
  /\ Cardinality(OfKinds(log, {"VIOLATION"})) < MaxBreaches
  /\ ActiveSessions(log) = {p}
  /\ owed' = <<MkRow("VIOLATION", AnyPilot, t, "NONE"), MkRow("ACTIVATED", AnyPilot, t, "NONE")>>
             \o (IF hard THEN <<[MkRow("STOPPED", p, t, "NONE")
                                   EXCEPT !.reason = "RISK_RULE_VIOLATION"]>> ELSE <<>>)
  /\ UNCHANGED <<now, log, snapshots, readiness, evidence, gate, reports>>

\* The stop looks at the session again, and raises when it is no longer active.
CommitFillRow ==
  /\ owed # <<>>
  /\ owed' = Tail(owed)
  /\ log' = IF Head(owed).kind = "STOPPED" /\ ~Active(log, Head(owed).pilot)
            THEN log ELSE Append(log, Head(owed))
  /\ UNCHANGED <<now, snapshots, readiness, evidence, gate, reports>>

\* The process of the fill, or of the gate, is killed.
KillFill ==
  /\ owed # <<>> /\ owed' = <<>>
  /\ UNCHANGED <<now, log, snapshots, readiness, evidence, gate, reports>>
KillGate ==
  /\ gate # NoGate /\ gate' = NoGate
  /\ UNCHANGED <<now, log, snapshots, readiness, evidence, owed, reports>>

InsertSnapshot(t, v, positive) ==
  /\ MayStart
  /\ snapshots' = Append(snapshots, [at |-> t, version |-> v, positive |-> positive])
  /\ UNCHANGED <<now, log, readiness, evidence, owed, gate, reports>>

\* readiness-dry-run on a rehearsal database of its own
WriteReadiness(t, v, ready) ==
  /\ readiness' = [ready |-> ready, at |-> t, version |-> v]
  /\ UNCHANGED <<now, log, snapshots, evidence, owed, gate, reports>>

\* build_pilot_evidence_packet: the session as of the moment of the packet
WriteEvidence(p, t) ==
  LET seen == AsOf(log, t)
      starts == RowsOf(seen, p, {"STARTED"})
  IN \E i \in starts :
       /\ IsLast(seen, i, starts)
       /\ evidence' = [active |-> Active(seen, p), at |-> t, pilot |-> p,
                       version |-> seen[i].version]
       /\ UNCHANGED <<now, log, snapshots, readiness, owed, gate, reports>>

Tick ==
  /\ now < MaxTime
  /\ now' = now + 1
  /\ UNCHANGED <<log, snapshots, readiness, evidence, owed, gate, reports>>

\* build_pilot_demo_packet: config locked, equity on file, one session started, open
\* positions reconciled, and both files written, all under the one run_at.
Init ==
  /\ now = 0 /\ owed = <<>> /\ gate = NoGate /\ reports = <<>>
  /\ \E p \in Pilots, v \in Versions, t \in Stamp :
       /\ t.instant = 0
       /\ log = <<MkRow("LOCKED", AnyPilot, t, v), MkRow("STARTED", p, t, v),
                  MkRow("VERIFIED", AnyPilot, t, v)>>
       /\ snapshots = <<[at |-> t, version |-> v, positive |-> TRUE]>>
       /\ readiness = [ready |-> TRUE, at |-> t, version |-> v]
       /\ evidence = [active |-> TRUE, at |-> t, pilot |-> p, version |-> v]

SessionCommand ==
  \E p \in Pilots, t \in Stamps :
    \/ \E v \in Versions : StartSession(p, t, v)
    \/ StopSession(p, t) \/ ResumeSession(p, t) \/ ResetReview(p, t)

ControlCommand ==
  \E t \in Stamps :
    \/ \E v \in Versions : LockConfig(t, v) \/ UnlockConfig(t, v)
    \/ ActivateShutdown(t) \/ ClearShutdown(t)
    \/ \E v \in Versions, kind \in {"VERIFIED", "UNVERIFIED"} : Reconcile(t, v, kind)
    \/ \E v \in Versions, positive \in BOOLEAN : InsertSnapshot(t, v, positive)

FillCommand ==
  \/ \E p \in Pilots, t \in Stamp, hard \in HardChoices :
       t.instant <= now /\ now - t.instant <= MaxLag /\ RecordFill(p, t, hard)
  \/ CommitFillRow \/ KillFill

FileCommand ==
  /\ MayStart
  /\ \E t \in Stamps :
       \/ \E v \in Versions, ready \in Rehearsals : WriteReadiness(t, v, ready)
       \/ \E p \in Pilots : WriteEvidence(p, t)

Next ==
  \/ \E t \in Stamps, flags \in FlagChoices : Begin(t, flags)
  \/ ReadEvidence \/ QueryDatabase \/ WriteReport \/ KillGate
  \/ SessionCommand \/ ControlCommand \/ FillCommand \/ FileCommand
  \/ Tick

Spec == Init /\ [][Next]_vars

-----------------------------------------------------------------------------
(* Properties *)

\* Every variable stays within its type.
TypeOK ==
  /\ now \in Times
  /\ log \in Seq(Row) /\ snapshots \in Seq(Snapshot)
  /\ readiness \in Readiness /\ evidence \in Evidence
  /\ owed \in Seq(Row)
  /\ gate \in Gate \cup {NoGate} /\ reports \in Seq(Report)

\* The checks of report r that read the database, over log l and snapshots s.
DatabasePasses(l, s, r) ==
  LET seen == AsOf(l, r.at) IN
  /\ LockPasses(seen, r.evidence, r.at)
  /\ ShutdownPasses(seen)
  /\ ViolationsPass(seen)
  /\ SessionPasses(seen, r.evidence)
  /\ EquityPasses(AsOf(s, r.at), r.evidence, r.at)
  /\ PositionsPass(seen, r.evidence, r.at)

\* The checks of report r on the flags and the two files it was given.
FilesPass(r) ==
  /\ r.flags.asserted
  /\ ReadinessPasses(r.readiness, r.at) /\ EvidencePasses(r.evidence, r.at)
  /\ Coupled(r.readiness, r.evidence)

\* What the gate answers when it is run again for report r with the same timestamp.
Replay(r) == Overall(~(FilesPass(r) /\ DatabasePasses(log, snapshots, r)), r.flags)

\* Rows inserted after the gate began, under a timestamp it counts as its past.
LateRows(r) == {i \in DOMAIN log : i > r.mark /\ Text(log[i].at) <= Text(r.at)}
LateSnapshots(r) ==
  {i \in DOMAIN snapshots : i > r.seen /\ Text(snapshots[i].at) <= Text(r.at)}

\* docs/forensic_end_to_end_audit.md:18-24 (P7 to P13): nothing recorded after the
\* moment of a report changes what the gate answers for that moment, be it recorded
\* while the gate runs, between two of its queries, or at any time later.
OnlyLateRowsRewriteVerdicts ==
  \A n \in DOMAIN reports :
    LET r == reports[n] IN
    Replay(r) # r.result => LateRows(r) # {} \/ LateSnapshots(r) # {}

\* Once a rule violation is in the log, no gate that begins after it says GO, however
\* sessions, shutdown flag and files change afterwards.  A shutdown
\* is not final in this way: once cleared, it leads back to GO.
NoGoAfterViolation ==
  \A n \in DOMAIN reports :
    LET r == reports[n] IN
    r.result = "GO" =>
      ~\E i \in OfKinds(log, {"VIOLATION"}) : i <= r.mark /\ log[i].at.instant <= r.at.instant
=============================================================================
