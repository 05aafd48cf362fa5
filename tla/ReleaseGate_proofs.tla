-------------------------- MODULE ReleaseGate_proofs --------------------------
(***************************************************************************)
(* Proofs about ReleaseGate, for every set of pilots, config versions and  *)
(* offsets and every bound: its types, and that only rows inserted later   *)
(* under an earlier timestamp change what a written verdict replays as.    *)
(***************************************************************************)
EXTENDS ReleaseGate, SequenceTheorems, TLAPS

-----------------------------------------------------------------------------
(* The inductive invariant *)

\* What is read of the evidence packet: a session is started with a config version.
StartsHaveVersion ==
  /\ \A i \in DOMAIN log : log[i].kind = "STARTED" => log[i].version \in Versions
  /\ \A i \in DOMAIN owed : owed[i].kind # "STARTED"

\* A gate, and a report, began when the log and the snapshots were no longer than now.
Begun(r) == r.mark <= Len(log) /\ r.seen <= Len(snapshots)

MarksOK ==
  /\ gate # NoGate => Begun(gate)
  /\ \A n \in DOMAIN reports : Begun(reports[n])

\* No row and no snapshot came in late for r, which has at, mark and seen.
NothingLate(r) == LateRows(r) = {} /\ LateSnapshots(r) = {}

AfterEvidence == GateSteps \ {"evidence"}
AfterLock == AfterEvidence \ {"lock"}
AfterShutdown == AfterLock \ {"shutdown"}
AfterViolations == AfterShutdown \ {"violations"}
AfterSession == AfterViolations \ {"session"}
AfterEquity == AfterSession \ {"equity"}
AfterPositions == AfterEquity \ {"positions"}

\* The checks that gate g has behind it pass over log l and snapshots s as of g.at.
PassedSoFar(g, l, s) ==
  /\ g.flags.asserted
  /\ ReadinessPasses(g.readiness, g.at)
  /\ g.step \in AfterEvidence =>
       EvidencePasses(g.evidence, g.at) /\ Coupled(g.readiness, g.evidence)
  /\ g.step \in AfterLock => LockPasses(l, g.evidence, g.at)
  /\ g.step \in AfterShutdown => ShutdownPasses(l)
  /\ g.step \in AfterViolations => ViolationsPass(l)
  /\ g.step \in AfterSession => SessionPasses(l, g.evidence)
  /\ g.step \in AfterEquity => EquityPasses(s, g.evidence, g.at)
  /\ g.step \in AfterPositions => PositionsPass(l, g.evidence, g.at)

\* The answers a running gate has collected, each over the log of its own moment, are
\* those of one reading of the log now, as long as nothing came in late.
GateAgrees ==
  gate # NoGate /\ NothingLate(gate) =>
    (gate.failed <=> ~PassedSoFar(gate, AsOf(log, gate.at), AsOf(snapshots, gate.at)))

ReportsAgree ==
  \A n \in DOMAIN reports :
    NothingLate(reports[n]) => Replay(reports[n]) = reports[n].result

IInv == TypeOK /\ StartsHaveVersion /\ MarksOK /\ GateAgrees /\ ReportsAgree

-----------------------------------------------------------------------------
(* Types *)

\* The rows the commands insert are rows.
LEMMA MkRowType ==
  ASSUME NEW kind \in RowKinds, NEW p \in Pilots \cup {AnyPilot}, NEW t \in Stamp,
         NEW v \in Versions \cup {"NONE"}
  PROVE  /\ MkRow(kind, p, t, v) \in Row
         /\ MkRow(kind, p, t, v).kind = kind
         /\ MkRow(kind, p, t, v).version = v
BY DEF MkRow, Row

\* So are the stops, which carry a reason.
LEMMA StopRowType ==
  ASSUME NEW p \in Pilots, NEW t \in Stamp, NEW reason \in ReasonCodes
  PROVE  /\ [MkRow("STOPPED", p, t, "NONE") EXCEPT !.reason = reason] \in Row
         /\ [MkRow("STOPPED", p, t, "NONE") EXCEPT !.reason = reason].kind = "STOPPED"
BY DEF MkRow, Row, RowKinds, SessionKinds

\* Initially every variable has its type.
LEMMA InitType == Init => TypeOK /\ StartsHaveVersion
<1> SUFFICES ASSUME NEW p \in Pilots, NEW v \in Versions, NEW t \in Stamp,
               now = 0, owed = <<>>, gate = NoGate, reports = <<>>,
               log = <<MkRow("LOCKED", AnyPilot, t, v), MkRow("STARTED", p, t, v),
                       MkRow("VERIFIED", AnyPilot, t, v)>>,
               snapshots = <<[at |-> t, version |-> v, positive |-> TRUE]>>,
               readiness = [ready |-> TRUE, at |-> t, version |-> v],
               evidence = [active |-> TRUE, at |-> t, pilot |-> p, version |-> v]
             PROVE  TypeOK /\ StartsHaveVersion
  BY DEF Init
<1>1. /\ MkRow("LOCKED", AnyPilot, t, v) \in Row /\ MkRow("STARTED", p, t, v) \in Row
      /\ MkRow("VERIFIED", AnyPilot, t, v) \in Row
  BY DEF MkRow, Row, RowKinds, SessionKinds
<1>2. log \in Seq(Row)
  BY <1>1
<1>3. snapshots \in Seq(Snapshot)
  BY DEF Snapshot
<1>4. readiness \in Readiness /\ evidence \in Evidence
  BY DEF Readiness, Evidence
<1>5. now \in Times /\ owed \in Seq(Row) /\ reports \in Seq(Report)
  BY GateAssumption DEF Times
<1>6. StartsHaveVersion
  BY DEF StartsHaveVersion, MkRow
<1> QED
  BY <1>2, <1>3, <1>4, <1>5, <1>6 DEF TypeOK

\* Types and versions survive the insertion of one more row.
LEMMA AppendRowType ==
  ASSUME TypeOK, StartsHaveVersion, NEW row \in Row,
         row.kind = "STARTED" => row.version \in Versions,
         log' \in {log, Append(log, row)},
         owed' \in Seq(Row), \A i \in DOMAIN owed' : owed'[i].kind # "STARTED",
         now' = now, snapshots' = snapshots, readiness' = readiness,
         evidence' = evidence, gate' = gate, reports' = reports
  PROVE  TypeOK' /\ StartsHaveVersion'
<1>1. log \in Seq(Row)
  BY DEF TypeOK
<1>2. Append(log, row) \in Seq(Row) /\ DOMAIN Append(log, row) = 1 .. Len(log) + 1
  BY <1>1, AppendProperties, LenProperties
<1>3. \A i \in 1 .. Len(log) + 1 :
        Append(log, row)[i] = IF i = Len(log) + 1 THEN row ELSE log[i]
  BY <1>1, AppendProperties
<1>4. \A i \in DOMAIN log' : log'[i].kind = "STARTED" => log'[i].version \in Versions
  BY <1>1, <1>2, <1>3, LenProperties, SMTT(30) DEF StartsHaveVersion
<1>5. TypeOK'
  BY <1>1, <1>2 DEF TypeOK
<1> QED
  BY <1>4, <1>5 DEF StartsHaveVersion

\* One command that inserts one row.
LEMMA InsertType ==
  ASSUME TypeOK, StartsHaveVersion, NEW row \in Row, Insert(row),
         row.kind = "STARTED" => row.version \in Versions
  PROVE  TypeOK' /\ StartsHaveVersion'
<1>1. owed' \in Seq(Row) /\ \A i \in DOMAIN owed' : owed'[i].kind # "STARTED"
  BY DEF Insert, TypeOK, StartsHaveVersion
<1> QED
  BY <1>1, AppendRowType DEF Insert

\* The rows a fill command has to insert are rows, and start no session.
LEMMA RecordFillType ==
  ASSUME TypeOK, StartsHaveVersion, NEW p \in Pilots, NEW t \in Stamp,
         NEW hard \in BOOLEAN, RecordFill(p, t, hard)
  PROVE  TypeOK' /\ StartsHaveVersion'
<1> DEFINE first == MkRow("VIOLATION", AnyPilot, t, "NONE")
           second == MkRow("ACTIVATED", AnyPilot, t, "NONE")
           third == [MkRow("STOPPED", p, t, "NONE") EXCEPT !.reason = "RISK_RULE_VIOLATION"]
<1>1. /\ first \in Row /\ second \in Row /\ third \in Row
      /\ first.kind # "STARTED" /\ second.kind # "STARTED" /\ third.kind # "STARTED"
  <2>1. /\ "VIOLATION" \in RowKinds /\ "ACTIVATED" \in RowKinds
        /\ "RISK_RULE_VIOLATION" \in ReasonCodes
    BY DEF RowKinds, ReasonCodes, HardCodes
  <2> QED
    BY <2>1, MkRowType, StopRowType
<1>2. owed' = <<first, second>> \o (IF hard THEN <<third>> ELSE <<>>)
  BY DEF RecordFill
<1> HIDE DEF first, second, third
<1>3. owed' \in Seq(Row) /\ \A i \in DOMAIN owed' : owed'[i] \in {first, second, third}
  <2> DEFINE tail == IF hard THEN <<third>> ELSE <<>>
             S == {first, second, third}
  <2>0. first \in S /\ second \in S /\ third \in S
    OBVIOUS
  <2>1. <<first, second>> \in Seq(S) /\ tail \in Seq(S)
    <3> HIDE DEF S
    <3>1. <<first, second>> \in Seq(S) /\ <<third>> \in Seq(S) /\ <<>> \in Seq(S)
      BY <2>0
    <3> QED
      BY <3>1
  <2>2. owed' \in Seq(S)
    BY <1>2, <2>1, ConcatProperties
  <2>3. \A i \in DOMAIN owed' : owed'[i] \in S
    BY <2>2
  <2>4. S \subseteq Row
    BY <1>1
  <2> HIDE DEF S
  <2>5. owed' \in Seq(Row)
    BY <2>2, <2>4, SeqMonotonic
  <2> QED
    BY <2>3, <2>5 DEF S
<1>4. owed' \in Seq(Row) /\ \A i \in DOMAIN owed' : owed'[i].kind # "STARTED"
  BY <1>1, <1>3
<1> QED
  BY <1>4 DEF RecordFill, TypeOK, StartsHaveVersion

\* A row that is owed is inserted with its type, or dropped.
LEMMA CommitFillRowType ==
  ASSUME TypeOK, StartsHaveVersion, CommitFillRow
  PROVE  TypeOK' /\ StartsHaveVersion'
<1>1. owed \in Seq(Row) /\ owed # <<>>
  BY DEF TypeOK, CommitFillRow
<1>2. /\ Head(owed) \in Row /\ Tail(owed) \in Seq(Row)
      /\ Len(Tail(owed)) = Len(owed) - 1 /\ Len(owed) \in Nat
      /\ \A i \in 1 .. Len(Tail(owed)) : Tail(owed)[i] = owed[i + 1]
  BY <1>1, HeadTailProperties, LenProperties
<1>3. Head(owed) = owed[1] /\ 1 \in DOMAIN owed
  BY <1>1
<1>4. Head(owed).kind # "STARTED"
  BY <1>3 DEF StartsHaveVersion
<1>5. \A i \in DOMAIN Tail(owed) : Tail(owed)[i].kind # "STARTED"
  <2> TAKE i \in DOMAIN Tail(owed)
  <2>1. i \in 1 .. Len(Tail(owed)) /\ i + 1 \in DOMAIN owed
    BY <1>1, <1>2, LenProperties
  <2> QED
    BY <1>2, <2>1 DEF StartsHaveVersion
<1> QED
  BY <1>2, <1>4, <1>5, AppendRowType DEF CommitFillRow

\* Every command other than a gate, and the clock, keeps the types.
LEMMA CommandType ==
  ASSUME TypeOK, StartsHaveVersion,
         SessionCommand \/ ControlCommand \/ FillCommand \/ FileCommand \/ Tick
  PROVE  TypeOK' /\ StartsHaveVersion'
<1>st. Stamps \subseteq Stamp
  BY DEF Stamps
<1>kinds. /\ {"LOCKED", "UNLOCKED", "ACTIVATED", "CLEARED", "VERIFIED", "UNVERIFIED"}
               \subseteq RowKinds
          /\ SessionKinds \subseteq RowKinds
  BY DEF RowKinds
<1>1. ASSUME SessionCommand PROVE TypeOK' /\ StartsHaveVersion'
  <2>1. PICK p \in Pilots, t \in Stamps :
          \/ \E v \in Versions : StartSession(p, t, v)
          \/ StopSession(p, t) \/ ResumeSession(p, t) \/ ResetReview(p, t)
    BY <1>1 DEF SessionCommand
  <2>2. ASSUME NEW v \in Versions, StartSession(p, t, v) PROVE TypeOK' /\ StartsHaveVersion'
    <3>1. MkRow("STARTED", p, t, v) \in Row /\ MkRow("STARTED", p, t, v).version = v
      BY <1>st, <1>kinds, MkRowType DEF SessionKinds
    <3> QED
      BY <2>2, <3>1, InsertType DEF StartSession
  <2>3. ASSUME StopSession(p, t) PROVE TypeOK' /\ StartsHaveVersion'
    <3> DEFINE row == [MkRow("STOPPED", p, t, "NONE") EXCEPT !.reason = "OPERATOR_STOP"]
    <3>1. row \in Row /\ row.kind = "STOPPED"
      BY <1>st, StopRowType DEF ReasonCodes
    <3>2. Insert(row)
      BY <2>3 DEF StopSession
    <3> QED
      BY <3>1, <3>2, InsertType
  <2>4. ASSUME ResumeSession(p, t) PROVE TypeOK' /\ StartsHaveVersion'
    <3>1. MkRow("RESUMED", p, t, "NONE") \in Row /\ MkRow("RESUMED", p, t, "NONE").kind = "RESUMED"
      BY <1>st, <1>kinds, MkRowType DEF SessionKinds
    <3> QED
      BY <2>4, <3>1, InsertType DEF ResumeSession
  <2>5. ASSUME ResetReview(p, t) PROVE TypeOK' /\ StartsHaveVersion'
    <3>1. /\ MkRow("RESET_REVIEW", p, t, "NONE") \in Row
          /\ MkRow("RESET_REVIEW", p, t, "NONE").kind = "RESET_REVIEW"
      BY <1>st, <1>kinds, MkRowType DEF SessionKinds
    <3> QED
      BY <2>5, <3>1, InsertType DEF ResetReview
  <2> QED
    BY <2>1, <2>2, <2>3, <2>4, <2>5
<1>2. ASSUME ControlCommand PROVE TypeOK' /\ StartsHaveVersion'
  <2>1. PICK t \in Stamps :
          \/ \E v \in Versions : LockConfig(t, v) \/ UnlockConfig(t, v)
          \/ ActivateShutdown(t) \/ ClearShutdown(t)
          \/ \E v \in Versions, kind \in {"VERIFIED", "UNVERIFIED"} : Reconcile(t, v, kind)
          \/ \E v \in Versions, positive \in BOOLEAN : InsertSnapshot(t, v, positive)
    BY <1>2 DEF ControlCommand
  <2>2. ASSUME NEW kind \in {"LOCKED", "UNLOCKED", "ACTIVATED", "CLEARED", "VERIFIED", "UNVERIFIED"},
               NEW v \in Versions \cup {"NONE"}, Insert(MkRow(kind, AnyPilot, t, v))
        PROVE  TypeOK' /\ StartsHaveVersion'
    <3>1. /\ MkRow(kind, AnyPilot, t, v) \in Row
          /\ MkRow(kind, AnyPilot, t, v).kind # "STARTED"
      BY <1>st, <1>kinds, MkRowType
    <3> QED
      BY <2>2, <3>1, InsertType
  <2>3. ASSUME NEW v \in Versions, NEW positive \in BOOLEAN, InsertSnapshot(t, v, positive)
        PROVE  TypeOK' /\ StartsHaveVersion'
    <3>1. [at |-> t, version |-> v, positive |-> positive] \in Snapshot
      BY <1>st DEF Snapshot
    <3>2. snapshots' \in Seq(Snapshot)
      BY <2>3, <3>1, AppendProperties DEF InsertSnapshot, TypeOK
    <3> QED
      BY <2>3, <3>2 DEF InsertSnapshot, TypeOK, StartsHaveVersion
  <2> QED
    BY <2>1, <2>2, <2>3 DEF LockConfig, UnlockConfig, ActivateShutdown, ClearShutdown, Reconcile
<1>3. ASSUME FillCommand PROVE TypeOK' /\ StartsHaveVersion'
  <2>1. ASSUME KillFill PROVE TypeOK' /\ StartsHaveVersion'
    BY <2>1 DEF KillFill, TypeOK, StartsHaveVersion
  <2> QED
    BY <1>3, <2>1, GateAssumption, RecordFillType, CommitFillRowType DEF FillCommand
<1>4. ASSUME FileCommand PROVE TypeOK' /\ StartsHaveVersion'
  <2>1. ASSUME NEW t \in Stamps, NEW v \in Versions, NEW ready \in Rehearsals,
               WriteReadiness(t, v, ready)
        PROVE  TypeOK' /\ StartsHaveVersion'
    <3>1. readiness' \in Readiness
      BY <2>1, <1>st, GateAssumption DEF WriteReadiness, Readiness
    <3> QED
      BY <2>1, <3>1 DEF WriteReadiness, TypeOK, StartsHaveVersion
  <2>2. ASSUME NEW t \in Stamps, NEW p \in Pilots, WriteEvidence(p, t)
        PROVE  TypeOK' /\ StartsHaveVersion'
    <3>1. PICK i \in RowsOf(AsOf(log, t), p, {"STARTED"}) :
            /\ evidence' = [active |-> Active(AsOf(log, t), p), at |-> t, pilot |-> p,
                            version |-> AsOf(log, t)[i].version]
            /\ UNCHANGED <<now, log, snapshots, readiness, owed, gate, reports>>
      BY <2>2 DEF WriteEvidence
    <3>2. i \in DOMAIN log /\ AsOf(log, t)[i] = log[i] /\ log[i].kind = "STARTED"
      BY <3>1 DEF RowsOf, AsOf
    <3>3. AsOf(log, t)[i].version \in Versions
      BY <3>2 DEF StartsHaveVersion
    <3>4. Active(AsOf(log, t), p) \in BOOLEAN
      BY DEF Active
    <3>5. evidence' \in Evidence
      BY <3>1, <3>3, <3>4, <1>st DEF Evidence
    <3> QED
      BY <3>1, <3>5 DEF TypeOK, StartsHaveVersion
  <2> QED
    BY <1>4, <2>1, <2>2 DEF FileCommand
<1>5. ASSUME Tick PROVE TypeOK' /\ StartsHaveVersion'
  BY <1>5, GateAssumption DEF Tick, TypeOK, StartsHaveVersion, Times
<1> QED
  BY <1>1, <1>2, <1>3, <1>4, <1>5

\* The gate itself: it collects its answers and writes a report.
GateAction ==
  \/ \E t \in Stamps, flags \in FlagChoices : Begin(t, flags)
  \/ ReadEvidence \/ QueryDatabase \/ WriteReport \/ KillGate

\* One query sets the outcome and the next step, and nothing else.
LEMMA QueryType ==
  ASSUME TypeOK, NEW step \in GateSteps, NEW next \in GateSteps, NEW passes,
         Check(step, passes, next)
  PROVE  gate' \in Gate
<1>1. gate \in Gate
  BY DEF TypeOK, NoGate, GateSteps, Check
<1>2. (gate.failed \/ ~passes) \in BOOLEAN
  OBVIOUS
<1> QED
  BY <1>1, <1>2 DEF Check, Gate

\* Every step of the gate keeps the types.
LEMMA GateType ==
  ASSUME TypeOK, StartsHaveVersion, GateAction
  PROVE  TypeOK' /\ StartsHaveVersion'
<1>1. ASSUME NEW t \in Stamps, NEW flags \in FlagChoices, Begin(t, flags)
      PROVE  TypeOK' /\ StartsHaveVersion'
  <2>1. t \in Stamp /\ flags \in Flags
    BY GateAssumption DEF Stamps, Flags
  <2>2. Len(log) \in Nat /\ Len(snapshots) \in Nat
    BY DEF TypeOK
  <2>3. gate' \in Gate
    BY <1>1, <2>1, <2>2 DEF Begin, Gate, GateSteps, TypeOK
  <2> QED
    BY <1>1, <2>3 DEF Begin, TypeOK, StartsHaveVersion
<1>2. ASSUME ReadEvidence PROVE TypeOK' /\ StartsHaveVersion'
  <2>1. gate \in Gate
    BY <1>2 DEF ReadEvidence, TypeOK, NoGate
  <2>2. gate' \in Gate
    BY <1>2, <2>1 DEF ReadEvidence, TypeOK, Gate, GateSteps
  <2> QED
    BY <1>2, <2>2 DEF ReadEvidence, TypeOK, StartsHaveVersion
<1>3. ASSUME QueryDatabase PROVE TypeOK' /\ StartsHaveVersion'
  <2>1. gate' \in Gate
    BY <1>3, QueryType DEF QueryDatabase, GateSteps
  <2>2. UNCHANGED <<now, log, snapshots, readiness, evidence, owed, reports>>
    BY <1>3 DEF QueryDatabase, Check
  <2> QED
    BY <2>1, <2>2 DEF TypeOK, StartsHaveVersion
<1>4. ASSUME WriteReport PROVE TypeOK' /\ StartsHaveVersion'
  <2>1. gate \in Gate
    BY <1>4 DEF WriteReport, TypeOK, NoGate
  <2>2. Overall(gate.failed, gate.flags) \in Results
    BY DEF Overall, Results
  <2>3. [at |-> gate.at, flags |-> gate.flags, readiness |-> gate.readiness,
         evidence |-> gate.evidence, mark |-> gate.mark, seen |-> gate.seen,
         result |-> Overall(gate.failed, gate.flags)] \in Report
    BY <2>1, <2>2 DEF Gate, Report
  <2>4. reports' \in Seq(Report)
    BY <1>4, <2>3, AppendProperties DEF WriteReport, TypeOK
  <2> QED
    BY <1>4, <2>4 DEF WriteReport, TypeOK, StartsHaveVersion
<1>5. ASSUME KillGate PROVE TypeOK' /\ StartsHaveVersion'
  BY <1>5 DEF KillGate, TypeOK, StartsHaveVersion
<1> QED
  BY <1>1, <1>2, <1>3, <1>4, <1>5 DEF GateAction

\* Every step of the system keeps the types.
LEMMA NextType ==
  ASSUME TypeOK, StartsHaveVersion, [Next]_vars
  PROVE  TypeOK' /\ StartsHaveVersion'
<1>1. CASE UNCHANGED vars
  BY <1>1 DEF vars, TypeOK, StartsHaveVersion
<1>2. CASE Next
  BY <1>2, GateType, CommandType DEF Next, GateAction
<1> QED
  BY <1>1, <1>2

\* Every variable stays within its type.
THEOREM TypeCorrect == Spec => []TypeOK
<1>1. Init => TypeOK /\ StartsHaveVersion
  BY InitType
<1>2. (TypeOK /\ StartsHaveVersion) /\ [Next]_vars => (TypeOK /\ StartsHaveVersion)'
  BY NextType
<1> QED
  BY <1>1, <1>2, PTL DEF Spec

-----------------------------------------------------------------------------
(* What rows inserted later leave alone *)

\* One more row or snapshot that is not late for r leaves what was read as of r.at as
\* it was, and nothing that was late becomes timely.
LEMMA AppendStands ==
  ASSUME NEW S, NEW l \in Seq(S), NEW e, NEW at, NEW mark \in Nat, mark <= Len(l),
         NEW l2 \in {l, Append(l, e)},
         {i \in DOMAIN l2 : i > mark /\ Text(l2[i].at) <= Text(at)} = {}
  PROVE  /\ AsOf(l2, at) = AsOf(l, at)
         /\ {i \in DOMAIN l : i > mark /\ Text(l[i].at) <= Text(at)} = {}
<1>1. CASE l2 = l
  BY <1>1
<1>2. CASE l2 = Append(l, e)
  <2> DEFINE n == Len(l) + 1
  <2>0. l \in Seq(S \cup {e}) /\ e \in S \cup {e}
    BY SeqMonotonic
  <2>1. /\ DOMAIN l = 1 .. Len(l) /\ Len(l) \in Nat
        /\ DOMAIN l2 = 1 .. n
        /\ \A i \in 1 .. n : l2[i] = IF i = n THEN e ELSE l[i]
    BY <1>2, <2>0, AppendProperties, LenProperties
  <2>2. n \in DOMAIN l2 /\ n > mark
    BY <2>1
  <2>3. ~(Text(l2[n].at) <= Text(at))
    BY <2>2
  <2>4. \A i \in DOMAIN l : i \in DOMAIN l2 /\ l2[i] = l[i]
    BY <2>1
  <2>5. \A i \in DOMAIN l2 : i # n => i \in DOMAIN l
    BY <2>1
  <2> HIDE DEF n
  <2>6. {i \in DOMAIN l2 : Text(l2[i].at) <= Text(at)}
          = {i \in DOMAIN l : Text(l[i].at) <= Text(at)}
    BY <2>3, <2>4, <2>5
  <2>7. AsOf(l2, at) = AsOf(l, at)
    BY <2>4, <2>6 DEF AsOf
  <2> QED
    BY <2>4, <2>7
<1> QED
  BY <1>1, <1>2

-----------------------------------------------------------------------------
(* Verdicts *)

\* Initially there is no gate and no report.
LEMMA InitAgrees == Init => MarksOK /\ GateAgrees /\ ReportsAgree
BY DEF Init, MarksOK, GateAgrees, ReportsAgree

\* What other commands, and the clock, do: at most one row or one snapshot comes in.
LEMMA CommandFrame ==
  ASSUME SessionCommand \/ ControlCommand \/ FillCommand \/ FileCommand \/ Tick
  PROVE  /\ gate' = gate /\ reports' = reports
         /\ \E row : log' \in {log, Append(log, row)}
         /\ \E s : snapshots' \in {snapshots, Append(snapshots, s)}
<1>1. ASSUME NEW row, Insert(row)
      PROVE  /\ gate' = gate /\ reports' = reports /\ snapshots' = snapshots
             /\ log' = Append(log, row)
  BY <1>1 DEF Insert
<1>2. CASE SessionCommand
  BY <1>1, <1>2 DEF SessionCommand, StartSession, StopSession, ResumeSession, ResetReview
<1>3. CASE ControlCommand
  BY <1>1, <1>3 DEF ControlCommand, LockConfig, UnlockConfig, ActivateShutdown, ClearShutdown,
     Reconcile, InsertSnapshot
<1>4. CASE FillCommand
  BY <1>4 DEF FillCommand, RecordFill, CommitFillRow, KillFill
<1>5. CASE FileCommand
  BY <1>5 DEF FileCommand, WriteReadiness, WriteEvidence
<1>6. CASE Tick
  BY <1>6 DEF Tick
<1> QED
  BY <1>2, <1>3, <1>4, <1>5, <1>6

\* Other commands leave the answers of a running gate, and written verdicts, standing.
LEMMA CommandAgrees ==
  ASSUME IInv, SessionCommand \/ ControlCommand \/ FillCommand \/ FileCommand \/ Tick
  PROVE  MarksOK' /\ GateAgrees' /\ ReportsAgree'
<1>1. PICK row, s : /\ gate' = gate /\ reports' = reports
                    /\ log' \in {log, Append(log, row)}
                    /\ snapshots' \in {snapshots, Append(snapshots, s)}
  BY CommandFrame
<1>2. /\ log \in Seq(Row) /\ snapshots \in Seq(Snapshot) /\ reports \in Seq(Report)
      /\ gate \in Gate \cup {NoGate}
  BY DEF IInv, TypeOK
<1>report. \A n \in DOMAIN reports : reports[n] \in Report
  BY <1>2
<1>3. Len(log') >= Len(log) /\ Len(snapshots') >= Len(snapshots)
      /\ Len(log) \in Nat /\ Len(snapshots) \in Nat /\ Len(log') \in Nat /\ Len(snapshots') \in Nat
  BY <1>1, <1>2
<1>4. ASSUME NEW at, NEW mark \in Nat, NEW seen \in Nat, mark <= Len(log), seen <= Len(snapshots),
             {i \in DOMAIN log' : i > mark /\ Text(log'[i].at) <= Text(at)} = {},
             {i \in DOMAIN snapshots' : i > seen /\ Text(snapshots'[i].at) <= Text(at)} = {}
      PROVE  /\ AsOf(log', at) = AsOf(log, at) /\ AsOf(snapshots', at) = AsOf(snapshots, at)
             /\ {i \in DOMAIN log : i > mark /\ Text(log[i].at) <= Text(at)} = {}
             /\ {i \in DOMAIN snapshots : i > seen /\ Text(snapshots[i].at) <= Text(at)} = {}
  <2>rows. /\ log \in Seq(Row) /\ snapshots \in Seq(Snapshot)
           /\ log' \in {log, Append(log, row)} /\ snapshots' \in {snapshots, Append(snapshots, s)}
    BY <1>1, <1>2
  <2>1. /\ AsOf(log', at) = AsOf(log, at)
        /\ {i \in DOMAIN log : i > mark /\ Text(log[i].at) <= Text(at)} = {}
    BY <2>rows, <1>4, AppendStands, ZenonT(60)
  <2>2. /\ AsOf(snapshots', at) = AsOf(snapshots, at)
        /\ {i \in DOMAIN snapshots : i > seen /\ Text(snapshots[i].at) <= Text(at)} = {}
    BY <2>rows, <1>4, AppendStands, ZenonT(60)
  <2> QED
    BY <2>1, <2>2
<1>5. MarksOK'
  <2>1. gate # NoGate => gate.mark \in Nat /\ gate.seen \in Nat
    BY <1>2 DEF Gate
  <2>2. \A n \in DOMAIN reports : reports[n].mark \in Nat /\ reports[n].seen \in Nat
    BY <1>report DEF Report
  <2> QED
    BY <1>1, <1>3, <2>1, <2>2 DEF IInv, MarksOK, Begun
<1>6. GateAgrees'
  <2> SUFFICES ASSUME gate # NoGate, NothingLate(gate)'
               PROVE  (gate.failed
                        <=> ~PassedSoFar(gate, AsOf(log, gate.at), AsOf(snapshots, gate.at)))'
    BY <1>1 DEF GateAgrees
  <2>1. gate.mark \in Nat /\ gate.seen \in Nat /\ Begun(gate)
    BY <1>2 DEF Gate, IInv, MarksOK
  <2>2. /\ {i \in DOMAIN log' : i > gate.mark /\ Text(log'[i].at) <= Text(gate.at)} = {}
        /\ {i \in DOMAIN snapshots' : i > gate.seen /\ Text(snapshots'[i].at) <= Text(gate.at)} = {}
    BY <1>1 DEF NothingLate, LateRows, LateSnapshots
  <2>3. /\ AsOf(log', gate.at) = AsOf(log, gate.at)
        /\ AsOf(snapshots', gate.at) = AsOf(snapshots, gate.at)
        /\ NothingLate(gate)
    BY <1>4, <2>1, <2>2 DEF Begun, NothingLate, LateRows, LateSnapshots
  <2>4. gate.failed <=> ~PassedSoFar(gate, AsOf(log, gate.at), AsOf(snapshots, gate.at))
    BY <2>3 DEF IInv, GateAgrees
  <2> QED
    BY <1>1, <2>3, <2>4
<1>7. ReportsAgree'
  <2> SUFFICES ASSUME NEW n \in DOMAIN reports, NothingLate(reports[n])'
               PROVE  (Replay(reports[n]) = reports[n].result)'
    BY <1>1 DEF ReportsAgree
  <2> DEFINE r == reports[n]
  <2>1. r.mark \in Nat /\ r.seen \in Nat /\ Begun(r)
    BY <1>report DEF Report, IInv, MarksOK
  <2>2. /\ {i \in DOMAIN log' : i > r.mark /\ Text(log'[i].at) <= Text(r.at)} = {}
        /\ {i \in DOMAIN snapshots' : i > r.seen /\ Text(snapshots'[i].at) <= Text(r.at)} = {}
    BY <1>1 DEF NothingLate, LateRows, LateSnapshots
  <2>3. /\ AsOf(log', r.at) = AsOf(log, r.at)
        /\ AsOf(snapshots', r.at) = AsOf(snapshots, r.at)
        /\ NothingLate(r)
    BY <1>4, <2>1, <2>2 DEF Begun, NothingLate, LateRows, LateSnapshots
  <2>4. Replay(r) = r.result
    BY <2>3 DEF IInv, ReportsAgree
  <2> QED
    BY <1>1, <2>3, <2>4 DEF Replay, DatabasePasses
<1> QED
  BY <1>5, <1>6, <1>7

\* The steps a gate has behind it when it is at each step.
LEMMA StepOrder ==
  /\ "evidence" \notin AfterEvidence
  /\ "lock" \in AfterEvidence \ AfterLock
  /\ "shutdown" \in AfterLock \ AfterShutdown
  /\ "violations" \in AfterShutdown \ AfterViolations
  /\ "session" \in AfterViolations \ AfterSession
  /\ "equity" \in AfterSession \ AfterEquity
  /\ "positions" \in AfterEquity \ AfterPositions
  /\ "report" \in AfterPositions
  /\ AfterPositions \subseteq AfterEquity /\ AfterEquity \subseteq AfterSession
  /\ AfterSession \subseteq AfterViolations /\ AfterViolations \subseteq AfterShutdown
  /\ AfterShutdown \subseteq AfterLock /\ AfterLock \subseteq AfterEvidence
BY DEF AfterEvidence, AfterLock, AfterShutdown, AfterViolations, AfterSession, AfterEquity,
   AfterPositions, GateSteps

\* A query adds its check to what has passed so far.
LEMMA QueryAgrees ==
  ASSUME IInv, QueryDatabase
  PROVE  GateAgrees'
<1>1. gate \in Gate /\ gate # NoGate
  BY DEF IInv, TypeOK, QueryDatabase, Check, NoGate
<1> DEFINE l == AsOf(log, gate.at)
           s == AsOf(snapshots, gate.at)
           e == gate.evidence
<1>2. ASSUME NEW step \in GateSteps, NEW next \in GateSteps, NEW passes,
             Check(step, passes, next),
             PassedSoFar(gate', l, s) <=> PassedSoFar(gate, l, s) /\ passes
      PROVE  GateAgrees'
  <2> SUFFICES ASSUME NothingLate(gate)'
               PROVE  (gate.failed
                        <=> ~PassedSoFar(gate, AsOf(log, gate.at), AsOf(snapshots, gate.at)))'
    BY DEF GateAgrees
  <2>1. /\ gate' = [gate EXCEPT !.step = next, !.failed = gate.failed \/ ~passes]
        /\ log' = log /\ snapshots' = snapshots
    BY <1>2 DEF Check
  <2>2. gate'.failed = (gate.failed \/ ~passes) /\ gate'.at = gate.at
        /\ gate'.mark = gate.mark /\ gate'.seen = gate.seen
    BY <1>1, <2>1 DEF Gate
  <2>3. NothingLate(gate)
    BY <2>1, <2>2 DEF NothingLate, LateRows, LateSnapshots
  <2>4. gate.failed <=> ~PassedSoFar(gate, l, s)
    BY <1>1, <2>3 DEF IInv, GateAgrees
  <2> QED
    BY <1>2, <2>1, <2>2, <2>4
<1>3. ASSUME NEW step, NEW next, NEW passes, Check(step, passes, next)
      PROVE  /\ gate.step = step /\ gate'.step = next
             /\ gate'.at = gate.at /\ gate'.flags = gate.flags
             /\ gate'.readiness = gate.readiness /\ gate'.evidence = gate.evidence
  BY <1>1, <1>3 DEF Check, Gate
<1>4. CASE Check("lock", LockPasses(l, e, gate.at), "shutdown")
  <2>1. PassedSoFar(gate', l, s) <=> PassedSoFar(gate, l, s) /\ LockPasses(l, e, gate.at)
    BY <1>3, <1>4, StepOrder DEF PassedSoFar
  <2> QED
    BY <1>2, <1>4, <2>1 DEF GateSteps
<1>5. CASE Check("shutdown", ShutdownPasses(l), "violations")
  <2>1. PassedSoFar(gate', l, s) <=> PassedSoFar(gate, l, s) /\ ShutdownPasses(l)
    BY <1>3, <1>5, StepOrder DEF PassedSoFar
  <2> QED
    BY <1>2, <1>5, <2>1 DEF GateSteps
<1>6. CASE Check("violations", ViolationsPass(l), "session")
  <2>1. PassedSoFar(gate', l, s) <=> PassedSoFar(gate, l, s) /\ ViolationsPass(l)
    BY <1>3, <1>6, StepOrder DEF PassedSoFar
  <2> QED
    BY <1>2, <1>6, <2>1 DEF GateSteps
<1>7. CASE Check("session", SessionPasses(l, e), "equity")
  <2>1. PassedSoFar(gate', l, s) <=> PassedSoFar(gate, l, s) /\ SessionPasses(l, e)
    BY <1>3, <1>7, StepOrder DEF PassedSoFar
  <2> QED
    BY <1>2, <1>7, <2>1 DEF GateSteps
<1>8. CASE Check("equity", EquityPasses(s, e, gate.at), "positions")
  <2>1. PassedSoFar(gate', l, s) <=> PassedSoFar(gate, l, s) /\ EquityPasses(s, e, gate.at)
    BY <1>3, <1>8, StepOrder DEF PassedSoFar
  <2> QED
    BY <1>2, <1>8, <2>1 DEF GateSteps
<1>9. CASE Check("positions", PositionsPass(l, e, gate.at), "report")
  <2>1. PassedSoFar(gate', l, s) <=> PassedSoFar(gate, l, s) /\ PositionsPass(l, e, gate.at)
    BY <1>3, <1>9, StepOrder DEF PassedSoFar
  <2> QED
    BY <1>2, <1>9, <2>1 DEF GateSteps
<1> QED
  BY <1>4, <1>5, <1>6, <1>7, <1>8, <1>9 DEF QueryDatabase

\* Every step of the gate keeps its answers, and the verdicts, in agreement.
LEMMA GateActionAgrees ==
  ASSUME IInv, GateAction
  PROVE  MarksOK' /\ GateAgrees' /\ ReportsAgree'
<1>1. log' = log /\ snapshots' = snapshots
  BY DEF GateAction, Begin, ReadEvidence, QueryDatabase, Check, WriteReport, KillGate
<1>2. Len(log) \in Nat /\ Len(snapshots) \in Nat
  BY DEF IInv, TypeOK
<1>3. ASSUME reports' = reports PROVE ReportsAgree'
  BY <1>1, <1>3 DEF IInv, ReportsAgree, NothingLate, LateRows, LateSnapshots, Replay, DatabasePasses
<1>4. ASSUME NEW t \in Stamps, NEW flags \in FlagChoices, Begin(t, flags)
      PROVE  MarksOK' /\ GateAgrees' /\ ReportsAgree'
  <2>1. /\ gate'.step = "evidence" /\ gate'.at = t /\ gate'.flags = flags
        /\ gate'.readiness = readiness
        /\ gate'.failed = ~(flags.asserted /\ ReadinessPasses(readiness, t))
        /\ gate'.mark = Len(log) /\ gate'.seen = Len(snapshots) /\ reports' = reports
    BY <1>4 DEF Begin
  <2>2. PassedSoFar(gate', AsOf(log, t), AsOf(snapshots, t))
          <=> flags.asserted /\ ReadinessPasses(readiness, t)
    BY <2>1, StepOrder DEF PassedSoFar
  <2>3. GateAgrees'
    BY <1>1, <2>1, <2>2 DEF GateAgrees
  <2>4. MarksOK'
    BY <1>1, <1>2, <2>1 DEF IInv, MarksOK, Begun
  <2> QED
    BY <1>3, <2>1, <2>3, <2>4
<1>5. ASSUME ReadEvidence PROVE MarksOK' /\ GateAgrees' /\ ReportsAgree'
  <2>1. gate \in Gate /\ gate # NoGate /\ gate.step = "evidence"
    BY <1>5 DEF ReadEvidence, IInv, TypeOK, NoGate
  <2> DEFINE passes == EvidencePasses(evidence, gate.at) /\ Coupled(gate.readiness, evidence)
  <2>2. /\ gate'.step = "lock" /\ gate'.at = gate.at /\ gate'.flags = gate.flags
        /\ gate'.readiness = gate.readiness /\ gate'.evidence = evidence
        /\ gate'.failed = (gate.failed \/ ~passes)
        /\ gate'.mark = gate.mark /\ gate'.seen = gate.seen /\ reports' = reports
    BY <1>5, <2>1 DEF ReadEvidence, Gate
  <2>3. PassedSoFar(gate', AsOf(log, gate.at), AsOf(snapshots, gate.at))
          <=> PassedSoFar(gate, AsOf(log, gate.at), AsOf(snapshots, gate.at)) /\ passes
    BY <2>1, <2>2, StepOrder DEF PassedSoFar
  <2>4. GateAgrees'
    BY <1>1, <2>1, <2>2, <2>3 DEF IInv, GateAgrees, NothingLate, LateRows, LateSnapshots
  <2>5. MarksOK'
    BY <1>1, <2>1, <2>2 DEF IInv, MarksOK, Begun
  <2> QED
    BY <1>3, <2>2, <2>4, <2>5
<1>6. ASSUME QueryDatabase PROVE MarksOK' /\ GateAgrees' /\ ReportsAgree'
  <2>1. gate \in Gate /\ gate # NoGate /\ reports' = reports
    BY <1>6 DEF QueryDatabase, Check, IInv, TypeOK, NoGate
  <2>2. gate'.mark = gate.mark /\ gate'.seen = gate.seen
    BY <1>6, <2>1 DEF QueryDatabase, Check, Gate
  <2>3. MarksOK'
    BY <1>1, <2>1, <2>2 DEF IInv, MarksOK, Begun
  <2> QED
    BY <1>3, <1>6, <2>1, <2>3, QueryAgrees
<1>7. ASSUME WriteReport PROVE MarksOK' /\ GateAgrees' /\ ReportsAgree'
  <2> DEFINE r == [at |-> gate.at, flags |-> gate.flags, readiness |-> gate.readiness,
                   evidence |-> gate.evidence, mark |-> gate.mark, seen |-> gate.seen,
                   result |-> Overall(gate.failed, gate.flags)]
             n == Len(reports) + 1
  <2>1. gate \in Gate /\ gate # NoGate /\ gate.step = "report" /\ gate' = NoGate
        /\ reports' = Append(reports, r) /\ reports \in Seq(Report)
    BY <1>7 DEF WriteReport, IInv, TypeOK, NoGate
  <2>2. /\ r.at = gate.at /\ r.flags = gate.flags /\ r.readiness = gate.readiness
        /\ r.evidence = gate.evidence /\ r.mark = gate.mark /\ r.seen = gate.seen
        /\ r.result = Overall(gate.failed, gate.flags)
    OBVIOUS
  <2>3. r \in Report
    <3>1. Overall(gate.failed, gate.flags) \in Results
      BY DEF Overall, Results
    <3> QED
      BY <2>1, <3>1 DEF Gate, Report
  <2> HIDE DEF r
  <2>4. /\ DOMAIN reports' = 1 .. n /\ DOMAIN reports = 1 .. Len(reports)
        /\ \A i \in 1 .. n : reports'[i] = IF i = n THEN r ELSE reports[i]
    BY <2>1, <2>3, AppendProperties, LenProperties
  <2>5. MarksOK'
    BY <1>1, <2>1, <2>2, <2>4 DEF IInv, MarksOK, Begun
  <2>6. GateAgrees'
    BY <2>1 DEF GateAgrees
  <2>7. NothingLate(r) => Replay(r) = r.result
    <3>1. NothingLate(r) <=> NothingLate(gate)
      BY <2>2 DEF NothingLate, LateRows, LateSnapshots
    <3>2. PassedSoFar(gate, AsOf(log, gate.at), AsOf(snapshots, gate.at))
            <=> FilesPass(r) /\ DatabasePasses(log, snapshots, r)
      BY <2>1, <2>2, StepOrder DEF PassedSoFar, FilesPass, DatabasePasses
    <3>3. NothingLate(r) =>
            (gate.failed <=> ~(FilesPass(r) /\ DatabasePasses(log, snapshots, r)))
      BY <2>1, <3>1, <3>2 DEF IInv, GateAgrees
    <3> QED
      BY <2>2, <3>3 DEF Replay, Overall
  <2>8. ReportsAgree'
    <3> SUFFICES ASSUME NEW i \in DOMAIN reports', NothingLate(reports[i])'
                 PROVE  (Replay(reports[i]) = reports[i].result)'
      BY DEF ReportsAgree
    <3>1. CASE i = n
      BY <1>1, <2>4, <2>7, <3>1
         DEF NothingLate, LateRows, LateSnapshots, Replay, DatabasePasses
    <3>2. CASE i # n
      <4>1. i \in DOMAIN reports /\ reports'[i] = reports[i]
        BY <2>4, <3>2
      <4> QED
        BY <1>1, <4>1
           DEF IInv, ReportsAgree, NothingLate, LateRows, LateSnapshots, Replay, DatabasePasses
    <3> QED
      BY <3>1, <3>2
  <2> QED
    BY <2>5, <2>6, <2>8
<1>8. ASSUME KillGate PROVE MarksOK' /\ GateAgrees' /\ ReportsAgree'
  <2>1. gate' = NoGate /\ reports' = reports
    BY <1>8 DEF KillGate
  <2> QED
    BY <1>1, <1>3, <2>1 DEF IInv, MarksOK, GateAgrees, Begun
<1> QED
  BY <1>4, <1>5, <1>6, <1>7, <1>8 DEF GateAction

\* The invariant is inductive.
LEMMA IInvInductive == IInv /\ [Next]_vars => IInv'
<1> SUFFICES ASSUME IInv, [Next]_vars PROVE IInv'
  OBVIOUS
<1>1. TypeOK' /\ StartsHaveVersion'
  BY NextType DEF IInv
<1>2. MarksOK' /\ GateAgrees' /\ ReportsAgree'
  <2>1. CASE UNCHANGED vars
    BY <2>1 DEF vars, IInv, MarksOK, Begun, GateAgrees, ReportsAgree, NothingLate, LateRows,
       LateSnapshots, Replay, DatabasePasses
  <2>2. CASE Next
    BY <2>2, GateActionAgrees, CommandAgrees DEF Next, GateAction
  <2> QED
    BY <2>1, <2>2
<1> QED
  BY <1>1, <1>2 DEF IInv

\* Whatever is recorded while a gate runs, between two of its queries, or afterwards:
\* only rows inserted later under a timestamp it counts as its past change its answer.
THEOREM LateRowsAlone == Spec => []OnlyLateRowsRewriteVerdicts
<1>1. Init => IInv
  BY InitType, InitAgrees DEF IInv
<1>2. IInv /\ [Next]_vars => IInv'
  BY IInvInductive
<1>3. IInv => OnlyLateRowsRewriteVerdicts
  BY DEF IInv, ReportsAgree, OnlyLateRowsRewriteVerdicts, NothingLate
<1> QED
  BY <1>1, <1>2, <1>3, PTL DEF Spec

-----------------------------------------------------------------------------
(* Violations, when every timestamp is written in the same offset.  With two offsets    *)
(* the order of the texts is not the order of the instants, and a violation may lie     *)
(* beyond the gate's query.                                                             *)

OneOffset == \A a, b \in Offsets : a = b

\* Among the first rows of log l there is no violation up to a moment.
Clean(l, mark, at) ==
  ~ \E i \in OfKinds(l, {"VIOLATION"}) : i <= mark /\ l[i].at.instant <= at.instant

\* A gate that has nothing against a GO yet had no violation before it.
CleanSoFar ==
  gate # NoGate /\ gate.step \in AfterViolations /\ ~gate.failed => Clean(log, gate.mark, gate.at)

\* Rows that come in later are not among the first ones.
LEMMA CleanStays ==
  ASSUME log \in Seq(Row), NEW row, log' \in {log, Append(log, row)},
         NEW mark \in Nat, mark <= Len(log), NEW at, Clean(log, mark, at)
  PROVE  Clean(log', mark, at)
<1>1. CASE log' = log
  BY <1>1 DEF Clean, OfKinds
<1>2. CASE log' = Append(log, row)
  <2>1. log \in Seq(Row \cup {row}) /\ row \in Row \cup {row}
    BY SeqMonotonic
  <2>2. /\ DOMAIN log = 1 .. Len(log) /\ Len(log) \in Nat /\ DOMAIN log' = 1 .. Len(log) + 1
        /\ \A i \in 1 .. Len(log) : log'[i] = log[i]
    BY <1>2, <2>1, AppendProperties, LenProperties
  <2>3. \A i \in DOMAIN log' : i <= mark => i \in DOMAIN log /\ log'[i] = log[i]
    BY <2>2
  <2> QED
    BY <2>3 DEF Clean, OfKinds
<1> QED
  BY <1>1, <1>2

\* The query for violations finds every violation up to the moment of the gate.
LEMMA QueryFindsViolations ==
  ASSUME OneOffset, TypeOK, NEW at \in Stamp, NEW mark, ViolationsPass(AsOf(log, at))
  PROVE  Clean(log, mark, at)
<1> SUFFICES ASSUME NEW i \in DOMAIN log, log[i].kind = "VIOLATION",
                    log[i].at.instant <= at.instant
             PROVE  FALSE
  BY DEF Clean, OfKinds
<1>1. log[i] \in Row
  BY DEF TypeOK
<1> DEFINE t == log[i].at
<1>2. /\ t.instant \in Int /\ at.instant \in Int
      /\ t.offset = at.offset /\ at.offset \in Int
  <2>1. t \in Stamp
    BY <1>1 DEF Row
  <2> HIDE DEF t
  <2>2. t.instant \in Times /\ at.instant \in Times /\ t.offset \in Offsets /\ at.offset \in Offsets
    BY <2>1 DEF Stamp
  <2>3. Times \subseteq Int /\ Offsets \subseteq Int
    BY GateAssumption DEF Times
  <2> QED
    BY <2>2, <2>3 DEF OneOffset
<1>3. Text(log[i].at) <= Text(at)
  BY <1>2 DEF Text
<1>4. i \in DOMAIN AsOf(log, at) /\ AsOf(log, at)[i] = log[i]
  BY <1>3 DEF AsOf
<1> QED
  BY <1>4 DEF ViolationsPass, OfKinds

\* The gate itself adds no row, and is clean once it has asked.
LEMMA GateStaysClean ==
  ASSUME OneOffset, IInv, CleanSoFar, NoGoAfterViolation, GateAction
  PROVE  CleanSoFar' /\ NoGoAfterViolation'
<1>1. log' = log
  BY DEF GateAction, Begin, ReadEvidence, QueryDatabase, Check, WriteReport, KillGate
<1>2. ASSUME reports' = reports PROVE NoGoAfterViolation'
  BY <1>1, <1>2 DEF NoGoAfterViolation, OfKinds
<1>4. ASSUME NEW t \in Stamps, NEW flags \in FlagChoices, Begin(t, flags)
      PROVE  CleanSoFar' /\ NoGoAfterViolation'
  <2>1. gate'.step = "evidence" /\ reports' = reports
    BY <1>4 DEF Begin
  <2> QED
    BY <1>2, <2>1, StepOrder DEF CleanSoFar
<1>5. ASSUME ReadEvidence PROVE CleanSoFar' /\ NoGoAfterViolation'
  <2>1. gate \in Gate /\ gate # NoGate
    BY <1>5 DEF ReadEvidence, IInv, TypeOK, NoGate
  <2>2. gate'.step = "lock" /\ reports' = reports
    BY <1>5, <2>1 DEF ReadEvidence, Gate
  <2> QED
    BY <1>2, <2>2, StepOrder DEF CleanSoFar
<1>6. ASSUME QueryDatabase PROVE CleanSoFar' /\ NoGoAfterViolation'
  <2>1. gate \in Gate /\ gate # NoGate /\ reports' = reports
    BY <1>6 DEF QueryDatabase, Check, IInv, TypeOK, NoGate
  <2>2. ASSUME NEW step, NEW passes, NEW next, Check(step, passes, next)
        PROVE  /\ gate.step = step /\ gate'.step = next /\ gate'.failed = (gate.failed \/ ~passes)
               /\ gate'.at = gate.at /\ gate'.mark = gate.mark
    BY <2>1, <2>2 DEF Check, Gate
  <2>3. gate.at \in Stamp
    BY <2>1 DEF Gate
  <2>4. CASE gate.step \in AfterViolations
    <3>1. gate'.at = gate.at /\ gate'.mark = gate.mark /\ (gate.failed => gate'.failed)
      BY <1>6, <2>2 DEF QueryDatabase
    <3>2. ~gate'.failed => Clean(log, gate'.mark, gate'.at)
      BY <2>1, <2>4, <3>1 DEF CleanSoFar
    <3> QED
      BY <1>1, <1>2, <2>1, <3>2 DEF CleanSoFar
  <2>5. CASE gate.step = "violations"
    <3>0. Check("violations", ViolationsPass(AsOf(log, gate.at)), "session")
      BY <1>6, <2>5 DEF QueryDatabase, Check
    <3>1. /\ gate'.at = gate.at
          /\ ~gate'.failed => ViolationsPass(AsOf(log, gate.at))
      <4> DEFINE passes == ViolationsPass(AsOf(log, gate.at))
      <4> HIDE DEF passes
      <4>1. Check("violations", passes, "session")
        BY <3>0 DEF passes
      <4>2. gate'.failed = (gate.failed \/ ~passes) /\ gate'.at = gate.at
        BY <2>1, <4>1 DEF Check, Gate
      <4>3. ~gate'.failed => passes
        BY <4>2
      <4> QED
        BY <4>2, <4>3 DEF passes
    <3>2. ~gate'.failed => Clean(log, gate'.mark, gate'.at)
      BY <2>3, <3>1, QueryFindsViolations DEF IInv
    <3> QED
      BY <1>1, <1>2, <2>1, <3>2 DEF CleanSoFar
  <2>6. CASE gate.step \in {"lock", "shutdown"}
    <3>1. gate'.step \in {"shutdown", "violations"}
      BY <1>6, <2>2, <2>6 DEF QueryDatabase
    <3> QED
      BY <1>2, <2>1, <3>1, StepOrder DEF CleanSoFar
  <2>7. gate.step \in {"lock", "shutdown", "violations"} \cup AfterViolations
    BY <1>6, <2>2, StepOrder DEF QueryDatabase
  <2> QED
    BY <2>4, <2>5, <2>6, <2>7
<1>7. ASSUME WriteReport PROVE CleanSoFar' /\ NoGoAfterViolation'
  <2> DEFINE r == [at |-> gate.at, flags |-> gate.flags, readiness |-> gate.readiness,
                   evidence |-> gate.evidence, mark |-> gate.mark, seen |-> gate.seen,
                   result |-> Overall(gate.failed, gate.flags)]
             n == Len(reports) + 1
  <2>1. gate \in Gate /\ gate # NoGate /\ gate.step = "report" /\ gate' = NoGate
        /\ reports' = Append(reports, r) /\ reports \in Seq(Report)
    BY <1>7 DEF WriteReport, IInv, TypeOK, NoGate
  <2>2. r.at = gate.at /\ r.mark = gate.mark /\ r.result = Overall(gate.failed, gate.flags)
    OBVIOUS
  <2> HIDE DEF r
  <2>3. reports \in Seq(Report \cup {r}) /\ r \in Report \cup {r}
    BY <2>1, SeqMonotonic
  <2>4. /\ DOMAIN reports' = 1 .. n /\ DOMAIN reports = 1 .. Len(reports)
        /\ \A i \in 1 .. n : reports'[i] = IF i = n THEN r ELSE reports[i]
    BY <2>1, <2>3, AppendProperties, LenProperties
  <2>5. r.result = "GO" => Clean(log, r.mark, r.at)
    BY <2>1, <2>2, StepOrder DEF Overall, CleanSoFar
  <2>6. \A i \in DOMAIN reports' :
          reports'[i].result = "GO" => Clean(log', reports'[i].mark, reports'[i].at)
    BY <1>1, <2>4, <2>5 DEF NoGoAfterViolation, Clean
  <2> QED
    BY <1>1, <2>1, <2>6 DEF CleanSoFar, NoGoAfterViolation, Clean, OfKinds
<1>8. ASSUME KillGate PROVE CleanSoFar' /\ NoGoAfterViolation'
  BY <1>2, <1>8 DEF KillGate, CleanSoFar
<1> QED
  BY <1>4, <1>5, <1>6, <1>7, <1>8 DEF GateAction

\* Rows of other commands come after the mark of a gate that runs or has run.
LEMMA CommandStaysClean ==
  ASSUME IInv, CleanSoFar, NoGoAfterViolation,
         SessionCommand \/ ControlCommand \/ FillCommand \/ FileCommand \/ Tick
  PROVE  CleanSoFar' /\ NoGoAfterViolation'
<1>1. PICK row : /\ gate' = gate /\ reports' = reports
                 /\ log' \in {log, Append(log, row)}
  BY CommandFrame
<1>2. log \in Seq(Row) /\ reports \in Seq(Report) /\ gate \in Gate \cup {NoGate}
  BY DEF IInv, TypeOK
<1>3. \A mark \in Nat : \A at :
        mark <= Len(log) /\ Clean(log, mark, at) => Clean(log', mark, at)
  BY <1>1, <1>2, CleanStays
<1>4. CleanSoFar'
  <2>1. gate # NoGate => gate.mark \in Nat /\ gate.mark <= Len(log)
    BY <1>2 DEF Gate, IInv, MarksOK, Begun
  <2> QED
    BY <1>1, <1>3, <2>1 DEF CleanSoFar
<1>5. NoGoAfterViolation'
  <2>0. \A n \in DOMAIN reports : reports[n] \in Report
    BY <1>2
  <2>1. \A n \in DOMAIN reports : reports[n].mark \in Nat /\ reports[n].mark <= Len(log)
    BY <2>0 DEF Report, IInv, MarksOK, Begun
  <2>2. \A n \in DOMAIN reports :
          reports[n].result = "GO" => Clean(log, reports[n].mark, reports[n].at)
    BY DEF NoGoAfterViolation, Clean
  <2>3. \A n \in DOMAIN reports' :
          reports'[n].result = "GO" => Clean(log', reports'[n].mark, reports'[n].at)
    BY <1>1, <1>3, <2>1, <2>2
  <2> QED
    BY <2>3 DEF NoGoAfterViolation, Clean
<1> QED
  BY <1>4, <1>5

\* No gate that begins after a recorded violation says GO, whatever sessions, shutdown
\* flag and files become in between.
THEOREM ViolationsAreFinal ==
  ASSUME OneOffset
  PROVE  Spec => []NoGoAfterViolation
<1> DEFINE Inv == IInv /\ CleanSoFar /\ NoGoAfterViolation
<1>1. Init => Inv
  <2>1. Init => CleanSoFar /\ NoGoAfterViolation
    BY DEF Init, CleanSoFar, NoGoAfterViolation
  <2> QED
    BY <2>1, InitType, InitAgrees DEF IInv
<1>2. Inv /\ [Next]_vars => Inv'
  <2> SUFFICES ASSUME Inv, [Next]_vars PROVE Inv'
    OBVIOUS
  <2>1. IInv'
    BY IInvInductive
  <2>2. CASE UNCHANGED vars
    <3>1. log' = log /\ gate' = gate /\ reports' = reports
      BY <2>2 DEF vars
    <3> QED
      BY <2>1, <3>1 DEF CleanSoFar, NoGoAfterViolation, Clean, OfKinds
  <2>3. CASE Next
    BY <2>1, <2>3, GateStaysClean, CommandStaysClean DEF Next, GateAction
  <2> QED
    BY <2>2, <2>3
<1>3. Inv => NoGoAfterViolation
  OBVIOUS
<1> QED
  BY <1>1, <1>2, <1>3, PTL DEF Spec
=============================================================================
